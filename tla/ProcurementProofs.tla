--------------------------- MODULE ProcurementProofs ---------------------------
(***************************************************************************)
(* What Procurement promises, for any number of requisitions, orders,      *)
(* receipts, bills and requests, and any orders and deliveries.            *)
(*                                                                         *)
(* IInv says what the rows refer to, what a running request has read and   *)
(* may still rely on, and which rows it holds for that.  The promises are  *)
(* proved from it one at a time, each from the few steps that write what   *)
(* it is about.                                                            *)
(***************************************************************************)
EXTENDS Procurement, SumTheorems, SequenceTheorems

-------------------------------------------------------------------------------
(* The invariant                                                           *)

\* Rows refer to rows that exist, and an order keeps a count for each of its lines.
OrderSound(o) ==
    IF order[o].status = "none" THEN order[o] = NoOrder
    ELSE /\ order[o].lines \in OrderBodies
         /\ Len(order[o].received) = Len(order[o].lines)
         /\ Len(order[o].billed) = Len(order[o].lines)

\* The delivery's lines are lines of the order.
Fits(lines, o) == \A i \in DOMAIN lines : lines[i].line \in DOMAIN order[o].lines

ReceiptSound(g) ==
    receipt[g] # NoReceipt =>
        /\ receipt[g].order \in Orders
        /\ receipt[g].lines \in Deliveries
        /\ order[receipt[g].order].status # "none"
        /\ Fits(receipt[g].lines, receipt[g].order)

BillSound(b) ==
    IF bill[b].status = "none" THEN bill[b] = NoBill
    ELSE bill[b].receipt \in Receipts /\ receipt[bill[b].receipt] # NoReceipt

RowsSound ==
    /\ \A o \in Orders : OrderSound(o)
    /\ \A g \in Receipts : ReceiptSound(g)
    /\ \A b \in Bills : BillSound(b)

\* The lines of the order that a delivery still has to lock, and those it has compared
\* with what was pending.
Named(lines) == {lines[i].line : i \in DOMAIN lines}

Compared(o, lines, seen, todo) ==
    \A i \in DOMAIN lines : lines[i].line \notin todo =>
        lines[i].qty <= order[o].lines[lines[i].line].qty - seen[lines[i].line]

\* What a request of each kind has, and what of it still holds.
Decides(q) ==
    /\ q.step = "commit"
    /\ q.requisition \in Requisitions /\ q.to \in DOMAIN From /\ q.was \in From[q.to]

Places(q) ==
    /\ q.step \in {"vendor", "commit"}
    /\ q.order \in Orders /\ q.body \in OrderBodies /\ order[q.order] = NoOrder

Sets(q) ==
    /\ q.step \in {"vendor", "commit"}
    /\ q.order \in Orders /\ order[q.order].status # "none"
    /\ q.to \in DOMAIN OrderFrom /\ q.was \in OrderFrom[q.to]

Receives(q) ==
    /\ q.step \in {"document", "number", "lines", "journal", "commit"}
    /\ q.order \in Orders /\ order[q.order].status # "none"
    /\ q.receipt \in Receipts /\ receipt[q.receipt] = NoReceipt
    /\ q.lines \in Deliveries /\ Fits(q.lines, q.order)
    /\ q.todo \subseteq Named(q.lines)
    /\ q.step \in {"document", "number"} => q.todo = Named(q.lines)
    /\ q.step \in {"journal", "commit"} => q.todo = {}
    /\ q.step # "document" =>
          q.seen = order[q.order].received /\ Compared(q.order, q.lines, q.seen, q.todo)

Drafts(q) ==
    /\ q.step = "commit"
    /\ q.bill \in Bills /\ bill[q.bill] = NoBill
    /\ q.receipt \in Receipts /\ receipt[q.receipt] # NoReceipt
    /\ q.rivals = {}

Posts(q) ==
    /\ q.step \in {"document", "journal", "lines", "commit"}
    /\ q.bill \in Bills /\ bill[q.bill].status # "none"
    /\ q.step # "document" =>
          /\ bill[q.bill].status = "draft"
          /\ q.order = receipt[bill[q.bill].receipt].order
          /\ q.lines = receipt[bill[q.bill].receipt].lines
          /\ q.todo \subseteq DOMAIN order[q.order].lines

Cancels(q) ==
    /\ q.step \in {"entry", "journal", "commit"}
    /\ q.bill \in Bills /\ bill[q.bill].status # "none"
    /\ q.was \in {"draft", "posted", "cancelled"}

Runs(q) ==
    /\ q.op = None => q = Idle
    /\ q.op = "decide" => Decides(q)
    /\ q.op = "order" => Places(q)
    /\ q.op = "setOrder" => Sets(q)
    /\ q.op = "receive" => Receives(q)
    /\ q.op = "draftBill" => Drafts(q)
    /\ q.op = "postBill" => Posts(q)
    /\ q.op = "cancelBill" => Cancels(q)

\* It holds the order it has read the lines of, or the bill it posts.
Holds(r) ==
    req[r].step # "document" =>
        /\ req[r].op = "receive" => OrderRow(req[r].order) \in locks[r]
        /\ req[r].op = "postBill" => BillRow(req[r].bill) \in locks[r]

\* Two requests never create the same row.
SameRow(p, q) ==
    /\ p.op = q.op
    /\ \/ p.op = "order" /\ p.order = q.order
       \/ p.op = "receive" /\ p.receipt = q.receipt
       \/ p.op = "draftBill" /\ p.bill = q.bill

OwnRows == \A q, r \in Requests : SameRow(req[q], req[r]) => q = r

RequestsSound == \A r \in Requests : Runs(req[r]) /\ Holds(r)

IInv == TypeOK /\ L!LocksExclusive /\ RowsSound /\ RequestsSound /\ OwnRows

-------------------------------------------------------------------------------
(* Types                                                                   *)

\* An order's lines, and those of a delivery, are numbered from 1.
LEMMA BodyIsSeq ==
    ASSUME NEW body \in OrderBodies
    PROVE  /\ body \in Seq(OrderLine)
           /\ DOMAIN body = 1 .. Len(body) /\ Len(body) \in Nat
           /\ \A l \in DOMAIN body : body[l].qty \in Nat \ {0} /\ body[l].price \in Nat
<1>1. body \in Seq(OrderLine)
  BY BodiesAssumption
<1>2. DOMAIN body = 1 .. Len(body) /\ Len(body) \in Nat
  BY <1>1, LenProperties
<1>3. \A l \in DOMAIN body : body[l] \in OrderLine
  BY <1>1, <1>2, ElementOfSeq
<1> QED
  BY <1>1, <1>2, <1>3 DEF OrderLine

\* The lines of a delivery are finitely many, each with a line number and a positive quantity.
LEMMA DeliveryIsSeq ==
    ASSUME NEW lines \in Seq(DeliveryLine)
    PROVE  /\ IsFiniteSet(DOMAIN lines)
           /\ \A i \in DOMAIN lines : lines[i].line \in Nat /\ lines[i].qty \in Nat \ {0}
<1>1. DOMAIN lines = 1 .. Len(lines) /\ Len(lines) \in Nat
  BY LenProperties
<1>2. \A i \in DOMAIN lines : lines[i] \in DeliveryLine
  BY <1>1, ElementOfSeq
<1>3. IsFiniteSet(1 .. Len(lines))
  BY <1>1, FS_Interval
<1> QED
  BY <1>1, <1>2, <1>3 DEF DeliveryLine

\* The deliveries of the model are such sequences.
LEMMA DeliveriesAre == Deliveries \subseteq Seq(DeliveryLine)
BY BodiesAssumption

\* The quantity that lines add to a line, and what they cost.
LEMMA QtyIsNat ==
    ASSUME NEW lines \in Seq(DeliveryLine), NEW l
    PROVE  QtyOf(lines, l) \in Nat
<1>1. PICK f : f = [i \in DOMAIN lines |-> IF lines[i].line = l THEN lines[i].qty ELSE 0]
  OBVIOUS
<1>2. f \in [DOMAIN lines -> Nat] /\ IsFiniteSet(DOMAIN lines)
  BY <1>1, DeliveryIsSeq
<1>3. SumOver(f) \in Nat
  BY <1>2, SumIsNat
<1> QED
  BY <1>1, <1>3 DEF QtyOf

\* What lines cost at their order's rates is a whole number, when they fit the order.
LEMMA AmountIsNat ==
    ASSUME NEW o, NEW lines \in Seq(DeliveryLine), order[o].lines \in OrderBodies, Fits(lines, o)
    PROVE  Amount(o, lines) \in Nat
<1>1. PICK f : f = [i \in DOMAIN lines |-> lines[i].qty * order[o].lines[lines[i].line].price]
  OBVIOUS
<1>2. \A i \in DOMAIN lines : lines[i].qty \in Nat /\ order[o].lines[lines[i].line].price \in Nat
  BY DeliveryIsSeq, BodyIsSeq DEF Fits
<1>3. \A m, n \in Nat : m * n \in Nat
  BY SMT
<1>4. f \in [DOMAIN lines -> Nat] /\ IsFiniteSet(DOMAIN lines)
  BY <1>1, <1>2, <1>3, DeliveryIsSeq
<1>5. SumOver(f) \in Nat
  BY <1>4, SumIsNat
<1> QED
  BY <1>1, <1>5 DEF Amount

\* A request at rest has the type of a request and knows nothing.
LEMMA IdleTyped == Idle \in Request /\ Runs(Idle) /\ Idle.op = None /\ Idle.step = "idle"
<1>1. <<>> \in Seq(OrderLine) /\ <<>> \in Seq(DeliveryLine) /\ <<>> \in Seq(Nat)
  BY EmptySeq
<1>2. Idle \in Request
  BY <1>1 DEF Idle, Request, Steps
<1> QED
  BY <1>2, NoneAssumption DEF Idle, Runs, Operations

\* The rows that do not exist yet have their tables' types.
LEMMA NoRowsTyped == NoOrder \in Order /\ NoReceipt \in Receipt /\ NoBill \in Bill
<1>1. <<>> \in Seq(OrderLine) /\ <<>> \in Seq(DeliveryLine) /\ <<>> \in Seq(Nat)
  BY EmptySeq
<1> QED
  BY <1>1 DEF NoOrder, NoReceipt, NoBill, Order, Receipt, Bill, OrderStatus

-------------------------------------------------------------------------------
(* Row locks and the requests that take no part in a step                  *)

\* The row a request locks was nobody else's.
LEMMA LockKeeps ==
    ASSUME TypeOK, L!LocksExclusive, NEW r \in Requests, NEW row, L!Lock(r, row),
           row \in {OrderRow(o) : o \in Orders} \cup {BillRow(b) : b \in Bills}
                     \cup {LineRow(o, l) : o \in Orders, l \in LineNumbers}
                     \cup {Sequence("goods_receipt"), Sequence("journal")}
    PROVE  /\ L!LocksTypeOK' /\ L!LocksExclusive'
           /\ locks'[r] = locks[r] \cup {row}
           /\ \A q \in Requests \ {r} : locks'[q] = locks[q]
BY DEF TypeOK, L!LocksTypeOK, L!LocksExclusive, L!Lock, L!Available

\* The end of a transaction gives its locks back and takes none from the others.
LEMMA EndKeeps ==
    ASSUME TypeOK, L!LocksExclusive, NEW r \in Requests, L!EndTransaction(r)
    PROVE  /\ L!LocksTypeOK' /\ L!LocksExclusive'
           /\ \A q \in Requests \ {r} : locks'[q] = locks[q]
BY DEF TypeOK, L!LocksTypeOK, L!LocksExclusive, L!EndTransaction

\* What request q has read stays as it is, and so do the rows it is about to create.
StaysFor(q) ==
    /\ \A o \in Orders : order[o].status # "none" =>
           order'[o].status # "none" /\ order'[o].lines = order[o].lines
    /\ \A o \in Orders : order[o].status # "none" /\ OrderRow(o) \in locks[q] =>
           order'[o].received = order[o].received
    /\ req[q].op = "order" => order'[req[q].order] = order[req[q].order]
    /\ \A g \in Receipts : receipt[g] # NoReceipt => receipt'[g] = receipt[g]
    /\ req[q].op = "receive" => receipt'[req[q].receipt] = receipt[req[q].receipt]
    /\ \A b \in Bills : bill[b].status # "none" =>
           bill'[b].status # "none" /\ bill'[b].receipt = bill[b].receipt
    /\ \A b \in Bills : bill[b].status # "none" /\ BillRow(b) \in locks[q] => bill'[b] = bill[b]
    /\ req[q].op = "draftBill" => bill'[req[q].bill] = bill[req[q].bill]

\* A request that a step leaves alone, with the rows it read, goes on knowing what it knew.
LEMMA Bystander ==
    ASSUME IInv, NEW q \in Requests, req'[q] = req[q], locks'[q] = locks[q], StaysFor(q)
    PROVE  Runs(req[q])' /\ Holds(q)'
<1>1. Runs(req[q]) /\ Holds(q) /\ RowsSound /\ req[q] \in Request
  BY DEF IInv, RequestsSound, TypeOK
<1>2. PICK p : p = req[q]
  OBVIOUS
<1>3. \A o \in Orders : order[o].status # "none" =>
        order'[o].status # "none" /\ order'[o].lines = order[o].lines
  BY DEF StaysFor
<1>4. \A g \in Receipts : receipt[g] # NoReceipt => receipt'[g] = receipt[g]
  BY DEF StaysFor
<1>5. ASSUME p.op = "decide" PROVE Decides(p)'
  BY <1>1, <1>2, <1>5 DEF Runs, Decides
<1>6. ASSUME p.op = "order" PROVE Places(p)'
  BY <1>1, <1>2, <1>6 DEF Runs, Places, StaysFor
<1>7. ASSUME p.op = "setOrder" PROVE Sets(p)'
  BY <1>1, <1>2, <1>3, <1>7 DEF Runs, Sets
<1>8. ASSUME p.op = "receive" PROVE Receives(p)'
  <2>1. Receives(p)
    BY <1>1, <1>2, <1>8 DEF Runs
  <2>2. order'[p.order].status # "none" /\ order'[p.order].lines = order[p.order].lines
    BY <1>3, <2>1 DEF Receives
  <2>3. receipt'[p.receipt] = NoReceipt
    BY <1>2, <1>8, <2>1 DEF Receives, StaysFor
  <2>4. p.step # "document" => order'[p.order].received = order[p.order].received
    BY <1>1, <1>2, <1>8, <2>1 DEF Holds, Receives, StaysFor
  <2>5. Fits(p.lines, p.order)'
    BY <2>1, <2>2 DEF Receives, Fits
  <2>6. p.step # "document" => Compared(p.order, p.lines, p.seen, p.todo)'
    BY <2>1, <2>2 DEF Receives, Compared
  <2> QED
    BY <2>1, <2>2, <2>3, <2>4, <2>5, <2>6 DEF Receives
<1>9. ASSUME p.op = "draftBill" PROVE Drafts(p)'
  BY <1>1, <1>2, <1>4, <1>9 DEF Runs, Drafts, StaysFor
<1>10. ASSUME p.op = "postBill" PROVE Posts(p)'
  <2>1. Posts(p)
    BY <1>1, <1>2, <1>10 DEF Runs
  <2>2. bill'[p.bill].status # "none"
    BY <2>1 DEF Posts, StaysFor
  <2>3. ASSUME p.step # "document"
        PROVE  /\ bill'[p.bill] = bill[p.bill]
               /\ receipt'[bill[p.bill].receipt] = receipt[bill[p.bill].receipt]
               /\ order'[p.order].lines = order[p.order].lines
    <3>1. bill'[p.bill] = bill[p.bill]
      BY <1>1, <1>2, <1>10, <2>1, <2>3 DEF Holds, Posts, StaysFor
    <3>2. bill[p.bill].receipt \in Receipts /\ receipt[bill[p.bill].receipt] # NoReceipt
      BY <1>1, <2>1 DEF Posts, RowsSound, BillSound
    <3>3. p.order \in Orders /\ order[p.order].status # "none"
      BY <1>1, <2>1, <2>3, <3>2 DEF Posts, RowsSound, ReceiptSound
    <3> QED
      BY <1>3, <1>4, <3>1, <3>2, <3>3
  <2> QED
    BY <2>1, <2>2, <2>3 DEF Posts
<1>11. ASSUME p.op = "cancelBill" PROVE Cancels(p)'
  BY <1>1, <1>2, <1>11 DEF Runs, Cancels, StaysFor
<1>12. Runs(p)'
  BY <1>1, <1>2, <1>5, <1>6, <1>7, <1>8, <1>9, <1>10, <1>11 DEF Runs
<1>13. Holds(q)'
  BY <1>1 DEF Holds
<1> QED
  BY <1>2, <1>12, <1>13

\* A step of r that writes no row.
LEMMA WorkStep ==
    ASSUME IInv, NEW r \in Requests, UNCHANGED rows, NEW q \in Request,
           req' = [req EXCEPT ![r] = q], Runs(q), Holds(r)',
           \A p \in Requests : SameRow(q, req[p]) => p = r,
           L!LocksTypeOK', L!LocksExclusive',
           \A p \in Requests \ {r} : locks'[p] = locks[p]
    PROVE  IInv'
<1>1. req \in [Requests -> Request]
  BY DEF IInv, TypeOK
<1>2. /\ req' \in [Requests -> Request] /\ req'[r] = q
      /\ \A p \in Requests \ {r} : req'[p] = req[p]
  BY <1>1
<1>3. TypeOK'
  BY <1>2 DEF IInv, TypeOK, rows
<1>4. RowsSound'
  BY DEF IInv, RowsSound, OrderSound, ReceiptSound, BillSound, Fits, rows
<1>5. ASSUME NEW p \in Requests \ {r} PROVE Runs(req[p])' /\ Holds(p)'
  <2>1. StaysFor(p)
    BY DEF StaysFor, rows
  <2> QED
    BY <1>2, <2>1, Bystander
<1>6. Runs(req[r])'
  <2>1. order' = order /\ receipt' = receipt /\ bill' = bill
    BY DEF rows
  <2>2. Decides(q) => Decides(q)'
    BY DEF Decides
  <2>3. (Places(q) => Places(q)') /\ (Sets(q) => Sets(q)')
    BY <2>1 DEF Places, Sets
  <2>4. Receives(q) => Receives(q)'
    BY <2>1 DEF Receives, Fits, Compared
  <2>5. (Drafts(q) => Drafts(q)') /\ (Posts(q) => Posts(q)') /\ (Cancels(q) => Cancels(q)')
    BY <2>1 DEF Drafts, Posts, Cancels
  <2>6. Runs(q)'
    BY <2>2, <2>3, <2>4, <2>5 DEF Runs
  <2> QED
    BY <1>2, <2>6
<1>7. OwnRows'
  <2> SUFFICES ASSUME NEW p \in Requests, NEW s \in Requests, SameRow(req'[p], req'[s])
               PROVE  p = s
    BY DEF OwnRows
  <2>1. \A x, y : SameRow(x, y) => SameRow(y, x)
    BY DEF SameRow
  <2> QED
    BY <1>2, <2>1 DEF IInv, OwnRows
<1> QED
  BY <1>3, <1>4, <1>5, <1>6, <1>7 DEF IInv, RequestsSound

\* The end of a request, with what it writes to the rows.
LEMMA EndStep ==
    ASSUME IInv, NEW r \in Requests, End(r), RowsSound',
           requisition' \in [Requisitions -> RequisitionStatus],
           vendorOk' \in BOOLEAN, order' \in [Orders -> Order],
           receipt' \in [Receipts -> Receipt], bill' \in [Bills -> Bill],
           entry' \in [Bills -> {"none", "posted", "reversed"}], grni' \in Int,
           overtaken' \subseteq Orders \cup Bills \cup Requisitions,
           \A q \in Requests \ {r} : StaysFor(q)
    PROVE  IInv'
<1>1. req \in [Requests -> Request]
  BY DEF IInv, TypeOK
<1>2. /\ req' \in [Requests -> Request] /\ req'[r] = Idle
      /\ \A p \in Requests \ {r} : req'[p] = req[p]
  BY <1>1, IdleTyped DEF End
<1>3. L!LocksTypeOK' /\ L!LocksExclusive' /\ \A p \in Requests \ {r} : locks'[p] = locks[p]
  BY EndKeeps DEF IInv, End
<1>4. TypeOK'
  BY <1>2, <1>3 DEF TypeOK
<1>5. ASSUME NEW p \in Requests \ {r} PROVE Runs(req[p])' /\ Holds(p)'
  BY <1>2, <1>3, Bystander
<1>6. Runs(req[r])' /\ Holds(r)'
  BY <1>2, IdleTyped, NoneAssumption DEF Runs, Holds, Operations
<1>7. OwnRows'
  <2> SUFFICES ASSUME NEW p \in Requests, NEW s \in Requests, SameRow(req'[p], req'[s])
               PROVE  p = s
    BY DEF OwnRows
  <2>1. \A x : ~SameRow(Idle, x) /\ ~SameRow(x, Idle)
    BY IdleTyped, NoneAssumption DEF SameRow, Operations
  <2> QED
    BY <1>2, <2>1 DEF IInv, OwnRows
<1> QED
  BY <1>3, <1>4, <1>5, <1>6, <1>7 DEF IInv, RequestsSound

-------------------------------------------------------------------------------
(* A request begins                                                        *)

\* A request that begins with a well-typed record keeps the invariant.
LEMMA BeginStep ==
    ASSUME IInv, NEW r \in Requests, NEW q \in Request, Begin(r, q), Runs(q),
           q.op \in {"receive", "postBill"} => q.step = "document",
           \A p \in Requests : SameRow(q, req[p]) => p = r
    PROVE  IInv'
<1>1. req' = [req EXCEPT ![r] = q] /\ UNCHANGED rows /\ UNCHANGED locks
  BY DEF Begin
<1>2. req'[r] = q
  BY <1>1 DEF IInv, TypeOK
<1>3. Holds(r)'
  BY <1>2 DEF Holds
<1>4. L!LocksTypeOK' /\ L!LocksExclusive'
  BY <1>1 DEF IInv, TypeOK, L!LocksTypeOK, L!LocksExclusive
<1> QED
  BY <1>1, <1>3, <1>4, WorkStep

\* Every way to begin keeps the invariant.
LEMMA StartKeeps ==
    ASSUME IInv, NEW r \in Requests, Start(r)
    PROVE  IInv'
<1>1. TypeOK /\ RowsSound /\ OwnRows
  BY DEF IInv
<1>2. <<>> \in Seq(OrderLine) /\ <<>> \in Seq(DeliveryLine) /\ <<>> \in Seq(Nat)
  BY EmptySeq
<1>3. \A op \in Operations : op # None
  BY NoneAssumption
<1>4. ASSUME NEW p \in Requisitions, NEW to \in DOMAIN From, BeginDecide(r, p, to)
      PROVE  IInv'
  <2>1. PICK q : q = [Idle EXCEPT !.op = "decide", !.step = "commit", !.requisition = p, !.to = to,
                                  !.was = requisition[p]]
    OBVIOUS
  <2>2. Begin(r, q) /\ requisition[p] \in From[to]
    BY <1>4, <2>1 DEF BeginDecide
  <2>3. /\ q.op = "decide" /\ q.step = "commit" /\ q.requisition = p /\ q.to = to
        /\ q.was = requisition[p]
    BY <2>1 DEF Idle
  <2>4. q \in Request
    BY <1>1, <1>2, <2>1 DEF Idle, Request, Steps, Operations, From, RequisitionStatus, TypeOK
  <2>5. Runs(q)
    BY <1>3, <2>2, <2>3 DEF Runs, Decides, Operations
  <2>6. \A s \in Requests : ~SameRow(q, req[s])
    BY <2>3 DEF SameRow
  <2> QED
    BY <2>2, <2>3, <2>4, <2>5, <2>6, BeginStep
<1>5. ASSUME NEW o \in Orders, NEW body \in OrderBodies, NEW p \in Requisitions \cup {None},
             BeginOrder(r, o, body, p)
      PROVE  IInv'
  <2>1. PICK q : q = [Idle EXCEPT !.op = "order", !.step = "vendor", !.order = o, !.body = body,
                                  !.requisition = p]
    OBVIOUS
  <2>2. Begin(r, q) /\ order[o] = NoOrder /\ \A s \in Requests : req[s].order # o
    BY <1>5, <2>1 DEF BeginOrder
  <2>3. q.op = "order" /\ q.step = "vendor" /\ q.order = o /\ q.body = body
    BY <2>1 DEF Idle
  <2>4. body \in Seq(OrderLine)
    BY BodyIsSeq
  <2>5. q \in Request
    BY <1>2, <2>1, <2>4 DEF Idle, Request, Steps, Operations
  <2>6. Runs(q)
    BY <1>3, <2>2, <2>3 DEF Runs, Places, Operations
  <2>7. \A s \in Requests : ~SameRow(q, req[s])
    BY <2>2, <2>3 DEF SameRow
  <2> QED
    BY <2>2, <2>3, <2>5, <2>6, <2>7, BeginStep
<1>6. ASSUME NEW o \in Orders, NEW to \in DOMAIN OrderFrom, BeginSetOrder(r, o, to)
      PROVE  IInv'
  <2>1. PICK step : step = IF to = "approved" THEN "vendor" ELSE "commit"
    OBVIOUS
  <2>2. PICK q : q = [Idle EXCEPT !.op = "setOrder", !.step = step, !.order = o, !.to = to,
                                  !.was = order[o].status]
    OBVIOUS
  <2>3. Begin(r, q) /\ order[o].status \in OrderFrom[to]
    BY <1>6, <2>1, <2>2 DEF BeginSetOrder
  <2>4. /\ q.op = "setOrder" /\ q.step = step /\ q.order = o /\ q.to = to
        /\ q.was = order[o].status
    BY <2>2 DEF Idle
  <2>5. order[o].status # "none"
    BY <2>3 DEF OrderFrom
  <2>6. q \in Request
    <3>1. order[o].status \in OrderStatus
      BY <1>1 DEF TypeOK, Order
    <3>2. to \in OrderStatus /\ step \in Steps
      BY <2>1 DEF OrderFrom, OrderStatus, Steps
    <3> QED
      BY <1>2, <2>2, <3>1, <3>2 DEF Idle, Request, Operations
  <2>7. Runs(q)
    BY <1>3, <2>1, <2>3, <2>4, <2>5 DEF Runs, Sets, Operations
  <2>8. \A s \in Requests : ~SameRow(q, req[s])
    BY <2>4 DEF SameRow
  <2> QED
    BY <2>3, <2>4, <2>6, <2>7, <2>8, BeginStep
<1>7. ASSUME NEW g \in Receipts, NEW o \in Orders, NEW lines \in Deliveries,
             BeginReceive(r, g, o, lines)
      PROVE  IInv'
  <2>1. PICK q : q = [Idle EXCEPT !.op = "receive", !.step = "document", !.receipt = g, !.order = o,
                                  !.lines = lines, !.todo = {lines[i].line : i \in DOMAIN lines}]
    OBVIOUS
  <2>2. /\ Begin(r, q) /\ order[o].status # "none" /\ receipt[g] = NoReceipt
        /\ \A s \in Requests : req[s].receipt # g
        /\ \A i \in DOMAIN lines : lines[i].line \in DOMAIN order[o].lines
    BY <1>7, <2>1 DEF BeginReceive
  <2>3. /\ q.op = "receive" /\ q.step = "document" /\ q.receipt = g /\ q.order = o
        /\ q.lines = lines /\ q.todo = Named(lines)
    BY <2>1 DEF Idle, Named
  <2>4. lines \in Seq(DeliveryLine) /\ Named(lines) \subseteq Nat
    BY DeliveriesAre, DeliveryIsSeq DEF Named
  <2>5. q \in Request
    BY <1>2, <2>1, <2>4 DEF Idle, Request, Steps, Operations, Named
  <2>6. Runs(q)
    BY <1>3, <2>2, <2>3 DEF Runs, Receives, Fits, Operations
  <2>7. \A s \in Requests : ~SameRow(q, req[s])
    BY <2>2, <2>3 DEF SameRow
  <2> QED
    BY <2>2, <2>3, <2>5, <2>6, <2>7, BeginStep
<1>8. ASSUME NEW b \in Bills, NEW g \in Receipts, BeginDraftBill(r, b, g)
      PROVE  IInv'
  <2>1. PICK q : q = [Idle EXCEPT !.op = "draftBill", !.step = "commit", !.bill = b, !.receipt = g,
                                  !.rivals = LiveBills(g)]
    OBVIOUS
  <2>2. /\ Begin(r, q) /\ bill[b] = NoBill /\ receipt[g] # NoReceipt /\ LiveBills(g) = {}
        /\ \A s \in Requests : req[s].bill # b
    BY <1>8, <2>1 DEF BeginDraftBill
  <2>3. /\ q.op = "draftBill" /\ q.step = "commit" /\ q.bill = b /\ q.receipt = g
        /\ q.rivals = {}
    BY <2>1, <2>2 DEF Idle
  <2>4. q \in Request
    BY <1>2, <2>1, <2>2 DEF Idle, Request, Steps, Operations
  <2>5. Runs(q)
    BY <1>3, <2>2, <2>3 DEF Runs, Drafts, Operations
  <2>6. \A s \in Requests : ~SameRow(q, req[s])
    BY <2>2, <2>3 DEF SameRow
  <2> QED
    BY <2>2, <2>3, <2>4, <2>5, <2>6, BeginStep
<1>9. ASSUME NEW b \in Bills, BeginPostBill(r, b)
      PROVE  IInv'
  <2>1. PICK q : q = [Idle EXCEPT !.op = "postBill", !.step = "document", !.bill = b]
    OBVIOUS
  <2>2. Begin(r, q) /\ bill[b].status # "none"
    BY <1>9, <2>1 DEF BeginPostBill
  <2>3. q.op = "postBill" /\ q.step = "document" /\ q.bill = b
    BY <2>1 DEF Idle
  <2>4. q \in Request
    BY <1>2, <2>1 DEF Idle, Request, Steps, Operations
  <2>5. Runs(q)
    BY <1>3, <2>2, <2>3 DEF Runs, Posts, Operations
  <2>6. \A s \in Requests : ~SameRow(q, req[s])
    BY <2>3 DEF SameRow
  <2> QED
    BY <2>2, <2>3, <2>4, <2>5, <2>6, BeginStep
<1>10. ASSUME NEW b \in Bills, BeginCancelBill(r, b)
       PROVE  IInv'
  <2>1. PICK step : step = IF bill[b].je THEN "entry" ELSE "commit"
    OBVIOUS
  <2>2. PICK q : q = [Idle EXCEPT !.op = "cancelBill", !.step = step, !.bill = b,
                                  !.was = bill[b].status]
    OBVIOUS
  <2>3. Begin(r, q) /\ bill[b].status # "none"
    BY <1>10, <2>1, <2>2 DEF BeginCancelBill
  <2>4. /\ q.op = "cancelBill" /\ q.step = step /\ q.bill = b /\ q.was = bill[b].status
    BY <2>2 DEF Idle
  <2>5. bill[b].status \in {"draft", "posted", "cancelled"}
    BY <1>1, <2>3 DEF TypeOK, Bill
  <2>6. q \in Request
    BY <1>2, <2>1, <2>2, <2>5 DEF Idle, Request, Steps, Operations, OrderStatus
  <2>7. Runs(q)
    BY <1>3, <2>1, <2>3, <2>4, <2>5 DEF Runs, Cancels, Operations
  <2>8. \A s \in Requests : ~SameRow(q, req[s])
    BY <2>4 DEF SameRow
  <2> QED
    BY <2>3, <2>4, <2>6, <2>7, <2>8, BeginStep
<1> QED
  BY <1>4, <1>5, <1>6, <1>7, <1>8, <1>9, <1>10 DEF Start

-------------------------------------------------------------------------------
(* A request reads, checks and locks                                       *)

\* A request that goes on keeps what the step does not set.
LEMMA StepChanges ==
    ASSUME NEW p \in Request, NEW step \in Steps, NEW q, q = [p EXCEPT !.step = step]
    PROVE  /\ q \in Request /\ q.step = step
           /\ q.op = p.op /\ q.order = p.order /\ q.receipt = p.receipt /\ q.bill = p.bill
           /\ q.lines = p.lines /\ q.todo = p.todo /\ q.seen = p.seen /\ q.to = p.to
           /\ q.was = p.was /\ q.body = p.body
BY DEF Request

\* The row that a request is creating is no other request's.
LEMMA OnlyOwn ==
    ASSUME OwnRows, NEW r \in Requests, NEW q, q.op = req[r].op, q.order = req[r].order,
           q.receipt = req[r].receipt, q.bill = req[r].bill
    PROVE  \A p \in Requests : SameRow(q, req[p]) => p = r
BY DEF OwnRows, SameRow

\* What the steps that write no row make of the locks.
LEMMA LocksStay ==
    ASSUME IInv, UNCHANGED locks
    PROVE  L!LocksTypeOK' /\ L!LocksExclusive'
BY DEF IInv, TypeOK, L!LocksTypeOK, L!LocksExclusive

\* CheckVendor keeps the invariant.
LEMMA CheckVendorKeeps ==
    ASSUME IInv, NEW r \in Requests, CheckVendor(r)
    PROVE  IInv'
<1>1. req[r] \in Request /\ req \in [Requests -> Request] /\ Runs(req[r]) /\ OwnRows
  BY DEF IInv, TypeOK, RequestsSound
<1>2. PICK p : p = req[r]
  OBVIOUS
<1>3. PICK q : q = [p EXCEPT !.step = "commit"]
  OBVIOUS
<1>4. q \in Request
  <2>1. p \in Request /\ "commit" \in Steps
    BY <1>1, <1>2 DEF Steps
  <2> QED
    BY <1>3, <2>1, StepChanges
<1>5. /\ q.op = p.op /\ q.order = p.order /\ q.receipt = p.receipt /\ q.bill = p.bill
      /\ q.step = "commit" /\ q.to = p.to /\ q.was = p.was /\ q.body = p.body
  BY <1>1, <1>2, <1>3 DEF Request
<1>6. p.step = "vendor" /\ req' = [req EXCEPT ![r] = q] /\ UNCHANGED rows /\ UNCHANGED locks
  BY <1>2, <1>3 DEF CheckVendor, Goto
<1>7. p.op = "order" \/ p.op = "setOrder"
  <2>1. p.op \in Operations \cup {None}
    BY <1>1, <1>2 DEF Request
  <2> QED
    BY <1>1, <1>2, <1>6, <2>1, IdleTyped
    DEF Operations, Runs, Decides, Receives, Drafts, Posts, Cancels
<1>8. Runs(q)
  BY <1>1, <1>2, <1>5, <1>6, <1>7, NoneAssumption DEF Runs, Places, Sets, Operations
<1>9. req'[r] = q
  BY <1>1, <1>6
<1>10. Holds(r)'
  BY <1>5, <1>7, <1>9 DEF Holds
<1>11. \A s \in Requests : SameRow(q, req[s]) => s = r
  BY <1>1, <1>2, <1>5, OnlyOwn
<1>12. \A s \in Requests \ {r} : locks'[s] = locks[s]
  BY <1>6
<1> QED
  BY <1>4, <1>6, <1>8, <1>10, <1>11, <1>12, LocksStay, WorkStep

\* LockOrder keeps the invariant.
LEMMA LockOrderKeeps ==
    ASSUME IInv, NEW r \in Requests, LockOrder(r)
    PROVE  IInv'
<1>1. req[r] \in Request /\ req \in [Requests -> Request] /\ Runs(req[r]) /\ OwnRows
  BY DEF IInv, TypeOK, RequestsSound
<1>2. PICK p : p = req[r]
  OBVIOUS
<1>3. /\ p.op = "receive" /\ p.step = "document" /\ L!Lock(r, OrderRow(p.order))
      /\ UNCHANGED rows
  BY <1>2 DEF LockOrder, At
<1>4. Receives(p)
  BY <1>1, <1>2, <1>3 DEF Runs
<1>5. PICK seen : seen = order[p.order].received
  OBVIOUS
<1>6. PICK q : q = [p EXCEPT !.step = "number", !.seen = seen]
  OBVIOUS
<1>7. /\ p \in Request /\ "number" \in Steps /\ seen \in Seq(Nat)
      /\ order[p.order].received = seen
  <2>1. p.order \in Orders
    BY <1>4 DEF Receives
  <2>2. order[p.order] \in Order
    BY <2>1 DEF IInv, TypeOK
  <2>3. seen \in Seq(Nat)
    BY <1>5, <2>2 DEF Order
  <2> QED
    BY <1>1, <1>2, <1>5, <2>3 DEF Steps
<1>8. /\ q \in Request /\ q.step = "number" /\ q.seen = seen
      /\ q.op = p.op /\ q.order = p.order /\ q.receipt = p.receipt /\ q.bill = p.bill
      /\ q.lines = p.lines /\ q.todo = p.todo
  <2>1. q \in Request
    <3>1. PICK e : e = [p EXCEPT !.step = "number"]
      OBVIOUS
    <3>2. e \in Request
      BY <1>7, <3>1 DEF Request
    <3>3. q = [e EXCEPT !.seen = seen]
      BY <1>6, <1>7, <3>1 DEF Request
    <3> QED
      BY <1>7, <3>2, <3>3 DEF Request
  <2>2. /\ q.step = "number" /\ q.seen = seen
        /\ q.op = p.op /\ q.order = p.order /\ q.receipt = p.receipt /\ q.bill = p.bill
        /\ q.lines = p.lines /\ q.todo = p.todo
    BY <1>6, <1>7 DEF Request
  <2> QED
    BY <2>1, <2>2
<1>9. req' = [req EXCEPT ![r] = q]
  BY <1>2, <1>5, <1>6 DEF LockOrder, ReadLines
<1>10. Compared(q.order, q.lines, q.seen, q.todo)
  BY <1>3, <1>4, <1>8 DEF Compared, Receives, Named
<1>11. Runs(q)
  BY <1>3, <1>4, <1>7, <1>8, <1>10, NoneAssumption DEF Runs, Receives, Operations
<1>12. /\ L!LocksTypeOK' /\ L!LocksExclusive' /\ locks'[r] = locks[r] \cup {OrderRow(p.order)}
       /\ \A s \in Requests \ {r} : locks'[s] = locks[s]
  BY <1>3, <1>4, LockKeeps DEF Receives, IInv
<1>13. req'[r] = q
  BY <1>1, <1>9
<1>14. Holds(r)'
  BY <1>3, <1>8, <1>12, <1>13 DEF Holds
<1>15. \A s \in Requests : SameRow(q, req[s]) => s = r
  BY <1>1, <1>2, <1>8, OnlyOwn
<1> QED
  BY <1>3, <1>8, <1>9, <1>11, <1>12, <1>14, <1>15, WorkStep

\* TakeReceiptNumber keeps the invariant.
LEMMA TakeReceiptNumberKeeps ==
    ASSUME IInv, NEW r \in Requests, TakeReceiptNumber(r)
    PROVE  IInv'
<1>1. /\ req[r] \in Request /\ req \in [Requests -> Request] /\ Runs(req[r]) /\ Holds(r)
      /\ OwnRows
  BY DEF IInv, TypeOK, RequestsSound
<1>2. PICK p : p = req[r]
  OBVIOUS
<1>3. p.step = "number" /\ L!Lock(r, Sequence("goods_receipt")) /\ UNCHANGED rows
  BY <1>2 DEF TakeReceiptNumber
<1>4. p.op = "receive"
  <2>1. p.op \in Operations \cup {None}
    BY <1>1, <1>2 DEF Request
  <2> QED
    BY <1>1, <1>2, <1>3, <2>1, IdleTyped
    DEF Operations, Runs, Decides, Places, Sets, Drafts, Posts, Cancels
<1>5. Receives(p)
  BY <1>1, <1>2, <1>4 DEF Runs
<1>6. PICK q : q = [p EXCEPT !.step = "lines"]
  OBVIOUS
<1>7. q \in Request
  <2>1. p \in Request /\ "lines" \in Steps
    BY <1>1, <1>2, <1>3 DEF Steps
  <2> QED
    BY <1>6, <2>1, StepChanges
<1>8. /\ q.op = p.op /\ q.order = p.order /\ q.receipt = p.receipt /\ q.bill = p.bill
      /\ q.step = "lines" /\ q.lines = p.lines /\ q.todo = p.todo /\ q.seen = p.seen
  <2>1. p \in Request /\ "lines" \in Steps
    BY <1>1, <1>2, <1>3 DEF Steps
  <2> QED
    BY <1>6, <2>1, StepChanges
<1>9. req' = [req EXCEPT ![r] = q]
  BY <1>2, <1>6 DEF TakeReceiptNumber, Goto
<1>10. Runs(q)
  BY <1>3, <1>4, <1>5, <1>8, NoneAssumption DEF Runs, Receives, Operations
<1>11. /\ L!LocksTypeOK' /\ L!LocksExclusive' /\ locks[r] \subseteq locks'[r]
       /\ \A s \in Requests \ {r} : locks'[s] = locks[s]
  BY <1>3, LockKeeps DEF IInv
<1>12. req'[r] = q
  BY <1>1, <1>9
<1>13. Holds(r)'
  BY <1>1, <1>2, <1>3, <1>4, <1>8, <1>11, <1>12 DEF Holds
<1>14. \A s \in Requests : SameRow(q, req[s]) => s = r
  BY <1>1, <1>2, <1>8, OnlyOwn
<1> QED
  BY <1>3, <1>7, <1>9, <1>10, <1>11, <1>13, <1>14, WorkStep

\* LockLine keeps the invariant.
LEMMA LockLineKeeps ==
    ASSUME IInv, NEW r \in Requests, LockLine(r)
    PROVE  IInv'
<1>1. /\ req[r] \in Request /\ req \in [Requests -> Request] /\ Runs(req[r]) /\ Holds(r)
      /\ OwnRows /\ RowsSound
  BY DEF IInv, TypeOK, RequestsSound
<1>2. PICK p : p = req[r]
  OBVIOUS
<1>3. PICK l \in p.todo : /\ p.op = "receive" => Pending(r, l)
                          /\ L!Lock(r, LineRow(p.order, l))
                          /\ req' = [req EXCEPT ![r].todo = p.todo \ {l},
                                ![r].step = IF p.todo # {l} THEN "lines"
                                            ELSE IF p.op = "receive" THEN "journal"
                                            ELSE "commit"]
  BY <1>2 DEF LockLine
<1>4. p.step = "lines" /\ UNCHANGED rows
  BY <1>2 DEF LockLine
<1>5. p.op = "receive" \/ p.op = "postBill"
  <2>1. p.op \in Operations \cup {None}
    BY <1>1, <1>2 DEF Request
  <2> QED
    BY <1>1, <1>2, <1>4, <2>1, IdleTyped
    DEF Operations, Runs, Decides, Places, Sets, Drafts, Cancels
<1>6. PICK step : step = IF p.todo # {l} THEN "lines"
                         ELSE IF p.op = "receive" THEN "journal" ELSE "commit"
  OBVIOUS
<1>16. PICK todo : todo = p.todo \ {l}
  OBVIOUS
<1>7. PICK q : q = [p EXCEPT !.todo = todo, !.step = step]
  OBVIOUS
<1>8. p \in Request /\ step \in Steps /\ todo \in SUBSET Nat
  <2>1. p.todo \in SUBSET Nat
    BY <1>1, <1>2 DEF Request
  <2> QED
    BY <1>1, <1>2, <1>6, <1>16, <2>1 DEF Steps
<1>9. /\ q \in Request /\ q.step = step /\ q.todo = todo
      /\ q.op = p.op /\ q.order = p.order /\ q.receipt = p.receipt /\ q.bill = p.bill
      /\ q.lines = p.lines /\ q.seen = p.seen
  BY <1>7, <1>8 DEF Request
<1>10. req' = [req EXCEPT ![r] = q]
  BY <1>2, <1>3, <1>6, <1>7, <1>16
<1>11. req'[r] = q
  BY <1>1, <1>10
<1>12. \* The line is one of an order that exists.
       /\ p.order \in Orders /\ l \in LineNumbers
       /\ Runs(q)
  <2>1. CASE p.op = "receive"
    <3>1. Receives(p)
      BY <1>1, <1>2, <2>1 DEF Runs
    <3>2. order[p.order].lines \in OrderBodies
      BY <1>1, <3>1 DEF RowsSound, OrderSound, Receives
    <3>3. PICK i \in DOMAIN p.lines : l = p.lines[i].line
      BY <1>3, <3>1 DEF Receives, Named
    <3>4. l \in DOMAIN order[p.order].lines
      BY <3>1, <3>3 DEF Receives, Fits
    <3>5. Compared(q.order, q.lines, q.seen, q.todo)
      BY <1>2, <1>3, <1>4, <1>9, <1>16, <2>1, <3>1 DEF Receives, Compared, Pending
    <3>6. Receives(q)
      BY <1>4, <1>6, <1>9, <1>16, <2>1, <3>1, <3>5 DEF Receives
    <3> QED
      BY <1>9, <2>1, <3>1, <3>2, <3>4, <3>6, NoneAssumption
      DEF Runs, Receives, LineNumbers, Operations
  <2>2. CASE p.op = "postBill"
    <3>1. Posts(p)
      BY <1>1, <1>2, <2>2 DEF Runs
    <3>2. receipt[bill[p.bill].receipt] # NoReceipt /\ bill[p.bill].receipt \in Receipts
      BY <1>1, <3>1 DEF RowsSound, BillSound, Posts
    <3>3. p.order \in Orders /\ order[p.order].status # "none"
      BY <1>1, <1>4, <3>1, <3>2 DEF RowsSound, ReceiptSound, Posts
    <3>4. order[p.order].lines \in OrderBodies /\ l \in DOMAIN order[p.order].lines
      BY <1>1, <1>3, <1>4, <3>1, <3>3 DEF RowsSound, OrderSound, Posts
    <3>5. Posts(q)
      BY <1>4, <1>6, <1>9, <1>16, <2>2, <3>1 DEF Posts
    <3> QED
      BY <1>9, <2>2, <3>3, <3>4, <3>5, NoneAssumption DEF Runs, LineNumbers, Operations
  <2> QED
    BY <1>5, <2>1, <2>2
<1>13. /\ L!LocksTypeOK' /\ L!LocksExclusive' /\ locks[r] \subseteq locks'[r]
       /\ \A s \in Requests \ {r} : locks'[s] = locks[s]
  BY <1>3, <1>12, LockKeeps DEF IInv
<1>14. Holds(r)'
  BY <1>1, <1>2, <1>4, <1>9, <1>11, <1>13 DEF Holds
<1>15. \A s \in Requests : SameRow(q, req[s]) => s = r
  BY <1>1, <1>2, <1>9, OnlyOwn
<1> QED
  BY <1>4, <1>9, <1>10, <1>12, <1>13, <1>14, <1>15, WorkStep

\* TakeJournalNumber keeps the invariant.
LEMMA TakeJournalNumberKeeps ==
    ASSUME IInv, NEW r \in Requests, TakeJournalNumber(r)
    PROVE  IInv'
<1>1. /\ req[r] \in Request /\ req \in [Requests -> Request] /\ Runs(req[r]) /\ Holds(r)
      /\ OwnRows
  BY DEF IInv, TypeOK, RequestsSound
<1>2. PICK p : p = req[r]
  OBVIOUS
<1>3. PICK step : step = IF p.op = "postBill" THEN "lines" ELSE "commit"
  OBVIOUS
<1>4. p.step = "journal" /\ L!Lock(r, Sequence("journal")) /\ UNCHANGED rows
  BY <1>2 DEF TakeJournalNumber
<1>5. PICK q : q = [p EXCEPT !.step = step]
  OBVIOUS
<1>6. q \in Request
  <2>1. p \in Request /\ step \in Steps
    BY <1>1, <1>2, <1>3 DEF Steps
  <2> QED
    BY <1>5, <2>1, StepChanges
<1>7. /\ q.op = p.op /\ q.order = p.order /\ q.receipt = p.receipt /\ q.bill = p.bill
      /\ q.step = step /\ q.lines = p.lines /\ q.todo = p.todo /\ q.seen = p.seen
      /\ q.was = p.was
  <2>1. p \in Request /\ step \in Steps
    BY <1>1, <1>2, <1>3 DEF Steps
  <2> QED
    BY <1>5, <2>1, StepChanges
<1>8. req' = [req EXCEPT ![r] = q]
  BY <1>2, <1>3, <1>5 DEF TakeJournalNumber, Goto
<1>9. p.op = "receive" \/ p.op = "postBill" \/ p.op = "cancelBill"
  <2>1. p.op \in Operations \cup {None}
    BY <1>1, <1>2 DEF Request
  <2> QED
    BY <1>1, <1>2, <1>4, <2>1, IdleTyped DEF Operations, Runs, Decides, Places, Sets, Drafts
<1>10. Runs(q)
  <2>1. CASE p.op = "receive"
    <3>1. Receives(p) /\ step = "commit"
      BY <1>1, <1>2, <1>3, <2>1 DEF Runs
    <3>2. Receives(q)
      BY <1>4, <1>7, <3>1 DEF Receives
    <3> QED
      BY <1>7, <2>1, <3>2, NoneAssumption DEF Runs, Operations
  <2>2. CASE p.op = "postBill"
    <3>1. Posts(p) /\ step = "lines"
      BY <1>1, <1>2, <1>3, <2>2 DEF Runs
    <3>2. Posts(q)
      BY <1>4, <1>7, <3>1 DEF Posts
    <3> QED
      BY <1>7, <2>2, <3>2, NoneAssumption DEF Runs, Operations
  <2>3. CASE p.op = "cancelBill"
    <3>1. Cancels(p) /\ step = "commit"
      BY <1>1, <1>2, <1>3, <2>3 DEF Runs
    <3>2. Cancels(q)
      BY <1>4, <1>7, <3>1 DEF Cancels
    <3> QED
      BY <1>7, <2>3, <3>2, NoneAssumption DEF Runs, Operations
  <2> QED
    BY <1>9, <2>1, <2>2, <2>3
<1>11. /\ L!LocksTypeOK' /\ L!LocksExclusive' /\ locks[r] \subseteq locks'[r]
       /\ \A s \in Requests \ {r} : locks'[s] = locks[s]
  BY <1>4, LockKeeps DEF IInv
<1>12. req'[r] = q
  BY <1>1, <1>8
<1>13. Holds(r)'
  BY <1>1, <1>2, <1>4, <1>7, <1>11, <1>12 DEF Holds
<1>14. \A s \in Requests : SameRow(q, req[s]) => s = r
  BY <1>1, <1>2, <1>7, OnlyOwn
<1> QED
  BY <1>4, <1>6, <1>8, <1>10, <1>11, <1>13, <1>14, WorkStep

\* LockBill keeps the invariant.
LEMMA LockBillKeeps ==
    ASSUME IInv, NEW r \in Requests, LockBill(r)
    PROVE  IInv'
<1>1. /\ req[r] \in Request /\ req \in [Requests -> Request] /\ Runs(req[r]) /\ Holds(r)
      /\ OwnRows /\ RowsSound
  BY DEF IInv, TypeOK, RequestsSound
<1>2. PICK p : p = req[r]
  OBVIOUS
<1>3. PICK o : o = receipt[bill[p.bill].receipt].order
  OBVIOUS
<1>4. PICK lines : lines = receipt[bill[p.bill].receipt].lines
  OBVIOUS
<1>5. PICK todo : todo = UNION {SameItem(o, lines[i].line) : i \in DOMAIN lines}
  OBVIOUS
<1>6. PICK q : q = [p EXCEPT !.step = "journal", !.order = o, !.lines = lines, !.todo = todo]
  OBVIOUS
<1>7. /\ p.op = "postBill" /\ p.step = "document" /\ L!Lock(r, BillRow(p.bill))
      /\ bill[p.bill].status = "draft" /\ req' = [req EXCEPT ![r] = q] /\ UNCHANGED rows
  <2>1. /\ p.op = "postBill" /\ p.step = "document" /\ L!Lock(r, BillRow(p.bill))
        /\ bill[p.bill].status = "draft" /\ UNCHANGED rows
    BY <1>2 DEF LockBill, At
  <2>2. req' = [req EXCEPT ![r] = q]
    <3> DEFINE g == bill[req[r].bill].receipt
    <3>1. PICK e : e = [req[r] EXCEPT !.step = "journal", !.order = receipt[g].order,
                            !.lines = receipt[g].lines,
                            !.todo = UNION {SameItem(receipt[g].order, receipt[g].lines[i].line) :
                                                i \in DOMAIN receipt[g].lines}]
      OBVIOUS
    <3>2. req' = [req EXCEPT ![r] = e]
      BY <3>1 DEF LockBill
    <3>3. e = q
      BY <1>2, <1>3, <1>4, <1>5, <1>6, <3>1
    <3> QED
      BY <3>2, <3>3
  <2> QED
    BY <2>1, <2>2
<1>8. Posts(p)
  BY <1>1, <1>2, <1>7 DEF Runs
<1>9. bill[p.bill].receipt \in Receipts /\ receipt[bill[p.bill].receipt] # NoReceipt
  BY <1>1, <1>8 DEF RowsSound, BillSound, Posts
<1>10. o \in Orders /\ lines \in Deliveries /\ order[o].lines \in OrderBodies
  BY <1>1, <1>3, <1>4, <1>9 DEF RowsSound, ReceiptSound, OrderSound
<1>11. todo \subseteq DOMAIN order[o].lines /\ DOMAIN order[o].lines \subseteq Nat
  <2>1. DOMAIN order[o].lines \subseteq Nat
    BY <1>10, BodyIsSeq
  <2> QED
    BY <1>5, <2>1 DEF SameItem
<1>12. p \in Request /\ "journal" \in Steps /\ lines \in Seq(DeliveryLine) /\ todo \in SUBSET Nat
  BY <1>1, <1>2, <1>10, <1>11, DeliveriesAre DEF Steps
<1>13. /\ q \in Request /\ q.step = "journal" /\ q.order = o /\ q.lines = lines
       /\ q.todo = todo /\ q.op = p.op /\ q.bill = p.bill
  BY <1>6, <1>10, <1>12 DEF Request
<1>14. Posts(q)
  BY <1>3, <1>4, <1>7, <1>8, <1>11, <1>13 DEF Posts
<1>15. Runs(q)
  BY <1>7, <1>13, <1>14, NoneAssumption DEF Runs, Operations
<1>16. /\ L!LocksTypeOK' /\ L!LocksExclusive' /\ locks'[r] = locks[r] \cup {BillRow(p.bill)}
       /\ \A s \in Requests \ {r} : locks'[s] = locks[s]
  BY <1>7, <1>8, LockKeeps DEF Posts, IInv
<1>17. req'[r] = q
  BY <1>1, <1>7
<1>18. Holds(r)'
  BY <1>7, <1>13, <1>16, <1>17 DEF Holds
<1>19. \A s \in Requests : ~SameRow(q, req[s])
  BY <1>7, <1>13 DEF SameRow
<1> QED
  BY <1>7, <1>13, <1>15, <1>16, <1>18, <1>19, WorkStep

\* ReadEntry keeps the invariant.
LEMMA ReadEntryKeeps ==
    ASSUME IInv, NEW r \in Requests, ReadEntry(r)
    PROVE  IInv'
<1>1. req[r] \in Request /\ req \in [Requests -> Request] /\ Runs(req[r]) /\ OwnRows
  BY DEF IInv, TypeOK, RequestsSound
<1>2. PICK p : p = req[r]
  OBVIOUS
<1>3. PICK q : q = [p EXCEPT !.step = "journal"]
  OBVIOUS
<1>4. q \in Request
  <2>1. p \in Request /\ "journal" \in Steps
    BY <1>1, <1>2 DEF Steps
  <2> QED
    BY <1>3, <2>1, StepChanges
<1>5. q.op = p.op /\ q.bill = p.bill /\ q.step = "journal" /\ q.was = p.was
  BY <1>1, <1>2, <1>3 DEF Request
<1>6. /\ p.op = "cancelBill" /\ req' = [req EXCEPT ![r] = q]
      /\ UNCHANGED rows /\ UNCHANGED locks
  BY <1>2, <1>3 DEF ReadEntry, Goto, At
<1>7. Runs(q)
  BY <1>1, <1>2, <1>5, <1>6, NoneAssumption DEF Runs, Cancels, Operations
<1>8. req'[r] = q
  BY <1>1, <1>6
<1>9. Holds(r)'
  BY <1>5, <1>6, <1>8 DEF Holds
<1>10. \A s \in Requests : ~SameRow(q, req[s])
  BY <1>5, <1>6 DEF SameRow
<1>11. \A s \in Requests \ {r} : locks'[s] = locks[s]
  BY <1>6
<1> QED
  BY <1>4, <1>6, <1>7, <1>9, <1>10, <1>11, LocksStay, WorkStep

-------------------------------------------------------------------------------
(* What each commit writes                                                 *)

\* A function on 1 .. n with whole values is a sequence of length n.
LEMMA NatSeq ==
    ASSUME NEW n \in Nat, NEW f \in [1 .. n -> Nat]
    PROVE  f \in Seq(Nat) /\ Len(f) = n
<1>1. f \in Seq(Nat)
  BY SeqDef
<1>2. DOMAIN f = 1 .. n /\ DOMAIN f = 1 .. Len(f) /\ Len(f) \in Nat
  BY <1>1, LenProperties
<1>3. 1 .. n = 1 .. Len(f)
  BY <1>2
<1>4. Len(f) = n
  <2>1. ASSUME NEW m \in Nat, NEW k \in Nat, m < k PROVE 1 .. m # 1 .. k
    BY <2>1
  <2> QED
    BY <1>2, <1>3, <2>1
<1> QED
  BY <1>1, <1>4

\* What Decide writes, and what it knew.
LEMMA DecideDoes ==
    ASSUME IInv, NEW r \in Requests, CommitDecide(r)
    PROVE  /\ req[r].requisition \in Requisitions
           /\ req[r].to \in {"submitted", "approved", "rejected"}
           /\ req[r].was \in {"draft", "submitted"}
           /\ requisition' \in [Requisitions -> RequisitionStatus]
           /\ requisition'[req[r].requisition] = req[r].to
           /\ \A p \in Requisitions \ {req[r].requisition} : requisition'[p] = requisition[p]
<1>1. Decides(req[r]) /\ requisition \in [Requisitions -> RequisitionStatus]
  BY DEF IInv, RequestsSound, Runs, TypeOK, CommitDecide, At
<1>2. requisition' = [requisition EXCEPT ![req[r].requisition] = req[r].to]
  BY DEF CommitDecide
<1>3. /\ req[r].to \in {"submitted", "approved", "rejected"}
      /\ req[r].was \in {"draft", "submitted"}
  BY <1>1 DEF Decides, From
<1>4. req[r].to \in RequisitionStatus /\ req[r].requisition \in Requisitions
  BY <1>1, <1>3 DEF Decides, RequisitionStatus
<1> QED
  BY <1>1, <1>2, <1>3, <1>4

\* What Order writes, and what it knew.
LEMMA OrderDoes ==
    ASSUME IInv, NEW r \in Requests, CommitOrder(r), NEW o, o = req[r].order
    PROVE  /\ o \in Orders /\ order[o] = NoOrder
           /\ req[r].body \in OrderBodies /\ req[r].requisition \in Requisitions \cup {None}
           /\ order' \in [Orders -> Order] /\ requisition' \in [Requisitions -> RequisitionStatus]
           /\ \A x \in Orders \ {o} : order'[x] = order[x]
           /\ order'[o].status = "draft" /\ order'[o].lines = req[r].body
           /\ Len(order'[o].received) = Len(req[r].body)
           /\ Len(order'[o].billed) = Len(req[r].body)
           /\ \A l \in DOMAIN req[r].body : order'[o].received[l] = 0
           /\ order'[o].requisition = req[r].requisition
           /\ \A p \in Requisitions :
                 requisition'[p] = IF p = req[r].requisition THEN "ordered" ELSE requisition[p]
<1>1. /\ Places(req[r]) /\ order \in [Orders -> Order] /\ req[r] \in Request
      /\ requisition \in [Requisitions -> RequisitionStatus]
  BY DEF IInv, RequestsSound, Runs, TypeOK, CommitOrder, At
<1>2. PICK body : body = req[r].body
  OBVIOUS
<1>3. PICK none : none = [l \in DOMAIN body |-> 0]
  OBVIOUS
<1>4. PICK p : p = req[r].requisition
  OBVIOUS
<1>5. /\ order' = [order EXCEPT ![o] = [status |-> "draft", lines |-> body, received |-> none,
                                        billed |-> none, requisition |-> p]]
      /\ requisition' = IF p = None THEN requisition ELSE [requisition EXCEPT ![p] = Ordered(@)]
  BY <1>2, <1>3, <1>4 DEF CommitOrder
<1>6. o \in Orders /\ order[o] = NoOrder /\ body \in OrderBodies
  BY <1>1, <1>2 DEF Places
<1>7. p \in Requisitions \cup {None}
  BY <1>1, <1>4 DEF Request
<1>8. body \in Seq(OrderLine) /\ DOMAIN body = 1 .. Len(body) /\ Len(body) \in Nat
  BY <1>6, BodyIsSeq
<1>9. none \in Seq(Nat) /\ Len(none) = Len(body)
  BY <1>3, <1>8, NatSeq
<1>10. PICK new : new = [status |-> "draft", lines |-> body, received |-> none,
                         billed |-> none, requisition |-> p]
  OBVIOUS
<1>11. /\ new.status = "draft" /\ new.lines = body /\ new.received = none /\ new.billed = none
       /\ new.requisition = p
  BY <1>10
<1>12. new \in Order
  BY <1>7, <1>8, <1>9, <1>10 DEF Order, OrderStatus
<1>13. /\ order' \in [Orders -> Order] /\ order'[o] = new
       /\ \A x \in Orders \ {o} : order'[x] = order[x]
  BY <1>1, <1>5, <1>6, <1>10, <1>12
<1>14. requisition' \in [Requisitions -> RequisitionStatus]
  BY <1>1, <1>5 DEF Ordered, RequisitionStatus
<1>15. ASSUME NEW x \in Requisitions
       PROVE  requisition'[x] = IF x = p THEN "ordered" ELSE requisition[x]
  BY <1>1, <1>5, RowsAssumption DEF Ordered
<1> QED
  BY <1>2, <1>3, <1>4, <1>6, <1>7, <1>9, <1>11, <1>13, <1>14, <1>15

\* What SetOrder writes, and what it knew.
LEMMA SetOrderDoes ==
    ASSUME IInv, NEW r \in Requests, CommitSetOrder(r), NEW o, o = req[r].order
    PROVE  /\ o \in Orders /\ order[o].status # "none"
           /\ req[r].to \in DOMAIN OrderFrom /\ req[r].was \in OrderFrom[req[r].to]
           /\ order' \in [Orders -> Order]
           /\ \A x \in Orders \ {o} : order'[x] = order[x]
           /\ order'[o].status = req[r].to /\ order'[o].lines = order[o].lines
           /\ order'[o].received = order[o].received /\ order'[o].billed = order[o].billed
           /\ order'[o].requisition = order[o].requisition
<1>1. Sets(req[r]) /\ order \in [Orders -> Order]
  BY DEF IInv, RequestsSound, Runs, TypeOK, CommitSetOrder, At
<1>2. order' = [order EXCEPT ![o] = [order[o] EXCEPT !.status = req[r].to]]
  BY DEF CommitSetOrder
<1>3. o \in Orders /\ order[o].status # "none" /\ req[r].to \in DOMAIN OrderFrom
  BY <1>1 DEF Sets
<1>4. PICK new : new = [order[o] EXCEPT !.status = req[r].to]
  OBVIOUS
<1>5. req[r].to \in OrderStatus
  BY <1>3 DEF OrderFrom, OrderStatus
<1>6. order[o] \in Order
  BY <1>1, <1>3
<1>7. /\ new \in Order /\ new.status = req[r].to /\ new.lines = order[o].lines
      /\ new.received = order[o].received /\ new.billed = order[o].billed
      /\ new.requisition = order[o].requisition
  BY <1>4, <1>5, <1>6 DEF Order
<1>8. /\ order' \in [Orders -> Order] /\ order'[o] = new
      /\ \A x \in Orders \ {o} : order'[x] = order[x]
  BY <1>1, <1>2, <1>3, <1>4, <1>7
<1> QED
  BY <1>1, <1>3, <1>7, <1>8 DEF Sets

\* Each line's count grows by what the delivery says of it.
Adds(after, before, body, lines) ==
    \A l \in DOMAIN body : after[l] = before[l] + QtyOf(lines, l)

\* What Receive writes, and what it knew.
LEMMA ReceiveDoes ==
    ASSUME IInv, NEW r \in Requests, CommitReceive(r), NEW o, o = req[r].order,
           NEW g, g = req[r].receipt, NEW lines, lines = req[r].lines
    PROVE  /\ o \in Orders /\ order[o].status # "none"
           /\ g \in Receipts /\ receipt[g] = NoReceipt
           /\ lines \in Deliveries /\ Fits(lines, o)
           /\ OrderRow(o) \in locks[r]
           /\ Compared(o, lines, order[o].received, {})
           /\ order' \in [Orders -> Order] /\ receipt' \in [Receipts -> Receipt]
           /\ \A x \in Orders \ {o} : order'[x] = order[x]
           /\ order'[o].status = ReceivedStatus(order[o].lines, order'[o].received)
           /\ order'[o].lines = order[o].lines
           /\ Len(order'[o].received) = Len(order[o].lines)
           /\ Adds(order'[o].received, order[o].received, order[o].lines, lines)
           /\ order'[o].billed = order[o].billed
           /\ order'[o].requisition = order[o].requisition
           /\ \A x \in Receipts \ {g} : receipt'[x] = receipt[x]
           /\ receipt'[g].order = o /\ receipt'[g].lines = lines /\ receipt'[g] # NoReceipt
<1>1. /\ Receives(req[r]) /\ order \in [Orders -> Order] /\ receipt \in [Receipts -> Receipt]
      /\ Holds(r) /\ RowsSound
  BY DEF IInv, RequestsSound, Runs, TypeOK, CommitReceive, At
<1>2. req[r].op = "receive" /\ req[r].step = "commit"
  BY DEF CommitReceive, At
<1>3. PICK received : received = Received(o, lines)
  OBVIOUS
<1>4. PICK status : status = ReceivedStatus(order[o].lines, received)
  OBVIOUS
<1>5. /\ receipt' = [receipt EXCEPT ![g] = [order |-> o, lines |-> lines]]
      /\ order' = [order EXCEPT ![o] = [order[o] EXCEPT !.received = received, !.status = status]]
  BY <1>3, <1>4 DEF CommitReceive
<1>6. /\ o \in Orders /\ order[o].status # "none" /\ g \in Receipts /\ receipt[g] = NoReceipt
      /\ lines \in Deliveries /\ Fits(lines, o) /\ Compared(o, lines, order[o].received, {})
  BY <1>1, <1>2 DEF Receives
<1>7. OrderRow(o) \in locks[r]
  BY <1>1, <1>2 DEF Holds
<1>8. order[o] \in Order /\ order[o].received \in Seq(Nat)
  BY <1>1, <1>6 DEF Order
<1>9. /\ order[o].lines \in OrderBodies /\ Len(order[o].received) = Len(order[o].lines)
  BY <1>1, <1>6 DEF RowsSound, OrderSound
<1>10. DOMAIN order[o].lines = 1 .. Len(order[o].lines) /\ Len(order[o].lines) \in Nat
  BY <1>9, BodyIsSeq
<1>11. \A l \in DOMAIN order[o].lines :
          received[l] = order[o].received[l] + QtyOf(lines, l) /\ QtyOf(lines, l) \in Nat
  BY <1>3, <1>6, QtyIsNat, DeliveriesAre DEF Received
<1>12. received \in Seq(Nat) /\ Len(received) = Len(order[o].lines)
  <2>1. PICK n \in Nat : n = Len(order[o].lines)
    BY <1>10
  <2>2. PICK h : h = [l \in 1 .. n |-> QtyOf(lines, l)]
    OBVIOUS
  <2>3. h \in [1 .. n -> Nat] /\ \A l \in 1 .. n : received[l] = order[o].received[l] + h[l]
    BY <1>10, <1>11, <2>1, <2>2
  <2>4. \A l \in 1 .. n : order[o].received[l] \in Nat
    BY <1>8, <1>9, <2>1, ElementOfSeq
  <2>5. \A i, j \in Nat : i + j \in Nat
    BY SMT
  <2>6. \A l \in 1 .. n : received[l] \in Nat
    BY <2>3, <2>4, <2>5
  <2>7. received \in [1 .. n -> Nat]
    BY <1>3, <1>10, <2>1, <2>6 DEF Received
  <2> QED
    BY ONLY <2>1, <2>7, NatSeq
<1>13. PICK new : new = [order[o] EXCEPT !.received = received, !.status = status]
  OBVIOUS
<1>14. status \in OrderStatus
  BY <1>4 DEF ReceivedStatus, OrderStatus
<1>15. /\ new \in Order /\ new.status = status /\ new.lines = order[o].lines
       /\ new.received = received /\ new.billed = order[o].billed
       /\ new.requisition = order[o].requisition
  BY <1>8, <1>12, <1>13, <1>14 DEF Order
<1>16. /\ order' \in [Orders -> Order] /\ order'[o] = new
       /\ \A x \in Orders \ {o} : order'[x] = order[x]
  BY <1>1, <1>5, <1>6, <1>13, <1>15
<1>17. PICK row : row = [order |-> o, lines |-> lines]
  OBVIOUS
<1>18. row.order = o /\ row.lines = lines /\ row # NoReceipt
  BY <1>6, <1>17, RowsAssumption DEF NoReceipt
<1>19. row \in Receipt
  BY <1>6, <1>17, DeliveriesAre DEF Receipt
<1>20. /\ receipt' \in [Receipts -> Receipt] /\ receipt'[g] = row
       /\ \A x \in Receipts \ {g} : receipt'[x] = receipt[x]
  BY <1>1, <1>5, <1>6, <1>17, <1>19
<1> QED
  BY <1>4, <1>6, <1>7, <1>11, <1>12, <1>15, <1>16, <1>18, <1>20 DEF Adds

\* What DraftBill writes, and what it knew.
LEMMA DraftBillDoes ==
    ASSUME IInv, NEW r \in Requests, CommitDraftBill(r), NEW b, b = req[r].bill,
           NEW g, g = req[r].receipt
    PROVE  /\ b \in Bills /\ bill[b] = NoBill
           /\ g \in Receipts /\ receipt[g] # NoReceipt
           /\ req[r].rivals = {}
           /\ bill' \in [Bills -> Bill]
           /\ \A x \in Bills \ {b} : bill'[x] = bill[x]
           /\ bill'[b].status = "draft" /\ bill'[b].receipt = g
<1>1. Drafts(req[r]) /\ bill \in [Bills -> Bill]
  BY DEF IInv, RequestsSound, Runs, TypeOK, CommitDraftBill, At
<1>2. PICK new : new = [status |-> "draft", receipt |-> g, je |-> FALSE]
  OBVIOUS
<1>3. bill' = [bill EXCEPT ![b] = new]
  BY <1>2 DEF CommitDraftBill
<1>4. new \in Bill /\ new.status = "draft" /\ new.receipt = g
  BY <1>1, <1>2 DEF Drafts, Bill
<1> QED
  BY <1>1, <1>3, <1>4 DEF Drafts

\* What PostBill writes, and what it knew.
LEMMA PostBillDoes ==
    ASSUME IInv, NEW r \in Requests, CommitPostBill(r), NEW b, b = req[r].bill,
           NEW o, o = req[r].order, NEW lines, lines = req[r].lines
    PROVE  /\ b \in Bills /\ bill[b].status = "draft" /\ BillRow(b) \in locks[r]
           /\ bill[b].receipt \in Receipts /\ receipt[bill[b].receipt] # NoReceipt
           /\ o = receipt[bill[b].receipt].order /\ o \in Orders
           /\ lines = receipt[bill[b].receipt].lines /\ lines \in Deliveries /\ Fits(lines, o)
           /\ order[o].status # "none" /\ order[o].lines \in OrderBodies
           /\ bill' \in [Bills -> Bill]
           /\ entry' \in [Bills -> {"none", "posted", "reversed"}]
           /\ order' \in [Orders -> Order]
           /\ \A x \in Bills \ {b} : bill'[x] = bill[x]
           /\ bill'[b].status = "posted" /\ bill'[b].receipt = bill[b].receipt
           /\ \A x \in Orders \ {o} : order'[x] = order[x]
           /\ order'[o].status = order[o].status /\ order'[o].lines = order[o].lines
           /\ order'[o].received = order[o].received
           /\ Len(order'[o].billed) = Len(order[o].lines)
           /\ order'[o].requisition = order[o].requisition
           /\ grni' = grni - Amount(o, lines)
<1>1. /\ Posts(req[r]) /\ order \in [Orders -> Order] /\ bill \in [Bills -> Bill]
      /\ entry \in [Bills -> {"none", "posted", "reversed"}]
      /\ Holds(r) /\ RowsSound
  BY DEF IInv, RequestsSound, Runs, TypeOK, CommitPostBill, At
<1>2. req[r].op = "postBill" /\ req[r].step = "commit"
  BY DEF CommitPostBill, At
<1>3. PICK billed : billed = Billed(o, lines)
  OBVIOUS
<1>4. /\ bill' = [bill EXCEPT ![b] = [bill[b] EXCEPT !.status = "posted", !.je = TRUE]]
      /\ entry' = [entry EXCEPT ![b] = "posted"]
      /\ order' = [order EXCEPT ![o] = [order[o] EXCEPT !.billed = billed]]
      /\ grni' = grni - Amount(o, lines)
  BY <1>3 DEF CommitPostBill
<1>5. /\ b \in Bills /\ bill[b].status = "draft"
      /\ o = receipt[bill[b].receipt].order /\ lines = receipt[bill[b].receipt].lines
  BY <1>1, <1>2 DEF Posts
<1>6. BillRow(b) \in locks[r]
  BY <1>1, <1>2 DEF Holds
<1>7. bill[b].receipt \in Receipts /\ receipt[bill[b].receipt] # NoReceipt
  BY <1>1, <1>5 DEF RowsSound, BillSound
<1>8. o \in Orders /\ lines \in Deliveries /\ order[o].status # "none" /\ Fits(lines, o)
  BY <1>1, <1>5, <1>7 DEF RowsSound, ReceiptSound
<1>9. order[o].lines \in OrderBodies /\ Len(order[o].billed) = Len(order[o].lines)
  BY <1>1, <1>8 DEF RowsSound, OrderSound
<1>10. DOMAIN order[o].lines = 1 .. Len(order[o].lines) /\ Len(order[o].lines) \in Nat
  BY <1>9, BodyIsSeq
<1>11. order[o] \in Order /\ order[o].billed \in Seq(Nat)
  BY <1>1, <1>8 DEF Order
<1>12. PICK n \in Nat : n = Len(order[o].lines)
  BY <1>10
<1>13. ASSUME NEW l \in 1 .. n PROVE billed[l] \in Nat
  <2>1. PICK f : f = [i \in DOMAIN lines |->
                         IF l \in SameItem(o, lines[i].line) THEN lines[i].qty ELSE 0]
    OBVIOUS
  <2>2. f \in [DOMAIN lines -> Nat] /\ IsFiniteSet(DOMAIN lines)
    BY <1>8, <2>1, DeliveriesAre, DeliveryIsSeq
  <2>3. SumOver(f) \in Nat
    BY <2>2, SumIsNat
  <2>4. order[o].billed[l] \in Nat
    BY <1>9, <1>11, <1>12, ElementOfSeq
  <2>5. billed[l] = order[o].billed[l] + SumOver(f)
    BY <1>3, <1>10, <1>12, <2>1 DEF Billed
  <2>6. \A i, j \in Nat : i + j \in Nat
    BY SMT
  <2> QED
    BY <2>3, <2>4, <2>5, <2>6
<1>14. billed \in [1 .. n -> Nat]
  BY <1>3, <1>10, <1>12, <1>13 DEF Billed
<1>15. billed \in Seq(Nat) /\ Len(billed) = n
  BY ONLY <1>12, <1>14, NatSeq
<1>16. PICK new : new = [order[o] EXCEPT !.billed = billed]
  OBVIOUS
<1>17. /\ new \in Order /\ new.status = order[o].status /\ new.lines = order[o].lines
       /\ new.received = order[o].received /\ new.billed = billed
       /\ new.requisition = order[o].requisition
  BY <1>11, <1>15, <1>16 DEF Order
<1>18. /\ order' \in [Orders -> Order] /\ order'[o] = new
       /\ \A x \in Orders \ {o} : order'[x] = order[x]
  BY <1>1, <1>4, <1>8, <1>16, <1>17
<1>19. PICK row : row = [bill[b] EXCEPT !.status = "posted", !.je = TRUE]
  OBVIOUS
<1>20. row \in Bill /\ row.status = "posted" /\ row.receipt = bill[b].receipt
  BY <1>1, <1>5, <1>19 DEF Bill
<1>21. /\ bill' \in [Bills -> Bill] /\ bill'[b] = row
       /\ \A x \in Bills \ {b} : bill'[x] = bill[x]
  BY <1>1, <1>4, <1>5, <1>19, <1>20
<1>22. entry' \in [Bills -> {"none", "posted", "reversed"}]
  BY <1>1, <1>4
<1> QED
  BY <1>4, <1>5, <1>6, <1>7, <1>8, <1>9, <1>12, <1>15, <1>17, <1>18, <1>20, <1>21, <1>22

\* What CancelBill writes, and what it knew.
LEMMA CancelBillDoes ==
    ASSUME IInv, NEW r \in Requests, CommitCancelBill(r), NEW b, b = req[r].bill
    PROVE  /\ b \in Bills /\ bill[b].status # "none"
           /\ bill[b].receipt \in Receipts /\ receipt[bill[b].receipt] # NoReceipt
           /\ req[r].was \in {"draft", "posted", "cancelled"}
           /\ \A q \in Requests \ {r} : BillRow(b) \notin locks[q]
           /\ bill' \in [Bills -> Bill]
           /\ entry' \in [Bills -> {"none", "posted", "reversed"}]
           /\ \A x \in Bills \ {b} : bill'[x] = bill[x]
           /\ bill'[b].status = "cancelled" /\ bill'[b].receipt = bill[b].receipt
           /\ grni' = grni + Mirrored(r)
<1>1. /\ Cancels(req[r]) /\ bill \in [Bills -> Bill] /\ RowsSound
      /\ entry \in [Bills -> {"none", "posted", "reversed"}]
  BY DEF IInv, RequestsSound, Runs, TypeOK, CommitCancelBill, At
<1>2. /\ bill' = [bill EXCEPT ![b] = [bill[b] EXCEPT !.status = "cancelled"]]
      /\ entry' = IF req[r].was = "posted" THEN [entry EXCEPT ![b] = "reversed"] ELSE entry
      /\ grni' = grni + Mirrored(r)
  BY DEF CommitCancelBill
<1>3. b \in Bills /\ bill[b].status # "none" /\ req[r].was \in {"draft", "posted", "cancelled"}
  BY <1>1 DEF Cancels
<1>4. bill[b].receipt \in Receipts /\ receipt[bill[b].receipt] # NoReceipt
  BY <1>1, <1>3 DEF RowsSound, BillSound
<1>5. \A q \in Requests \ {r} : BillRow(b) \notin locks[q]
  BY DEF CommitCancelBill, L!Available
<1>6. PICK row : row = [bill[b] EXCEPT !.status = "cancelled"]
  OBVIOUS
<1>7. row \in Bill /\ row.status = "cancelled" /\ row.receipt = bill[b].receipt
  BY <1>1, <1>3, <1>6 DEF Bill
<1>8. /\ bill' \in [Bills -> Bill] /\ bill'[b] = row
      /\ \A x \in Bills \ {b} : bill'[x] = bill[x]
  BY <1>1, <1>2, <1>3, <1>6, <1>7
<1>9. entry' \in [Bills -> {"none", "posted", "reversed"}]
  BY <1>1, <1>2
<1> QED
  BY <1>2, <1>3, <1>4, <1>5, <1>7, <1>8, <1>9

-------------------------------------------------------------------------------
(* The commits keep the invariant                                          *)

\* A step that leaves orders, receipts and bills alone.
LEMMA RowsStay ==
    ASSUME IInv, order' = order, receipt' = receipt, bill' = bill
    PROVE  RowsSound' /\ \A q \in Requests : StaysFor(q)
BY DEF IInv, RowsSound, OrderSound, ReceiptSound, BillSound, Fits, StaysFor

\* What rows the history may name.
LEMMA WroteTyped ==
    ASSUME IInv, NEW row \in Orders \cup Bills \cup Requisitions, NEW fresh, Wrote(row, fresh)
    PROVE  overtaken' \subseteq Orders \cup Bills \cup Requisitions
BY DEF IInv, TypeOK, Wrote

\* Decide keeps the invariant.
LEMMA DecideKeeps ==
    ASSUME IInv, NEW r \in Requests, CommitDecide(r)
    PROVE  IInv'
<1>1. /\ req[r].requisition \in Requisitions
      /\ requisition' \in [Requisitions -> RequisitionStatus]
  BY DecideDoes
<1>2. /\ End(r) /\ Wrote(req[r].requisition, requisition[req[r].requisition] = req[r].was)
      /\ vendorOk' = vendorOk /\ order' = order /\ receipt' = receipt /\ bill' = bill
      /\ entry' = entry /\ grni' = grni
  BY DEF CommitDecide
<1>3. overtaken' \subseteq Orders \cup Bills \cup Requisitions
  BY <1>1, <1>2, WroteTyped
<1> QED
  BY <1>1, <1>2, <1>3, RowsStay, EndStep DEF IInv, TypeOK

\* Order keeps the invariant.
LEMMA OrderKeeps ==
    ASSUME IInv, NEW r \in Requests, CommitOrder(r)
    PROVE  IInv'
<1>1. PICK o : o = req[r].order
  OBVIOUS
<1>2. /\ o \in Orders /\ order[o] = NoOrder /\ req[r].body \in OrderBodies
      /\ order' \in [Orders -> Order] /\ requisition' \in [Requisitions -> RequisitionStatus]
      /\ \A x \in Orders \ {o} : order'[x] = order[x]
      /\ order'[o].status = "draft" /\ order'[o].lines = req[r].body
      /\ Len(order'[o].received) = Len(req[r].body)
      /\ Len(order'[o].billed) = Len(req[r].body)
  BY <1>1, OrderDoes
<1>3. /\ End(r) /\ vendorOk' = vendorOk /\ receipt' = receipt /\ bill' = bill
      /\ entry' = entry /\ grni' = grni /\ overtaken' = overtaken /\ req[r].op = "order"
  BY DEF CommitOrder, At
<1>4. order[o].status = "none"
  BY <1>2 DEF NoOrder
<1>5. ASSUME NEW x \in Orders, order[x].status # "none"
      PROVE  x # o /\ order'[x] = order[x]
  BY <1>2, <1>4, <1>5
<1>6. RowsSound'
  <2>1. RowsSound
    BY DEF IInv
  <2>2. \A x \in Orders : OrderSound(x)'
    BY <1>2, <2>1 DEF RowsSound, OrderSound
  <2>3. \A x \in Receipts : ReceiptSound(x)'
    BY <1>3, <1>5, <2>1 DEF RowsSound, ReceiptSound, Fits
  <2>4. \A x \in Bills : BillSound(x)'
    BY <1>3, <2>1 DEF RowsSound, BillSound
  <2> QED
    BY <2>2, <2>3, <2>4 DEF RowsSound
<1>7. ASSUME NEW q \in Requests \ {r} PROVE StaysFor(q)
  <2>1. ASSUME req[q].op = "order" PROVE order'[req[q].order] = order[req[q].order]
    <3>1. req[q].order # o
      BY <1>1, <1>3, <2>1 DEF IInv, OwnRows, SameRow
    <3>2. req[q].order \in Orders
      BY <2>1 DEF IInv, RequestsSound, Runs, Places
    <3> QED
      BY <1>2, <3>1, <3>2
  <2> QED
    BY <1>3, <1>5, <2>1 DEF StaysFor
<1> QED
  BY <1>2, <1>3, <1>6, <1>7, EndStep DEF IInv, TypeOK

\* SetOrder keeps the invariant.
LEMMA SetOrderKeeps ==
    ASSUME IInv, NEW r \in Requests, CommitSetOrder(r)
    PROVE  IInv'
<1>1. PICK o : o = req[r].order
  OBVIOUS
<1>2. /\ o \in Orders /\ order[o].status # "none"
      /\ req[r].to \in DOMAIN OrderFrom
      /\ order' \in [Orders -> Order]
      /\ \A x \in Orders \ {o} : order'[x] = order[x]
      /\ order'[o].status = req[r].to /\ order'[o].lines = order[o].lines
      /\ order'[o].received = order[o].received /\ order'[o].billed = order[o].billed
  BY <1>1, SetOrderDoes
<1>3. /\ End(r) /\ Wrote(o, order[o].status = req[r].was)
      /\ requisition' = requisition /\ vendorOk' = vendorOk /\ receipt' = receipt
      /\ bill' = bill /\ entry' = entry /\ grni' = grni
  BY <1>1 DEF CommitSetOrder
<1>4. order'[o].status # "none"
  BY <1>2 DEF OrderFrom
<1>5. RowsSound'
  <2>1. RowsSound
    BY DEF IInv
  <2>2. ASSUME NEW x \in Orders PROVE OrderSound(x)'
    BY <1>2, <1>4, <2>1 DEF RowsSound, OrderSound
  <2>3. \A x \in Receipts : ReceiptSound(x)'
    BY <1>2, <1>3, <1>4, <2>1 DEF RowsSound, ReceiptSound, Fits
  <2>4. \A x \in Bills : BillSound(x)'
    BY <1>3, <2>1 DEF RowsSound, BillSound
  <2> QED
    BY <2>2, <2>3, <2>4 DEF RowsSound
<1>6. ASSUME NEW q \in Requests \ {r} PROVE StaysFor(q)
  <2>1. ASSUME req[q].op = "order" PROVE order'[req[q].order] = order[req[q].order]
    <3>1. req[q].order \in Orders /\ order[req[q].order] = NoOrder
      BY <2>1 DEF IInv, RequestsSound, Runs, Places
    <3>2. req[q].order # o
      BY <1>2, <3>1 DEF NoOrder
    <3> QED
      BY <1>2, <3>1, <3>2
  <2> QED
    BY <1>2, <1>3, <1>4, <2>1 DEF StaysFor
<1>7. overtaken' \subseteq Orders \cup Bills \cup Requisitions
  BY <1>2, <1>3, WroteTyped
<1> QED
  BY <1>2, <1>3, <1>5, <1>6, <1>7, EndStep DEF IInv, TypeOK

\* Receive keeps the invariant.
LEMMA ReceiveKeeps ==
    ASSUME IInv, NEW r \in Requests, CommitReceive(r)
    PROVE  IInv'
<1>1. PICK o : o = req[r].order
  OBVIOUS
<1>2. PICK g : g = req[r].receipt
  OBVIOUS
<1>3. PICK lines : lines = req[r].lines
  OBVIOUS
<1>4. /\ o \in Orders /\ order[o].status # "none"
      /\ g \in Receipts /\ receipt[g] = NoReceipt
      /\ lines \in Deliveries /\ Fits(lines, o)
      /\ OrderRow(o) \in locks[r]
      /\ order' \in [Orders -> Order] /\ receipt' \in [Receipts -> Receipt]
      /\ \A x \in Orders \ {o} : order'[x] = order[x]
      /\ order'[o].status = ReceivedStatus(order[o].lines, order'[o].received)
      /\ order'[o].lines = order[o].lines
      /\ Len(order'[o].received) = Len(order[o].lines)
      /\ order'[o].billed = order[o].billed
      /\ \A x \in Receipts \ {g} : receipt'[x] = receipt[x]
      /\ receipt'[g].order = o /\ receipt'[g].lines = lines /\ receipt'[g] # NoReceipt
  BY <1>1, <1>2, <1>3, ReceiveDoes
<1>5. /\ End(r) /\ grni' = grni + Amount(o, lines) /\ req[r].op = "receive"
      /\ requisition' = requisition /\ vendorOk' = vendorOk
      /\ bill' = bill /\ entry' = entry /\ overtaken' = overtaken
  BY <1>1, <1>3 DEF CommitReceive, At
<1>6. order'[o].status # "none"
  BY <1>4 DEF ReceivedStatus
<1>7. RowsSound
  BY DEF IInv
<1>8. RowsSound'
  <2>2. ASSUME NEW x \in Orders PROVE OrderSound(x)'
    BY <1>4, <1>6, <1>7 DEF RowsSound, OrderSound
  <2>3. ASSUME NEW x \in Receipts PROVE ReceiptSound(x)'
    <3>1. CASE x = g
      BY <1>4, <1>6, <3>1 DEF ReceiptSound, Fits
    <3>2. CASE x # g
      BY <1>4, <1>6, <1>7, <3>2 DEF RowsSound, ReceiptSound, Fits
    <3> QED
      BY <3>1, <3>2
  <2>4. \A x \in Bills : BillSound(x)'
    BY <1>4, <1>5, <1>7 DEF RowsSound, BillSound
  <2> QED
    BY <2>2, <2>3, <2>4 DEF RowsSound
<1>9. ASSUME NEW q \in Requests \ {r} PROVE StaysFor(q)
  <2>1. ASSUME req[q].op = "order" PROVE order'[req[q].order] = order[req[q].order]
    <3>1. req[q].order \in Orders /\ order[req[q].order] = NoOrder
      BY <2>1 DEF IInv, RequestsSound, Runs, Places
    <3>2. req[q].order # o
      BY <1>4, <3>1 DEF NoOrder
    <3> QED
      BY <1>4, <3>1, <3>2
  <2>2. OrderRow(o) \notin locks[q]
    BY <1>4 DEF IInv, L!LocksExclusive
  <2>3. ASSUME NEW x \in Orders, OrderRow(x) \in locks[q]
        PROVE  order'[x].received = order[x].received
    BY <1>4, <2>2, <2>3
  <2>4. ASSUME req[q].op = "receive" PROVE receipt'[req[q].receipt] = receipt[req[q].receipt]
    <3>1. req[q].receipt # g
      BY <1>2, <1>5, <2>4 DEF IInv, OwnRows, SameRow
    <3>2. req[q].receipt \in Receipts
      BY <2>4 DEF IInv, RequestsSound, Runs, Receives
    <3> QED
      BY <1>4, <3>1, <3>2
  <2>5. \A x \in Receipts : receipt[x] # NoReceipt => receipt'[x] = receipt[x]
    BY <1>4
  <2>6. \A x \in Orders : order[x].status # "none" =>
           order'[x].status # "none" /\ order'[x].lines = order[x].lines
    BY <1>4, <1>6
  <2> QED
    BY <1>5, <2>1, <2>3, <2>4, <2>5, <2>6 DEF StaysFor
<1>10. grni' \in Int
  <2>1. Amount(o, lines) \in Nat /\ grni \in Int
    BY <1>4, <1>7, AmountIsNat, DeliveriesAre DEF RowsSound, OrderSound, IInv, TypeOK
  <2> QED
    BY <1>5, <2>1
<1> QED
  BY <1>4, <1>5, <1>8, <1>9, <1>10, EndStep DEF IInv, TypeOK

\* DraftBill keeps the invariant.
LEMMA DraftBillKeeps ==
    ASSUME IInv, NEW r \in Requests, CommitDraftBill(r)
    PROVE  IInv'
<1>1. PICK b : b = req[r].bill
  OBVIOUS
<1>2. PICK g : g = req[r].receipt
  OBVIOUS
<1>3. /\ b \in Bills /\ bill[b] = NoBill
      /\ g \in Receipts /\ receipt[g] # NoReceipt
      /\ bill' \in [Bills -> Bill]
      /\ \A x \in Bills \ {b} : bill'[x] = bill[x]
      /\ bill'[b].status = "draft" /\ bill'[b].receipt = g
  BY <1>1, <1>2, DraftBillDoes
<1>4. /\ End(r) /\ Wrote(b, LiveBills(g) = req[r].rivals) /\ req[r].op = "draftBill"
      /\ requisition' = requisition /\ vendorOk' = vendorOk
      /\ order' = order /\ receipt' = receipt /\ entry' = entry /\ grni' = grni
  BY <1>1, <1>2 DEF CommitDraftBill, At
<1>5. bill[b].status = "none"
  BY <1>3 DEF NoBill
<1>6. RowsSound'
  <2>1. RowsSound
    BY DEF IInv
  <2>2. \A x \in Orders : OrderSound(x)'
    BY <1>4, <2>1 DEF RowsSound, OrderSound
  <2>3. \A x \in Receipts : ReceiptSound(x)'
    BY <1>4, <2>1 DEF RowsSound, ReceiptSound, Fits
  <2>4. \A x \in Bills : BillSound(x)'
    BY <1>3, <1>4, <2>1 DEF RowsSound, BillSound
  <2> QED
    BY <2>2, <2>3, <2>4 DEF RowsSound
<1>7. ASSUME NEW q \in Requests \ {r} PROVE StaysFor(q)
  <2>1. ASSUME req[q].op = "draftBill" PROVE bill'[req[q].bill] = bill[req[q].bill]
    <3>1. req[q].bill # b
      BY <1>1, <1>4, <2>1 DEF IInv, OwnRows, SameRow
    <3>2. req[q].bill \in Bills
      BY <2>1 DEF IInv, RequestsSound, Runs, Drafts
    <3> QED
      BY <1>3, <3>1, <3>2
  <2> QED
    BY <1>3, <1>4, <1>5, <2>1 DEF StaysFor
<1>8. overtaken' \subseteq Orders \cup Bills \cup Requisitions
  BY <1>3, <1>4, WroteTyped
<1> QED
  BY <1>3, <1>4, <1>6, <1>7, <1>8, EndStep DEF IInv, TypeOK

\* PostBill keeps the invariant.
LEMMA PostBillKeeps ==
    ASSUME IInv, NEW r \in Requests, CommitPostBill(r)
    PROVE  IInv'
<1>1. PICK b : b = req[r].bill
  OBVIOUS
<1>2. PICK o : o = req[r].order
  OBVIOUS
<1>3. PICK lines : lines = req[r].lines
  OBVIOUS
<1>4. /\ b \in Bills /\ bill[b].status = "draft" /\ BillRow(b) \in locks[r]
      /\ o \in Orders /\ lines \in Deliveries /\ Fits(lines, o)
      /\ order[o].status # "none" /\ order[o].lines \in OrderBodies
      /\ bill' \in [Bills -> Bill]
      /\ entry' \in [Bills -> {"none", "posted", "reversed"}]
      /\ order' \in [Orders -> Order]
      /\ \A x \in Bills \ {b} : bill'[x] = bill[x]
      /\ bill'[b].status = "posted" /\ bill'[b].receipt = bill[b].receipt
      /\ \A x \in Orders \ {o} : order'[x] = order[x]
      /\ order'[o].status = order[o].status /\ order'[o].lines = order[o].lines
      /\ order'[o].received = order[o].received
      /\ Len(order'[o].billed) = Len(order[o].lines)
      /\ grni' = grni - Amount(o, lines)
  BY <1>1, <1>2, <1>3, PostBillDoes
<1>5. /\ End(r) /\ requisition' = requisition /\ vendorOk' = vendorOk
      /\ receipt' = receipt /\ overtaken' = overtaken
  BY DEF CommitPostBill
<1>6. RowsSound'
  <2>1. RowsSound
    BY DEF IInv
  <2>2. ASSUME NEW x \in Orders PROVE OrderSound(x)'
    BY <1>4, <2>1 DEF RowsSound, OrderSound
  <2>3. \A x \in Receipts : ReceiptSound(x)'
    BY <1>4, <1>5, <2>1 DEF RowsSound, ReceiptSound, Fits
  <2>4. \A x \in Bills : BillSound(x)'
    BY <1>4, <1>5, <2>1 DEF RowsSound, BillSound
  <2> QED
    BY <2>2, <2>3, <2>4 DEF RowsSound
<1>7. ASSUME NEW q \in Requests \ {r} PROVE StaysFor(q)
  <2>1. ASSUME req[q].op = "order" PROVE order'[req[q].order] = order[req[q].order]
    <3>1. req[q].order \in Orders /\ order[req[q].order] = NoOrder
      BY <2>1 DEF IInv, RequestsSound, Runs, Places
    <3>2. req[q].order # o
      BY <1>4, <3>1 DEF NoOrder
    <3> QED
      BY <1>4, <3>1, <3>2
  <2>2. BillRow(b) \notin locks[q]
    BY <1>4 DEF IInv, L!LocksExclusive
  <2>3. ASSUME NEW x \in Bills, BillRow(x) \in locks[q]
        PROVE  bill'[x] = bill[x]
    BY <1>4, <2>2, <2>3
  <2>4. ASSUME req[q].op = "draftBill" PROVE bill'[req[q].bill] = bill[req[q].bill]
    <3>1. req[q].bill \in Bills /\ bill[req[q].bill] = NoBill
      BY <2>4 DEF IInv, RequestsSound, Runs, Drafts
    <3>2. req[q].bill # b
      BY <1>4, <3>1 DEF NoBill
    <3> QED
      BY <1>4, <3>1, <3>2
  <2>5. \A x \in Bills : bill[x].status # "none" =>
           bill'[x].status # "none" /\ bill'[x].receipt = bill[x].receipt
    BY <1>4
  <2>6. \A x \in Orders : /\ order[x].status # "none" =>
                                order'[x].status # "none" /\ order'[x].lines = order[x].lines
                          /\ order'[x].received = order[x].received
    BY <1>4
  <2> QED
    BY <1>5, <2>1, <2>3, <2>4, <2>5, <2>6 DEF StaysFor
<1>8. grni' \in Int
  <2>1. Amount(o, lines) \in Nat /\ grni \in Int
    BY <1>4, AmountIsNat, DeliveriesAre DEF IInv, TypeOK
  <2> QED
    BY <1>4, <2>1
<1> QED
  BY <1>4, <1>5, <1>6, <1>7, <1>8, EndStep DEF IInv, TypeOK

\* What a bill's receipt is priced at is a whole number.
LEMMA PricedIsNat ==
    ASSUME RowsSound, NEW b \in Bills, bill[b].status # "none"
    PROVE  Priced(b) \in Nat
<1>1. bill[b].receipt \in Receipts /\ receipt[bill[b].receipt] # NoReceipt
  BY DEF RowsSound, BillSound
<1>2. PICK g \in Receipts : g = bill[b].receipt
  BY <1>1
<1>3. /\ receipt[g].order \in Orders /\ receipt[g].lines \in Deliveries
      /\ order[receipt[g].order].status # "none" /\ Fits(receipt[g].lines, receipt[g].order)
  BY <1>1, <1>2 DEF RowsSound, ReceiptSound
<1>4. order[receipt[g].order].lines \in OrderBodies
  BY <1>3 DEF RowsSound, OrderSound
<1>5. Amount(receipt[g].order, receipt[g].lines) \in Nat
  BY <1>3, <1>4, AmountIsNat, DeliveriesAre
<1> QED
  BY <1>2, <1>5 DEF Priced

\* CancelBill keeps the invariant.
LEMMA CancelBillKeeps ==
    ASSUME IInv, NEW r \in Requests, CommitCancelBill(r)
    PROVE  IInv'
<1>1. PICK b : b = req[r].bill
  OBVIOUS
<1>2. /\ b \in Bills /\ bill[b].status # "none"
      /\ \A q \in Requests \ {r} : BillRow(b) \notin locks[q]
      /\ bill' \in [Bills -> Bill]
      /\ entry' \in [Bills -> {"none", "posted", "reversed"}]
      /\ \A x \in Bills \ {b} : bill'[x] = bill[x]
      /\ bill'[b].status = "cancelled" /\ bill'[b].receipt = bill[b].receipt
      /\ grni' = grni + Mirrored(r)
  BY <1>1, CancelBillDoes
<1>3. /\ End(r) /\ requisition' = requisition /\ vendorOk' = vendorOk /\ order' = order
      /\ receipt' = receipt /\ Wrote(b, bill[b].status = req[r].was)
  BY <1>1 DEF CommitCancelBill
<1>4. RowsSound
  BY DEF IInv
<1>5. RowsSound'
  <2>2. \A x \in Orders : OrderSound(x)'
    BY <1>3, <1>4 DEF RowsSound, OrderSound
  <2>3. \A x \in Receipts : ReceiptSound(x)'
    BY <1>3, <1>4 DEF RowsSound, ReceiptSound, Fits
  <2>4. \A x \in Bills : BillSound(x)'
    BY <1>2, <1>3, <1>4 DEF RowsSound, BillSound
  <2> QED
    BY <2>2, <2>3, <2>4 DEF RowsSound
<1>6. ASSUME NEW q \in Requests \ {r} PROVE StaysFor(q)
  <2>1. ASSUME NEW x \in Bills, BillRow(x) \in locks[q]
        PROVE  bill'[x] = bill[x]
    BY <1>2, <2>1
  <2>2. ASSUME req[q].op = "draftBill" PROVE bill'[req[q].bill] = bill[req[q].bill]
    <3>1. req[q].bill \in Bills /\ bill[req[q].bill] = NoBill
      BY <2>2 DEF IInv, RequestsSound, Runs, Drafts
    <3>2. req[q].bill # b
      BY <1>2, <3>1 DEF NoBill
    <3> QED
      BY <1>2, <3>1, <3>2
  <2>3. \A x \in Bills : bill[x].status # "none" =>
           bill'[x].status # "none" /\ bill'[x].receipt = bill[x].receipt
    BY <1>2
  <2> QED
    BY <1>3, <2>1, <2>2, <2>3 DEF StaysFor
<1>7. grni' \in Int
  <2>1. Mirrored(r) \in Nat /\ grni \in Int
    BY <1>1, <1>2, <1>4, PricedIsNat DEF IInv, TypeOK, Mirrored
  <2> QED
    BY <1>2, <2>1
<1>8. overtaken' \subseteq Orders \cup Bills \cup Requisitions
  BY <1>2, <1>3, WroteTyped
<1> QED
  BY <1>2, <1>3, <1>5, <1>6, <1>7, <1>8, EndStep DEF IInv, TypeOK

\* Requests refused, requests that fail, and the steps that are no request's.
LEMMA OthersKeep ==
    ASSUME IInv,
           \/ \E p \in Requisitions : CreateRequisition(p)
           \/ SetVendor
           \/ \E r \in Requests : Refuse(r) \/ Fail(r)
    PROVE  IInv'
<1>1. ASSUME NEW r \in Requests, Refuse(r) \/ Fail(r) PROVE IInv'
  <2>1. End(r) /\ UNCHANGED rows
    BY <1>1 DEF Refuse, Fail
  <2> QED
    BY <2>1, RowsStay, EndStep DEF IInv, TypeOK, rows
<1>2. ASSUME \/ \E p \in Requisitions : CreateRequisition(p)
             \/ SetVendor
      PROVE  IInv'
  <2>1. /\ order' = order /\ receipt' = receipt /\ bill' = bill /\ entry' = entry
        /\ grni' = grni /\ req' = req /\ locks' = locks /\ overtaken' = overtaken
    BY <1>2 DEF CreateRequisition, SetVendor
  <2>2. /\ requisition' \in [Requisitions -> RequisitionStatus]
        /\ vendorOk' \in BOOLEAN
    BY <1>2 DEF CreateRequisition, SetVendor, IInv, TypeOK, RequisitionStatus
  <2>3. TypeOK' /\ L!LocksExclusive'
    BY <2>1, <2>2 DEF IInv, TypeOK, L!LocksTypeOK, L!LocksExclusive
  <2>4. RowsSound'
    BY <2>1, RowsStay
  <2>5. OwnRows'
    BY <2>1 DEF IInv, OwnRows, SameRow
  <2>6. ASSUME NEW q \in Requests PROVE (Runs(req[q]) /\ Holds(q))'
    BY <2>1, RowsStay, Bystander
  <2> QED
    BY <2>3, <2>4, <2>5, <2>6 DEF IInv, RequestsSound
<1> QED
  BY <1>1, <1>2

-------------------------------------------------------------------------------
(* The invariant                                                           *)

\* The empty tables satisfy the invariant.
LEMMA InitKeeps ==
    ASSUME Init
    PROVE  IInv
<1>1. /\ \A o \in Orders : order[o] = NoOrder
      /\ \A g \in Receipts : receipt[g] = NoReceipt
      /\ \A b \in Bills : bill[b] = NoBill
      /\ \A r \in Requests : req[r] = Idle
  BY DEF Init
<1>2. TypeOK
  BY IdleTyped, NoRowsTyped DEF Init, TypeOK, RequisitionStatus, L!NoLocks, L!LocksTypeOK
<1>3. L!LocksExclusive
  BY DEF Init, L!NoLocks, L!LocksExclusive
<1>4. RowsSound
  <2>1. \A o \in Orders : OrderSound(o)
    BY <1>1 DEF OrderSound, NoOrder
  <2>2. \A g \in Receipts : ReceiptSound(g)
    BY <1>1 DEF ReceiptSound
  <2>4. NoBill.status = "none"
    BY DEF NoBill
  <2>3. \A b \in Bills : BillSound(b)
    BY <1>1, <2>4 DEF BillSound
  <2> QED
    BY <2>1, <2>2, <2>3 DEF RowsSound
<1>5. ASSUME NEW r \in Requests PROVE Runs(req[r]) /\ Holds(r)
  BY <1>1, IdleTyped, NoneAssumption DEF Holds, Operations
<1>6. OwnRows
  BY <1>1, IdleTyped, NoneAssumption DEF OwnRows, SameRow, Operations
<1> QED
  BY <1>2, <1>3, <1>4, <1>5, <1>6 DEF IInv, RequestsSound

\* Every step keeps the invariant.
LEMMA NextKeeps ==
    ASSUME IInv, [Next]_vars
    PROVE  IInv'
<1>1. ASSUME NEW r \in Requests, Proceed(r)
      PROVE  IInv'
  BY <1>1, CheckVendorKeeps, LockOrderKeeps, TakeReceiptNumberKeeps, LockLineKeeps,
     TakeJournalNumberKeeps, LockBillKeeps, ReadEntryKeeps, DecideKeeps, OrderKeeps,
     SetOrderKeeps, ReceiveKeeps, DraftBillKeeps, PostBillKeeps, CancelBillKeeps, OthersKeep
  DEF Proceed
<1>2. CASE UNCHANGED vars
  <2>1. UNCHANGED rows /\ req' = req /\ locks' = locks
    BY <1>2 DEF vars
  <2>2. UNCHANGED <<order, receipt, bill>>
    BY <2>1 DEF rows
  <2>3. TypeOK' /\ L!LocksExclusive' /\ OwnRows'
    BY <2>1 DEF IInv, TypeOK, L!LocksTypeOK, L!LocksExclusive, OwnRows, SameRow, rows
  <2>4. ASSUME NEW q \in Requests PROVE (Runs(req[q]) /\ Holds(q))'
    BY <2>1, <2>2, RowsStay, Bystander
  <2> QED
    BY <2>2, <2>3, <2>4, RowsStay DEF IInv, RequestsSound
<1> QED
  BY <1>1, <1>2, StartKeeps, OthersKeep DEF Next

\* In every reachable state the rows refer to rows that exist, and a request holds the order
\* or bill it is about to write as it read it: the inductive invariant.
THEOREM Invariance == Spec => []IInv
BY InitKeeps, NextKeeps, PTL DEF Spec

\* Every variable holds rows of its table, whatever the number of orders, receipts, bills
\* and requests.
THEOREM TypeCorrect == Spec => []TypeOK
<1>1. IInv => TypeOK
  BY DEF IInv
<1> QED
  BY <1>1, Invariance, PTL

-------------------------------------------------------------------------------
(* The steps that write a row                                              *)

\* The steps that write a row: every other step leaves all tables alone.
LEMMA RowSteps ==
    ASSUME [Next]_vars
    PROVE  \/ \E p \in Requisitions : CreateRequisition(p)
           \/ \E r \in Requests : \/ CommitDecide(r) \/ CommitOrder(r) \/ CommitSetOrder(r)
                                  \/ CommitReceive(r) \/ CommitDraftBill(r) \/ CommitPostBill(r)
                                  \/ CommitCancelBill(r)
           \/ UNCHANGED <<requisition, order, receipt, bill, grni, overtaken>>
<1>1. ASSUME NEW r \in Requests, Start(r)
      PROVE  UNCHANGED rows
  BY <1>1 DEF Start, BeginDecide, BeginOrder, BeginSetOrder, BeginReceive, BeginDraftBill,
              BeginPostBill, BeginCancelBill, Begin
<1>2. ASSUME NEW r \in Requests,
             \/ CheckVendor(r) \/ LockOrder(r) \/ TakeReceiptNumber(r) \/ LockLine(r)
             \/ TakeJournalNumber(r) \/ LockBill(r) \/ ReadEntry(r) \/ Refuse(r) \/ Fail(r)
      PROVE  UNCHANGED rows
  BY <1>2 DEF CheckVendor, LockOrder, TakeReceiptNumber, LockLine, TakeJournalNumber, LockBill,
              ReadEntry, Refuse, Fail
<1>3. SetVendor => UNCHANGED <<requisition, order, receipt, bill, grni, overtaken>>
  BY DEF SetVendor
<1>4. UNCHANGED vars => UNCHANGED rows
  BY DEF vars
<1>5. UNCHANGED rows => UNCHANGED <<requisition, order, receipt, bill, grni, overtaken>>
  BY DEF rows
<1> QED
  BY <1>1, <1>2, <1>3, <1>4, <1>5 DEF Next, Proceed

-------------------------------------------------------------------------------
(* A requisition tells whether it was ordered                              *)

\* Every step keeps requisitions and orders in agreement.
LEMMA OrderedKept ==
    ASSUME IInv, RequisitionTellsOrdered, [Next]_vars
    PROVE  RequisitionTellsOrdered'
<1>1. ASSUME order' = order, requisition' = requisition, overtaken \subseteq overtaken'
      PROVE  RequisitionTellsOrdered'
  BY <1>1 DEF RequisitionTellsOrdered
<1>2. ASSUME NEW p \in Requisitions, CreateRequisition(p)
      PROVE  RequisitionTellsOrdered'
  BY <1>2 DEF CreateRequisition, RequisitionTellsOrdered, IInv, TypeOK
<1>3. ASSUME NEW r \in Requests, CommitDecide(r)
      PROVE  RequisitionTellsOrdered'
  <2>1. PICK p : p = req[r].requisition
    OBVIOUS
  <2>2. /\ p \in Requisitions
        /\ req[r].to \in {"submitted", "approved", "rejected"}
        /\ req[r].was \in {"draft", "submitted"}
        /\ requisition'[p] = req[r].to
        /\ \A x \in Requisitions \ {p} : requisition'[x] = requisition[x]
    BY <1>3, <2>1, DecideDoes
  <2>3. order' = order /\ Wrote(p, requisition[p] = req[r].was)
    BY <1>3, <2>1 DEF CommitDecide
  <2>4. overtaken \subseteq overtaken'
    BY <2>3 DEF Wrote
  <2>5. ASSUME p \notin overtaken' PROVE requisition[p] # "ordered"
    BY <2>2, <2>3, <2>5 DEF Wrote
  <2>6. requisition'[p] # "ordered"
    BY <2>2
  <2> QED
    BY <2>2, <2>3, <2>4, <2>5, <2>6 DEF RequisitionTellsOrdered
<1>4. ASSUME NEW r \in Requests, CommitOrder(r)
      PROVE  RequisitionTellsOrdered'
  <2>1. PICK o : o = req[r].order
    OBVIOUS
  <2>2. PICK p : p = req[r].requisition
    OBVIOUS
  <2>3. /\ o \in Orders /\ order[o] = NoOrder
        /\ \A x \in Orders \ {o} : order'[x] = order[x]
        /\ order'[o].requisition = p
        /\ \A x \in Requisitions :
              requisition'[x] = IF x = p THEN "ordered" ELSE requisition[x]
    BY <1>4, <2>1, <2>2, OrderDoes
  <2>4. \A x \in Requisitions : order[o].requisition # x
    BY <2>3, RowsAssumption DEF NoOrder
  <2>5. overtaken' = overtaken
    BY <1>4 DEF CommitOrder
  <2> QED
    BY <2>3, <2>4, <2>5 DEF RequisitionTellsOrdered
<1>5. ASSUME NEW r \in Requests, CommitSetOrder(r) \/ CommitReceive(r) \/ CommitPostBill(r)
      PROVE  RequisitionTellsOrdered'
  <2>1. PICK o : o = req[r].order
    OBVIOUS
  <2>2. /\ o \in Orders
        /\ \A x \in Orders \ {o} : order'[x] = order[x]
        /\ order'[o].requisition = order[o].requisition
    BY <1>5, <2>1, SetOrderDoes, ReceiveDoes, PostBillDoes
  <2>3. requisition' = requisition /\ overtaken \subseteq overtaken'
    BY <1>5 DEF CommitSetOrder, CommitReceive, CommitPostBill, Wrote
  <2>4. \A x \in Orders : order'[x].requisition = order[x].requisition
    BY <2>2
  <2> QED
    BY <2>3, <2>4 DEF RequisitionTellsOrdered
<1>6. ASSUME NEW r \in Requests, CommitDraftBill(r) \/ CommitCancelBill(r)
      PROVE  RequisitionTellsOrdered'
  <2>1. order' = order /\ requisition' = requisition /\ overtaken \subseteq overtaken'
    BY <1>6 DEF CommitDraftBill, CommitCancelBill, Wrote
  <2> QED
    BY <1>1, <2>1
<1> QED
  BY <1>1, <1>2, <1>3, <1>4, <1>5, <1>6, RowSteps

\* An order marks its requisition as ordered and nothing else does, unless a decision on
\* the requisition had read it before that (createOrder, setRequisitionStatus).
THEOREM OrderedTold == Spec => []RequisitionTellsOrdered
<1>1. Init => RequisitionTellsOrdered
  BY RowsAssumption DEF Init, RequisitionTellsOrdered, NoOrder
<1> QED
  BY <1>1, OrderedKept, Invariance, PTL DEF Spec

-------------------------------------------------------------------------------
(* A receipt has one live bill                                             *)

\* Any two live bills of a receipt are one.
OneInv ==
    \A g \in Receipts : \A x, y \in Bills \ overtaken :
        x \in LiveBills(g) /\ y \in LiveBills(g) => x = y

\* Every step keeps one live bill a receipt, but for bills that were overtaken.
LEMMA OneKept ==
    ASSUME IInv, OneInv, [Next]_vars
    PROVE  OneInv'
<1>1. ASSUME \A g \in Receipts : LiveBills(g)' \subseteq LiveBills(g),
             overtaken \subseteq overtaken'
      PROVE  OneInv'
  BY <1>1 DEF OneInv
<1>2. ASSUME bill' = bill, overtaken \subseteq overtaken'
      PROVE  OneInv'
  BY <1>1, <1>2 DEF LiveBills
<1>3. ASSUME NEW r \in Requests, CommitDraftBill(r)
      PROVE  OneInv'
  <2>1. PICK b : b = req[r].bill
    OBVIOUS
  <2>2. PICK g : g = req[r].receipt
    OBVIOUS
  <2>3. /\ b \in Bills /\ bill[b] = NoBill /\ g \in Receipts /\ req[r].rivals = {}
        /\ \A x \in Bills \ {b} : bill'[x] = bill[x]
        /\ bill'[b].status = "draft" /\ bill'[b].receipt = g
    BY <1>3, <2>1, <2>2, DraftBillDoes
  <2>4. Wrote(b, LiveBills(g) = req[r].rivals)
    BY <1>3, <2>1, <2>2 DEF CommitDraftBill
  <2>5. overtaken \subseteq overtaken' /\ (b \notin overtaken' => LiveBills(g) = {})
    BY <2>3, <2>4 DEF Wrote
  <2>6. \A x \in Receipts \ {g} : LiveBills(x)' \subseteq LiveBills(x)
    BY <2>3 DEF LiveBills
  <2>7. LiveBills(g)' \subseteq LiveBills(g) \cup {b}
    BY <2>3 DEF LiveBills
  <2> QED
    BY <2>5, <2>6, <2>7 DEF OneInv
<1>4. ASSUME NEW r \in Requests, CommitPostBill(r)
      PROVE  OneInv'
  <2>1. PICK b : b = req[r].bill
    OBVIOUS
  <2>2. /\ b \in Bills /\ bill[b].status = "draft"
        /\ \A x \in Bills \ {b} : bill'[x] = bill[x]
        /\ bill'[b].status = "posted" /\ bill'[b].receipt = bill[b].receipt
    BY <1>4, <2>1, PostBillDoes
  <2>3. overtaken' = overtaken
    BY <1>4 DEF CommitPostBill
  <2>4. \A g \in Receipts : LiveBills(g)' \subseteq LiveBills(g)
    BY <2>2 DEF LiveBills
  <2> QED
    BY <1>1, <2>3, <2>4
<1>5. ASSUME NEW r \in Requests, CommitCancelBill(r)
      PROVE  OneInv'
  <2>1. PICK b : b = req[r].bill
    OBVIOUS
  <2>2. /\ b \in Bills
        /\ \A x \in Bills \ {b} : bill'[x] = bill[x]
        /\ bill'[b].status = "cancelled"
    BY <1>5, <2>1, CancelBillDoes
  <2>3. overtaken \subseteq overtaken'
    BY <1>5 DEF CommitCancelBill, Wrote
  <2>4. \A g \in Receipts : LiveBills(g)' \subseteq LiveBills(g)
    BY <2>2 DEF LiveBills
  <2> QED
    BY <1>1, <2>3, <2>4
<1>6. ASSUME NEW r \in Requests,
             CommitDecide(r) \/ CommitOrder(r) \/ CommitSetOrder(r) \/ CommitReceive(r)
      PROVE  OneInv'
  <2>1. bill' = bill /\ overtaken \subseteq overtaken'
    BY <1>6 DEF CommitDecide, CommitOrder, CommitSetOrder, CommitReceive, Wrote
  <2> QED
    BY <1>2, <2>1
<1>7. ASSUME NEW p \in Requisitions, CreateRequisition(p)
      PROVE  OneInv'
  BY <1>2, <1>7 DEF CreateRequisition
<1> QED
  BY <1>2, <1>3, <1>4, <1>5, <1>6, <1>7, RowSteps

\* A receipt has one live bill, unless two requests looked for one before either had
\* written its own (fromGoodsReceipt).
THEOREM BilledOnce == Spec => []OneLiveBill
<1>1. Init => OneInv
  BY DEF Init, OneInv, LiveBills, NoBill
<1>2. Spec => []OneInv
  BY <1>1, OneKept, Invariance, PTL DEF Spec
<1>3. OneInv => OneLiveBill
  <2> SUFFICES ASSUME OneInv, NEW g \in Receipts
               PROVE  Cardinality(LiveBills(g) \ overtaken) <= 1
    BY DEF OneLiveBill
  <2>1. PICK S : S = LiveBills(g) \ overtaken
    OBVIOUS
  <2>2. \A x, y \in S : x = y
    BY <2>1 DEF OneInv, LiveBills
  <2>3. CASE S = {}
    BY <2>1, <2>3, FS_EmptySet
  <2>4. CASE S # {}
    <3>1. PICK x : S = {x}
      BY <2>2, <2>4
    <3>2. Cardinality({x}) = 1
      BY FS_Singleton
    <3>3. Cardinality(S) = 1
      BY <3>1, <3>2
    <3> QED
      BY <2>1, <3>3
  <2> QED
    BY <2>3, <2>4
<1> QED
  BY <1>2, <1>3, PTL

-------------------------------------------------------------------------------
(* What is received                                                        *)

\* The quantity of a line that a delivery names at most once.
LEMMA QtyOfOne ==
    ASSUME NEW lines \in Seq(DeliveryLine), NEW l, ~Doubled(lines, l)
    PROVE  \/ QtyOf(lines, l) = 0
           \/ \E i \in DOMAIN lines : lines[i].line = l /\ QtyOf(lines, l) = lines[i].qty
<1>1. PICK N : N = {i \in DOMAIN lines : lines[i].line = l}
  OBVIOUS
<1>2. PICK S : S = DOMAIN lines
  OBVIOUS
<1>3. PICK f : f = [i \in DOMAIN lines |-> IF lines[i].line = l THEN lines[i].qty ELSE 0]
  OBVIOUS
<1>4. IsFiniteSet(S) /\ \A i \in S : lines[i].qty \in Nat
  BY <1>2, DeliveryIsSeq
<1>5. f \in [S -> Int] /\ QtyOf(lines, l) = SumOver(f)
  BY <1>2, <1>3, <1>4 DEF QtyOf
<1>6. N \in SUBSET S /\ IsFiniteSet(N)
  BY <1>1, <1>2, <1>4, FS_Subset
<1>7. Cardinality(N) \in Nat /\ Cardinality(N) <= 1
  <2>1. Cardinality(N) \in Nat
    BY <1>6, FS_CardinalityType
  <2> QED
    BY <1>1, <2>1 DEF Doubled
<1>8. CASE Cardinality(N) = 0
  <2>1. N = {}
    BY <1>6, <1>8, FS_EmptySet
  <2>2. \A i \in S : f[i] = 0
    BY <1>1, <1>2, <1>3, <2>1
  <2> QED
    BY <1>4, <1>5, <2>2, SumOfZeros
<1>9. CASE Cardinality(N) = 1
  <2>1. PICK i : N = {i}
    BY <1>6, <1>9, FS_Singleton
  <2>2. i \in S /\ lines[i].line = l /\ f[i] = lines[i].qty /\ \A j \in S \ {i} : f[j] = 0
    BY <1>1, <1>2, <1>3, <2>1
  <2>3. PICK z : z = [j \in S |-> 0]
    OBVIOUS
  <2>4. z \in [S -> Int] /\ SumOver(z) = 0 /\ z[i] = 0 /\ \A j \in S \ {i} : z[j] = f[j]
    BY <1>4, <2>2, <2>3, SumOfZeros
  <2>5. SumOver(f) = SumOver(z) - z[i] + f[i]
    BY <1>4, <1>5, <2>2, <2>4, SumChanges
  <2> QED
    BY <1>2, <1>4, <1>5, <2>2, <2>4, <2>5
<1> QED
  BY <1>7, <1>8, <1>9

\* An order that does not exist has no receipts.
LEMMA NoneAgainst ==
    ASSUME RowsSound, NEW o \in Orders, order[o].status = "none"
    PROVE  Against(o) = {}
BY RowsAssumption DEF Against, RowsSound, ReceiptSound, NoReceipt

\* The quantities received against a line, per receipt.
LEMMA PartsAreNat ==
    ASSUME TypeOK, NEW o \in Orders, NEW l, NEW f,
           f = [g \in Against(o) |-> QtyOf(receipt[g].lines, l)]
    PROVE  f \in [Against(o) -> Nat] /\ IsFiniteSet(Against(o))
<1>1. IsFiniteSet(Against(o))
  BY RowsAssumption, FS_Subset DEF Against
<1>2. \A g \in Against(o) : receipt[g].lines \in Seq(DeliveryLine)
  BY DEF TypeOK, Receipt, Against
<1> QED
  BY <1>1, <1>2, QtyIsNat

\* A step that leaves receipts, lines and counts alone orders and receives nothing more.
LEMMA WithinStays ==
    ASSUME WithinOrder, receipt' = receipt,
           \A o \in Orders : order'[o].lines = order[o].lines /\ order'[o].received = order[o].received
    PROVE  WithinOrder'
BY DEF WithinOrder, Against

\* Every step keeps what is received within what is counted on the order.
LEMMA WithinKept ==
    ASSUME IInv, WithinOrder, [Next]_vars
    PROVE  WithinOrder'
<1>1. TypeOK /\ RowsSound
  BY DEF IInv
<1>2. ASSUME receipt' = receipt, order' = order
      PROVE  WithinOrder'
  BY <1>2, WithinStays
<1>3. ASSUME NEW r \in Requests, CommitOrder(r)
      PROVE  WithinOrder'
  <2>1. PICK o : o = req[r].order
    OBVIOUS
  <2>2. /\ o \in Orders /\ order[o] = NoOrder /\ req[r].body \in OrderBodies
        /\ \A x \in Orders \ {o} : order'[x] = order[x]
        /\ order'[o].lines = req[r].body
        /\ \A l \in DOMAIN req[r].body : order'[o].received[l] = 0
    BY <1>3, <2>1, OrderDoes
  <2>3. receipt' = receipt
    BY <1>3 DEF CommitOrder
  <2>4. Against(o) = {}
    BY <1>1, <2>2, NoneAgainst DEF NoOrder
  <2>5. \A x \in Orders : Against(x)' = Against(x)
    BY <2>3 DEF Against
  <2> SUFFICES ASSUME NEW x \in Orders, NEW l \in DOMAIN order'[x].lines
               PROVE  /\ order'[x].received[l] =
                             SumOver([g \in Against(x)' |-> QtyOf(receipt'[g].lines, l)])
                      /\ \/ order'[x].received[l] <= order'[x].lines[l].qty
                         \/ \E g \in Against(x)' : Doubled(receipt'[g].lines, l)
    BY DEF WithinOrder
  <2>6. CASE x = o
    <3>1. PICK f : f = [g \in Against(o)' |-> QtyOf(receipt'[g].lines, l)]
      OBVIOUS
    <3>2. SumOver(f) = 0
      <4>1. DOMAIN f = {}
        BY <2>2, <2>4, <2>5, <3>1
      <4> QED
        BY <4>1, SumOfNone
    <3>3. order'[o].received[l] = 0 /\ order'[o].lines[l].qty \in Nat
      BY <2>2, <2>6, BodyIsSeq
    <3> QED
      BY <2>6, <3>1, <3>2, <3>3
  <2>7. CASE x # o
    BY <2>2, <2>3, <2>5, <2>7 DEF WithinOrder
  <2> QED
    BY <2>6, <2>7
<1>4. ASSUME NEW r \in Requests, CommitSetOrder(r) \/ CommitPostBill(r)
      PROVE  WithinOrder'
  <2>1. PICK o : o = req[r].order
    OBVIOUS
  <2>2. /\ \A x \in Orders \ {o} : order'[x] = order[x]
        /\ order'[o].lines = order[o].lines /\ order'[o].received = order[o].received
    BY <1>4, <2>1, SetOrderDoes, PostBillDoes
  <2>3. receipt' = receipt
    BY <1>4 DEF CommitSetOrder, CommitPostBill
  <2> QED
    BY <2>2, <2>3, WithinStays
<1>5. ASSUME NEW r \in Requests, CommitReceive(r)
      PROVE  WithinOrder'
  <2>1. PICK o : o = req[r].order
    OBVIOUS
  <2>2. PICK g : g = req[r].receipt
    OBVIOUS
  <2>3. PICK lines : lines = req[r].lines
    OBVIOUS
  <2>4. /\ o \in Orders /\ order[o].status # "none"
        /\ g \in Receipts /\ receipt[g] = NoReceipt
        /\ lines \in Deliveries
        /\ Compared(o, lines, order[o].received, {})
        /\ \A x \in Orders \ {o} : order'[x] = order[x]
        /\ order'[o].lines = order[o].lines
        /\ Adds(order'[o].received, order[o].received, order[o].lines, lines)
        /\ \A x \in Receipts \ {g} : receipt'[x] = receipt[x]
        /\ receipt'[g].order = o /\ receipt'[g].lines = lines
    BY <1>5, <2>1, <2>2, <2>3, ReceiveDoes
  <2>10. ASSUME NEW l \in DOMAIN order[o].lines
         PROVE  order'[o].received[l] = order[o].received[l] + QtyOf(lines, l)
    BY <2>4 DEF Adds
  <2>5. receipt[g].order = None
    BY <2>4 DEF NoReceipt
  <2>6. /\ g \notin Against(o) /\ Against(o)' = Against(o) \cup {g}
        /\ \A x \in Orders \ {o} : g \notin Against(x) /\ Against(x)' = Against(x)
    BY <2>4, <2>5, RowsAssumption DEF Against
  <2>7. \A x \in Orders : \A h \in Against(x) : receipt'[h] = receipt[h]
    BY <2>4, <2>6 DEF Against
  <2> SUFFICES ASSUME NEW x \in Orders, NEW l \in DOMAIN order'[x].lines
               PROVE  /\ order'[x].received[l] =
                             SumOver([h \in Against(x)' |-> QtyOf(receipt'[h].lines, l)])
                      /\ \/ order'[x].received[l] <= order'[x].lines[l].qty
                         \/ \E h \in Against(x)' : Doubled(receipt'[h].lines, l)
    BY DEF WithinOrder
  <2>8. CASE x # o
    <3>1. [h \in Against(x)' |-> QtyOf(receipt'[h].lines, l)]
              = [h \in Against(x) |-> QtyOf(receipt[h].lines, l)]
      BY <2>6, <2>7, <2>8
    <3>2. order'[x] = order[x]
      BY <2>4, <2>8
    <3> QED
      BY <2>6, <2>7, <2>8, <3>1, <3>2 DEF WithinOrder
  <2>9. CASE x = o
    <3>1. PICK before : before = [h \in Against(o) |-> QtyOf(receipt[h].lines, l)]
      OBVIOUS
    <3>2. PICK after : after = [h \in Against(o)' |-> QtyOf(receipt'[h].lines, l)]
      OBVIOUS
    <3>3. l \in DOMAIN order[o].lines
      BY <2>4, <2>9
    <3>4. before \in [Against(o) -> Nat] /\ IsFiniteSet(Against(o))
      BY <1>1, <2>4, <3>1, PartsAreNat
    <3>5. QtyOf(lines, l) \in Nat
      BY <2>4, QtyIsNat, DeliveriesAre
    <3>6. /\ after \in [Against(o) \cup {g} -> Int] /\ after[g] = QtyOf(lines, l)
          /\ \A h \in Against(o) : after[h] = before[h]
      BY <2>4, <2>6, <2>7, <3>1, <3>2, <3>4, <3>5
    <3>7. before \in [Against(o) -> Int]
      BY <3>4
    <3>8. SumOver(after) = SumOver(before) + after[g]
      BY <2>6, <3>4, <3>6, <3>7, SumGrows
    <3>9. order[o].received[l] = SumOver(before)
      BY <2>4, <3>1, <3>3 DEF WithinOrder
    <3>10. order'[o].received[l] = SumOver(after)
      BY <2>4, <2>10, <3>3, <3>6, <3>8, <3>9
    <3>11. SumOver(before) \in Nat
      BY <3>4, SumIsNat
    <3>12. \/ order'[o].received[l] <= order'[o].lines[l].qty
           \/ \E h \in Against(o)' : Doubled(receipt'[h].lines, l)
      <4>1. CASE Doubled(lines, l)
        BY <2>4, <2>6, <4>1
      <4>2. CASE ~Doubled(lines, l) /\ QtyOf(lines, l) = 0
        <5>1. order'[o].received[l] = order[o].received[l]
          BY <2>4, <2>10, <3>3, <3>9, <3>11, <4>2
        <5>2. \/ order[o].received[l] <= order[o].lines[l].qty
              \/ \E h \in Against(o) : Doubled(receipt[h].lines, l)
          BY <2>4, <3>3 DEF WithinOrder
        <5> QED
          BY <2>4, <2>6, <2>7, <5>1, <5>2
      <4>3. CASE ~Doubled(lines, l) /\ QtyOf(lines, l) # 0
        <5>1. PICK i \in DOMAIN lines : lines[i].line = l /\ QtyOf(lines, l) = lines[i].qty
          BY <2>4, <4>3, QtyOfOne, DeliveriesAre
        <5>2. lines[i].qty <= order[o].lines[l].qty - order[o].received[l]
          BY <2>4, <5>1 DEF Compared
        <5>3. order[o].lines[l].qty \in Nat
          BY <1>1, <2>4, <3>3, BodyIsSeq DEF RowsSound, OrderSound
        <5>4. order'[o].received[l] <= order[o].lines[l].qty
          BY <2>4, <2>10, <3>3, <3>5, <3>9, <3>11, <5>1, <5>2, <5>3
        <5> QED
          BY <2>4, <5>4
      <4> QED
        BY <4>1, <4>2, <4>3
    <3> QED
      BY <2>9, <3>2, <3>10, <3>12
  <2> QED
    BY <2>8, <2>9
<1>6. ASSUME NEW r \in Requests, CommitDecide(r) \/ CommitDraftBill(r) \/ CommitCancelBill(r)
      PROVE  WithinOrder'
  BY <1>2, <1>6 DEF CommitDecide, CommitDraftBill, CommitCancelBill
<1>7. ASSUME NEW p \in Requisitions, CreateRequisition(p)
      PROVE  WithinOrder'
  BY <1>2, <1>7 DEF CreateRequisition
<1> QED
  BY <1>2, <1>3, <1>4, <1>5, <1>6, <1>7, RowSteps

\* receivedQty is what the receipts against the line say, and no line is received beyond
\* what was ordered, however many receipts are entered at once, unless one of them names the
\* line twice (receive).
THEOREM ReceivedWithinOrder == Spec => []WithinOrder
<1>1. Init => WithinOrder
  BY DEF Init, WithinOrder, NoOrder
<1> QED
  BY <1>1, WithinKept, Invariance, PTL DEF Spec

-------------------------------------------------------------------------------
(* What an order's status tells                                            *)

\* A step that leaves receipts alone, and orders but for those overtaken, leaves statuses true.
LEMMA StatusStays ==
    ASSUME StatusTellsReceived, receipt' = receipt, overtaken \subseteq overtaken',
           \A o \in Orders \ overtaken' :
               /\ order'[o].lines = order[o].lines /\ order'[o].received = order[o].received
               /\ order'[o].status = order[o].status
    PROVE  StatusTellsReceived'
BY DEF StatusTellsReceived, Against

\* Every step keeps the status of an order what its receipts say.
LEMMA StatusKept ==
    ASSUME IInv, StatusTellsReceived, [Next]_vars
    PROVE  StatusTellsReceived'
<1>1. RowsSound
  BY DEF IInv
<1>2. ASSUME receipt' = receipt, order' = order, overtaken \subseteq overtaken'
      PROVE  StatusTellsReceived'
  BY <1>2, StatusStays
<1>3. ASSUME NEW r \in Requests, CommitOrder(r)
      PROVE  StatusTellsReceived'
  <2>1. PICK o : o = req[r].order
    OBVIOUS
  <2>2. /\ o \in Orders /\ order[o] = NoOrder
        /\ \A x \in Orders \ {o} : order'[x] = order[x]
        /\ order'[o].status = "draft"
    BY <1>3, <2>1, OrderDoes
  <2>3. receipt' = receipt /\ overtaken' = overtaken
    BY <1>3 DEF CommitOrder
  <2>4. Against(o)' = {}
    BY <1>1, <2>2, <2>3, NoneAgainst DEF NoOrder, Against
  <2>5. \A x \in Orders : Against(x)' = Against(x)
    BY <2>3 DEF Against
  <2> QED
    BY <2>2, <2>3, <2>4, <2>5 DEF StatusTellsReceived
<1>4. ASSUME NEW r \in Requests, CommitSetOrder(r)
      PROVE  StatusTellsReceived'
  <2>1. PICK o : o = req[r].order
    OBVIOUS
  <2>2. /\ o \in Orders
        /\ req[r].to \in DOMAIN OrderFrom /\ req[r].was \in OrderFrom[req[r].to]
        /\ \A x \in Orders \ {o} : order'[x] = order[x]
        /\ order'[o].status = req[r].to
    BY <1>4, <2>1, SetOrderDoes
  <2>3. receipt' = receipt /\ Wrote(o, order[o].status = req[r].was)
    BY <1>4, <2>1 DEF CommitSetOrder
  <2>4. overtaken \subseteq overtaken'
    BY <2>3 DEF Wrote
  <2>5. \A x \in Orders : Against(x)' = Against(x)
    BY <2>3 DEF Against
  <2>6. ASSUME o \notin overtaken'
        PROVE  \/ order'[o].status = "closed"
               \/ /\ order'[o].status \in {"approved", "cancelled"}
                  /\ order[o].status \in {"draft", "approved"}
    BY <2>2, <2>3, <2>6 DEF Wrote, OrderFrom
  <2> QED
    BY <2>2, <2>4, <2>5, <2>6 DEF StatusTellsReceived
<1>5. ASSUME NEW r \in Requests, CommitPostBill(r)
      PROVE  StatusTellsReceived'
  <2>1. PICK o : o = req[r].order
    OBVIOUS
  <2>2. /\ \A x \in Orders \ {o} : order'[x] = order[x]
        /\ order'[o].lines = order[o].lines /\ order'[o].received = order[o].received
        /\ order'[o].status = order[o].status
    BY <1>5, <2>1, PostBillDoes
  <2>3. receipt' = receipt /\ overtaken' = overtaken
    BY <1>5 DEF CommitPostBill
  <2> QED
    BY <2>2, <2>3, StatusStays
<1>6. ASSUME NEW r \in Requests, CommitReceive(r)
      PROVE  StatusTellsReceived'
  <2>1. PICK o : o = req[r].order
    OBVIOUS
  <2>2. PICK g : g = req[r].receipt
    OBVIOUS
  <2>3. PICK lines : lines = req[r].lines
    OBVIOUS
  <2>4. /\ o \in Orders
        /\ g \in Receipts /\ receipt[g] = NoReceipt
        /\ \A x \in Orders \ {o} : order'[x] = order[x]
        /\ order'[o].lines = order[o].lines
        /\ order'[o].status = ReceivedStatus(order[o].lines, order'[o].received)
        /\ \A x \in Receipts \ {g} : receipt'[x] = receipt[x]
        /\ receipt'[g].order = o
    BY <1>6, <2>1, <2>2, <2>3, ReceiveDoes
  <2>5. overtaken' = overtaken
    BY <1>6 DEF CommitReceive
  <2>6. receipt[g].order = None
    BY <2>4 DEF NoReceipt
  <2>7. \A x \in Orders \ {o} : Against(x)' = Against(x)
    BY <2>4, <2>6, RowsAssumption DEF Against
  <2>8. Against(o)' # {}
    BY <2>4 DEF Against
  <2>9. PICK full \in BOOLEAN :
           full <=> \A l \in DOMAIN order'[o].lines :
                        order'[o].received[l] >= order'[o].lines[l].qty
    OBVIOUS
  <2>10. order'[o].status = IF full THEN "received" ELSE "partially_received"
    BY <2>4, <2>9 DEF ReceivedStatus
  <2> QED
    BY <2>4, <2>5, <2>7, <2>8, <2>9, <2>10 DEF StatusTellsReceived
<1>7. ASSUME NEW r \in Requests, CommitDecide(r) \/ CommitDraftBill(r) \/ CommitCancelBill(r)
      PROVE  StatusTellsReceived'
  <2>1. receipt' = receipt /\ order' = order /\ overtaken \subseteq overtaken'
    BY <1>7 DEF CommitDecide, CommitDraftBill, CommitCancelBill, Wrote
  <2> QED
    BY <1>2, <2>1
<1>8. ASSUME NEW p \in Requisitions, CreateRequisition(p)
      PROVE  StatusTellsReceived'
  BY <1>2, <1>8 DEF CreateRequisition
<1> QED
  BY <1>2, <1>3, <1>4, <1>5, <1>6, <1>7, <1>8, RowSteps

\* An order's status tells what was received against it, unless its status was written over
\* one that the request had not read (setOrderStatus against receive).
THEOREM StatusTold == Spec => []StatusTellsReceived
<1>1. Init => StatusTellsReceived
  BY DEF Init, StatusTellsReceived, NoOrder
<1> QED
  BY <1>1, StatusKept, Invariance, PTL DEF Spec

-------------------------------------------------------------------------------
(* The account of goods received and not invoiced                          *)

\* What a receipt puts on the account and what a posted bill takes off it.
Cost(g) == IF receipt[g] = NoReceipt THEN 0 ELSE Amount(receipt[g].order, receipt[g].lines)
Owed(b) == IF bill[b].status = "posted" THEN Priced(b) ELSE 0

Costs  == [g \in Receipts |-> Cost(g)]
Owings == [b \in Bills |-> Owed(b)]

GrniInv == overtaken \cap Bills = {} => grni = SumOver(Costs) - SumOver(Owings)

\* What receipts cost and what bills owe are whole numbers.
LEMMA CostsAreInt ==
    ASSUME RowsSound
    PROVE  Costs \in [Receipts -> Int] /\ Owings \in [Bills -> Int]
<1>1. ASSUME NEW g \in Receipts PROVE Cost(g) \in Int
  <2>1. CASE receipt[g] = NoReceipt
    BY <2>1 DEF Cost
  <2>2. CASE receipt[g] # NoReceipt
    <3>1. /\ receipt[g].order \in Orders /\ receipt[g].lines \in Deliveries
          /\ order[receipt[g].order].status # "none" /\ Fits(receipt[g].lines, receipt[g].order)
      BY <2>2 DEF RowsSound, ReceiptSound
    <3>2. order[receipt[g].order].lines \in OrderBodies
      BY <3>1 DEF RowsSound, OrderSound
    <3>3. Amount(receipt[g].order, receipt[g].lines) \in Int
      BY <3>1, <3>2, AmountIsNat, DeliveriesAre
    <3> QED
      BY <2>2, <3>3 DEF Cost
  <2> QED
    BY <2>1, <2>2
<1>2. ASSUME NEW b \in Bills PROVE Owed(b) \in Int
  BY PricedIsNat DEF Owed
<1> QED
  BY <1>1, <1>2 DEF Costs, Owings

\* The lines of an order that exists keep their prices, and so do its receipts.
LEMMA AmountStays ==
    ASSUME NEW o, order'[o].lines = order[o].lines, NEW lines
    PROVE  Amount(o, lines)' = Amount(o, lines)
BY DEF Amount

\* A receipt that stays, of an order whose lines stay, costs what it did.
LEMMA CostStays ==
    ASSUME RowsSound, NEW g \in Receipts, receipt'[g] = receipt[g],
           \A o \in Orders : order[o].status # "none" => order'[o].lines = order[o].lines
    PROVE  Cost(g)' = Cost(g)
<1>1. CASE receipt[g] = NoReceipt
  BY <1>1 DEF Cost
<1>2. CASE receipt[g] # NoReceipt
  <2>1. receipt[g].order \in Orders /\ order[receipt[g].order].status # "none"
    BY <1>2 DEF RowsSound, ReceiptSound
  <2>2. PICK o : o = receipt[g].order
    OBVIOUS
  <2>3. PICK lines : lines = receipt[g].lines
    OBVIOUS
  <2>4. Amount(o, lines)' = Amount(o, lines)
    BY <2>1, <2>2, AmountStays
  <2> QED
    BY <1>2, <2>2, <2>3, <2>4 DEF Cost
<1> QED
  BY <1>1, <1>2

\* A bill is priced at what its receipt cost.
LEMMA PricedIsCost ==
    ASSUME RowsSound, NEW b \in Bills, bill[b].status # "none"
    PROVE  Priced(b) = Cost(bill[b].receipt)
BY DEF RowsSound, BillSound, Priced, Cost

\* A bill that stays, with its receipt, owes what it did.
LEMMA OwedStays ==
    ASSUME RowsSound, RowsSound', NEW b \in Bills, bill'[b] = bill[b],
           receipt'[bill[b].receipt] = receipt[bill[b].receipt],
           \A o \in Orders : order[o].status # "none" => order'[o].lines = order[o].lines
    PROVE  Owed(b)' = Owed(b)
<1>1. CASE bill[b].status = "posted"
  <2>1. bill[b].receipt \in Receipts
    BY <1>1 DEF RowsSound, BillSound
  <2>2. Cost(bill[b].receipt)' = Cost(bill[b].receipt)
    <3>1. PICK g \in Receipts : g = bill[b].receipt
      BY <2>1
    <3>2. Cost(g)' = Cost(g)
      BY <3>1, CostStays
    <3> QED
      BY <3>1, <3>2 DEF Cost
  <2>3. Priced(b) = Cost(bill[b].receipt)
    BY <1>1, PricedIsCost
  <2>4. Priced(b)' = Cost(bill[b].receipt)'
    <3>1. receipt'[bill'[b].receipt] # NoReceipt
      BY <1>1 DEF RowsSound, BillSound
    <3> QED
      BY <3>1 DEF Priced, Cost
  <2> QED
    BY <1>1, <2>2, <2>3, <2>4 DEF Owed
<1>2. CASE bill[b].status # "posted"
  BY <1>2 DEF Owed
<1> QED
  BY <1>1, <1>2

\* A step that changes no cost and no debt keeps the account, or a bill is overtaken.
LEMMA GrniStays ==
    ASSUME GrniInv, \A g \in Receipts : Cost(g)' = Cost(g), \A b \in Bills : Owed(b)' = Owed(b),
           overtaken \cap Bills \subseteq overtaken' \cap Bills,
           grni' = grni \/ overtaken' \cap Bills # {}
    PROVE  GrniInv'
<1>1. Costs' = Costs /\ Owings' = Owings
  BY DEF Costs, Owings
<1> QED
  BY <1>1 DEF GrniInv

\* Every step keeps the account of goods received and not invoiced.
LEMMA GrniKept ==
    ASSUME IInv, IInv', GrniInv, [Next]_vars
    PROVE  GrniInv'
<1>1. RowsSound /\ RowsSound' /\ grni \in Int /\ IsFiniteSet(Receipts) /\ IsFiniteSet(Bills)
  BY RowsAssumption DEF IInv, TypeOK
<1>2. /\ Costs \in [Receipts -> Int] /\ Owings \in [Bills -> Int]
      /\ SumOver(Costs) \in Int /\ SumOver(Owings) \in Int
  BY <1>1, CostsAreInt, SumIsInt
<1>3. ASSUME receipt' = receipt, bill' = bill, grni' = grni, overtaken \subseteq overtaken',
             \A o \in Orders : order[o].status # "none" => order'[o].lines = order[o].lines
      PROVE  GrniInv'
  <2>1. \A g \in Receipts : Cost(g)' = Cost(g)
    BY <1>1, <1>3, CostStays
  <2>2. \A b \in Bills : Owed(b)' = Owed(b)
    BY <1>1, <1>3, OwedStays
  <2> QED
    BY <1>3, <2>1, <2>2, GrniStays
<1>4. ASSUME NEW r \in Requests, CommitOrder(r) \/ CommitSetOrder(r)
      PROVE  GrniInv'
  <2>1. PICK o : o = req[r].order
    OBVIOUS
  <2>2. /\ \A x \in Orders \ {o} : order'[x] = order[x]
        /\ order[o].status # "none" => order'[o].lines = order[o].lines
    BY <1>4, <2>1, OrderDoes, SetOrderDoes DEF NoOrder
  <2>3. receipt' = receipt /\ bill' = bill /\ grni' = grni /\ overtaken \subseteq overtaken'
    BY <1>4 DEF CommitOrder, CommitSetOrder, Wrote
  <2> QED
    BY <1>3, <2>2, <2>3
<1>5. ASSUME NEW r \in Requests, CommitReceive(r)
      PROVE  GrniInv'
  <2>1. PICK o : o = req[r].order
    OBVIOUS
  <2>2. PICK g : g = req[r].receipt
    OBVIOUS
  <2>3. PICK lines : lines = req[r].lines
    OBVIOUS
  <2>4. /\ o \in Orders /\ g \in Receipts /\ receipt[g] = NoReceipt
        /\ order[o].status # "none" /\ lines \in Deliveries /\ Fits(lines, o)
        /\ \A x \in Orders \ {o} : order'[x] = order[x]
        /\ order'[o].lines = order[o].lines
        /\ \A x \in Receipts \ {g} : receipt'[x] = receipt[x]
        /\ receipt'[g].order = o /\ receipt'[g].lines = lines /\ receipt'[g] # NoReceipt
    BY <1>5, <2>1, <2>2, <2>3, ReceiveDoes
  <2>5. bill' = bill /\ grni' = grni + Amount(o, lines) /\ overtaken' = overtaken
    BY <1>5, <2>1, <2>3 DEF CommitReceive
  <2>6. \A x \in Orders : order'[x].lines = order[x].lines
    BY <2>4
  <2>7. \A x \in Receipts \ {g} : Cost(x)' = Cost(x)
    BY <1>1, <2>4, <2>6, CostStays
  <2>8. Cost(g) = 0 /\ Cost(g)' = Amount(o, lines)
    <3>1. Amount(o, lines)' = Amount(o, lines)
      BY <2>6, <2>4, AmountStays
    <3> QED
      BY <2>4, <3>1 DEF Cost
  <2>9. \A b \in Bills : Owed(b)' = Owed(b)
    <3> SUFFICES ASSUME NEW b \in Bills PROVE Owed(b)' = Owed(b)
      OBVIOUS
    <3>1. CASE bill[b].status = "none"
      BY <2>5, <3>1 DEF Owed
    <3>2. CASE bill[b].status # "none"
      <4>1. bill[b].receipt # g /\ bill[b].receipt \in Receipts
        BY <1>1, <2>4, <3>2 DEF RowsSound, BillSound
      <4> QED
        BY <1>1, <2>4, <2>5, <2>6, <4>1, OwedStays
    <3> QED
      BY <3>1, <3>2
  <2>10. Owings' = Owings
    BY <2>9 DEF Owings
  <2>11. PICK after : after = Costs'
    OBVIOUS
  <2>12. Amount(o, lines) \in Int
    BY <1>1, <2>4, AmountIsNat, DeliveriesAre DEF RowsSound, OrderSound
  <2>13. /\ after \in [Receipts -> Int] /\ after[g] = Amount(o, lines) /\ Costs[g] = 0
         /\ \A x \in Receipts \ {g} : Costs[x] = after[x]
    BY <1>2, <2>4, <2>7, <2>8, <2>11, <2>12 DEF Costs
  <2>14. SumOver(after) = SumOver(Costs) - Costs[g] + after[g]
    BY <1>1, <1>2, <2>4, <2>13, SumChanges
  <2>15. SumOver(after) = SumOver(Costs) + Amount(o, lines)
    BY <1>2, <2>12, <2>13, <2>14
  <2> QED
    BY <1>1, <1>2, <2>5, <2>10, <2>11, <2>12, <2>15 DEF GrniInv
<1>6. ASSUME NEW r \in Requests, CommitDraftBill(r)
      PROVE  GrniInv'
  <2>1. PICK b : b = req[r].bill
    OBVIOUS
  <2>2. PICK g : g = req[r].receipt
    OBVIOUS
  <2>3. /\ b \in Bills /\ bill[b] = NoBill
        /\ \A x \in Bills \ {b} : bill'[x] = bill[x]
        /\ bill'[b].status = "draft"
    BY <1>6, <2>1, <2>2, DraftBillDoes
  <2>4. /\ order' = order /\ receipt' = receipt /\ grni' = grni
        /\ overtaken \subseteq overtaken'
    BY <1>6 DEF CommitDraftBill, Wrote
  <2>5. \A x \in Receipts : Cost(x)' = Cost(x)
    BY <1>1, <2>4, CostStays
  <2>6. Owed(b)' = Owed(b)
    BY <2>3 DEF Owed, NoBill
  <2>7. \A x \in Bills \ {b} : Owed(x)' = Owed(x)
    BY <1>1, <2>3, <2>4, OwedStays
  <2> QED
    BY <2>4, <2>5, <2>6, <2>7, GrniStays
<1>7. ASSUME NEW r \in Requests, CommitPostBill(r)
      PROVE  GrniInv'
  <2>1. PICK b : b = req[r].bill
    OBVIOUS
  <2>2. PICK o : o = req[r].order
    OBVIOUS
  <2>3. PICK lines : lines = req[r].lines
    OBVIOUS
  <2>4. /\ b \in Bills /\ bill[b].status = "draft"
        /\ o = receipt[bill[b].receipt].order /\ o \in Orders
        /\ lines = receipt[bill[b].receipt].lines
        /\ \A x \in Bills \ {b} : bill'[x] = bill[x]
        /\ bill'[b].status = "posted" /\ bill'[b].receipt = bill[b].receipt
        /\ \A x \in Orders \ {o} : order'[x] = order[x]
        /\ order'[o].lines = order[o].lines
        /\ grni' = grni - Amount(o, lines)
    BY <1>7, <2>1, <2>2, <2>3, PostBillDoes
  <2>5. receipt' = receipt /\ overtaken' = overtaken
    BY <1>7 DEF CommitPostBill
  <2>6. \A x \in Orders : order'[x].lines = order[x].lines
    BY <2>4
  <2>7. \A x \in Receipts : Cost(x)' = Cost(x)
    BY <1>1, <2>5, <2>6, CostStays
  <2>8. \A x \in Bills \ {b} : Owed(x)' = Owed(x)
    BY <1>1, <2>4, <2>5, <2>6, OwedStays
  <2>9. Owed(b) = 0 /\ Owed(b)' = Amount(o, lines)
    <3>1. Amount(o, lines)' = Amount(o, lines)
      BY <2>6, <2>4, AmountStays
    <3> QED
      BY <2>4, <2>5, <3>1 DEF Owed, Priced
  <2>10. Costs' = Costs
    BY <2>7 DEF Costs
  <2>11. PICK after : after = Owings'
    OBVIOUS
  <2>12. Amount(o, lines) \in Int
    <3>1. Priced(b) \in Nat
      BY <1>1, <2>4, PricedIsNat
    <3> QED
      BY <2>4, <3>1 DEF Priced
  <2>13. /\ after \in [Bills -> Int] /\ after[b] = Amount(o, lines) /\ Owings[b] = 0
         /\ \A x \in Bills \ {b} : Owings[x] = after[x]
    <3>1. after = [x \in Bills |-> Owed(x)'] /\ Owings = [x \in Bills |-> Owed(x)]
      BY <2>11 DEF Owings
    <3>2. \A x \in Bills : Owed(x) \in Int
      BY <1>2, <3>1
    <3>3. \A x \in Bills : Owed(x)' = IF x = b THEN Amount(o, lines) ELSE Owed(x)
      BY <2>8, <2>9
    <3>4. \A x \in Bills : Owed(x)' \in Int
      BY <2>12, <3>2, <3>3
    <3>5. b \in Bills
      BY <2>4
    <3> QED
      BY <2>9, <3>1, <3>3, <3>4, <3>5
  <2>14. SumOver(after) = SumOver(Owings) - Owings[b] + after[b]
    <3>1. /\ IsFiniteSet(Bills) /\ b \in Bills
          /\ Owings \in [Bills -> Int] /\ after \in [Bills -> Int]
          /\ \A x \in Bills \ {b} : Owings[x] = after[x]
      BY <1>1, <1>2, <2>4, <2>13
    <3> QED
      BY ONLY <3>1, SumChanges
  <2>15. SumOver(after) = SumOver(Owings) + Amount(o, lines)
    BY <1>2, <2>12, <2>13, <2>14
  <2> QED
    BY <1>1, <1>2, <2>4, <2>5, <2>10, <2>11, <2>12, <2>15 DEF GrniInv
<1>8. ASSUME NEW r \in Requests, CommitCancelBill(r)
      PROVE  GrniInv'
  <2>1. PICK b : b = req[r].bill
    OBVIOUS
  <2>2. /\ b \in Bills /\ bill[b].status # "none"
        /\ \A x \in Bills \ {b} : bill'[x] = bill[x]
        /\ bill'[b].status = "cancelled"
        /\ grni' = grni + Mirrored(r)
    BY <1>8, <2>1, CancelBillDoes
  <2>3. order' = order /\ receipt' = receipt /\ Wrote(b, bill[b].status = req[r].was)
    BY <1>8, <2>1 DEF CommitCancelBill
  <2>4. \A x \in Receipts : Cost(x)' = Cost(x)
    BY <1>1, <2>3, CostStays
  <2>5. \A x \in Bills \ {b} : Owed(x)' = Owed(x)
    BY <1>1, <2>2, <2>3, OwedStays
  <2> SUFFICES ASSUME overtaken' \cap Bills = {}
               PROVE  grni' = SumOver(Costs') - SumOver(Owings')
    BY DEF GrniInv
  <2>6. bill[b].status = req[r].was /\ overtaken' = overtaken
    BY <2>2, <2>3 DEF Wrote
  <2>7. grni = SumOver(Costs) - SumOver(Owings)
    BY <2>6 DEF GrniInv
  <2>8. Mirrored(r) = Owed(b) /\ Owed(b)' = 0
    BY <2>1, <2>2, <2>6 DEF Mirrored, Owed
  <2>9. Costs' = Costs
    BY <2>4 DEF Costs
  <2>10. PICK after : after = Owings'
    OBVIOUS
  <2>11. /\ after \in [Bills -> Int] /\ after[b] = 0 /\ Owings[b] = Owed(b) /\ Owed(b) \in Int
         /\ \A x \in Bills \ {b} : Owings[x] = after[x]
    BY <1>2, <2>2, <2>5, <2>8, <2>10 DEF Owings
  <2>12. SumOver(after) = SumOver(Owings) - Owings[b] + after[b]
    BY <1>1, <1>2, <2>2, <2>11, SumChanges
  <2>13. SumOver(after) = SumOver(Owings) - Owed(b)
    BY <1>2, <2>11, <2>12
  <2> QED
    BY <1>1, <1>2, <2>2, <2>7, <2>8, <2>9, <2>10, <2>11, <2>13
<1>9. ASSUME NEW r \in Requests, CommitDecide(r)
      PROVE  GrniInv'
  BY <1>3, <1>9 DEF CommitDecide, Wrote
<1>10. ASSUME NEW p \in Requisitions, CreateRequisition(p)
       PROVE  GrniInv'
  BY <1>3, <1>10 DEF CreateRequisition
<1> QED
  BY <1>3, <1>4, <1>5, <1>6, <1>7, <1>8, <1>9, <1>10, RowSteps

\* What is owed for goods received and not invoiced is the price of the receipts less that of
\* the posted bills drawn up from them, unless a bill was cancelled from a row that had changed
\* (receive, BillsService.postIn, BillsService.cancel).
THEOREM GrniTold == Spec => []GrniAgrees
<1>1. ASSUME Init PROVE GrniInv
  <2>1. /\ \A g \in Receipts : Cost(g) = 0
        /\ \A b \in Bills : Owed(b) = 0
        /\ grni = 0
    BY <1>1 DEF Init, Cost, Owed, NoBill
  <2>2. /\ Costs \in [Receipts -> Int] /\ Owings \in [Bills -> Int]
        /\ \A g \in Receipts : Costs[g] = 0
        /\ \A b \in Bills : Owings[b] = 0
    BY <2>1 DEF Costs, Owings
  <2>3. SumOver(Costs) = 0 /\ SumOver(Owings) = 0
    BY <2>2, RowsAssumption, SumOfZeros
  <2> QED
    BY <2>1, <2>3 DEF GrniInv
<1>2. Spec => []GrniInv
  <2>1. IInv /\ IInv' /\ GrniInv /\ [Next]_vars => GrniInv'
    BY GrniKept
  <2> QED
    BY <1>1, <2>1, Invariance, PTL DEF Spec
<1>3. GrniInv => GrniAgrees
  BY DEF GrniInv, GrniAgrees, Costs, Owings, Cost, Owed
<1> QED
  BY <1>2, <1>3, PTL

================================================================================
