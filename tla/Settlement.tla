------------------------------ MODULE Settlement ------------------------------
(***************************************************************************)
(* Invoices, bills and the payments that settle them                       *)
(* (finance/documents.service.ts), with the part of the posting engine     *)
(* (ledger/posting.service.ts) and of the numbering service they rely on.  *)
(*                                                                         *)
(* An invoice and a bill are the same machine with debit and credit        *)
(* swapped, so both are a "document"; the owner of a document is one party *)
(* on one side of the ledger (a customer's receivables, a vendor's         *)
(* payables).  A document is created once, posted once and posts one       *)
(* journal entry, and so does a payment: entry[s] is the entry of source s *)
(* and the number of mirror entries posted against it.                     *)
(*                                                                         *)
(* Every request runs as the code does: reads before the transaction, one  *)
(* step for each row lock it takes, one commit.  doc, pay and entry hold   *)
(* committed rows only.                                                    *)
(*                                                                         *)
(* The tables keep whole paisas and a request may name fractions of one:   *)
(* a payment is checked against what it was asked for and stored rounded.  *)
(*                                                                         *)
(* An operator Mut... is a defective variant of the definition after it,   *)
(* which a run must tell from the real one; no other definition uses it.   *)
(***************************************************************************)
EXTENDS Integers, FiniteSets, Sequences, Sums

CONSTANTS Docs,        \* invoices and bills
          Pays,        \* receipts and payments
          Owners,      \* a party on one side of the ledger
          Owner,       \* Owner[d]: whose document d is
          Side,        \* Side[o]: "in" for receivables, "out" for payables
          Paisa,       \* how many of the smallest amount one may name make a paisa
          Totals,      \* totals of the documents
          Amounts,     \* amounts that payments carry and allocate
          Requests,
          None         \* no value

ASSUME OwnersAssumption ==
    /\ Owner \in [Docs -> Owners]
    /\ Side \in [Owners -> {"in", "out"}]

\* money.ts: m2 rounds half up to whole paisas, the scale of numeric(18,2).
m2(n) == Paisa * ((2 * n + Paisa) \div (2 * Paisa))

\* The amounts a column can hold.
Stored == {n \in Int : m2(n) = n}

ASSUME PaisaAssumption == Paisa \in Nat \ {0}
ASSUME AmountsAssumption ==
    /\ Totals \subseteq Nat /\ \A total \in Totals : m2(total) = total
    /\ Amounts \subseteq Nat
ASSUME SourcesAssumption ==
    /\ IsFiniteSet(Docs) /\ IsFiniteSet(Pays)
    /\ Docs \cap Pays = {}
    /\ None \notin Docs \cup Pays

Sources == Docs \cup Pays

\* The sequence rows of the numbering service that these requests lock.
SequenceRows == {"invoice", "bill", "receipt", "payment", "journal"}

DocSequence(o) == IF Side[o] = "in" THEN "invoice" ELSE "bill"
PaySequence(o) == IF Side[o] = "in" THEN "receipt" ELSE "payment"

VARIABLES doc,      \* doc[d]: the row of invoices or bills
          pay,      \* pay[p]: the row of payments with its allocations
          entry,    \* entry[s]: the journal entry of s and its mirrors
          req,      \* req[r]: what request r is doing
          locks,    \* row locks held by open transactions
          stale,    \* sources cancelled from a row that had changed since it
                    \* was read, and documents brought back once cancelled
          filled    \* documents whose last payment fell short of the total by
                    \* less than what rounding added to it

\* stale and filled are history variables: nothing in the code reads them.
vars == <<doc, pay, entry, req, locks, stale, filled>>

L == INSTANCE RowLocks WITH Rows <- Docs \cup SequenceRows

-------------------------------------------------------------------------------
(* Rows                                                                    *)

OpenStatus == {"posted", "partially_paid"}
LiveStatus == OpenStatus \cup {"paid"}
DocStatus  == {"none", "draft", "cancelled"} \cup LiveStatus

\* je: journalEntryId is set.  docs: the documents that the payment's rows of
\* payment_allocations name, were it for 0.00; a request's row is not rounded.
DocRow == [status : DocStatus, total : Nat, paid : Int, je : BOOLEAN]
PayRow == [status : {"none", "posted", "cancelled"}, owner : Owners \cup {None},
           gross : Nat, alloc : [Docs -> Nat], docs : SUBSET Docs]
Entry  == [status : {"none", "posted", "reversed"}, mirrors : Nat]

NoAlloc == [d \in Docs |-> 0]
NoDoc   == [status |-> "none", total |-> 0, paid |-> 0, je |-> FALSE]
Draft(total) == [status |-> "draft", total |-> total, paid |-> 0, je |-> FALSE]
NoPay   == [status |-> "none", owner |-> None, gross |-> 0, alloc |-> NoAlloc, docs |-> {}]
NoEntry == [status |-> "none", mirrors |-> 0]

Allocated(alloc) == {d \in Docs : alloc[d] > 0}

\* The orders in which a set of documents may be listed.
Orders(S) == {s \in [1..Cardinality(S) -> S] : Range(s) = S}

-------------------------------------------------------------------------------
(* Requests                                                                *)

Operations == {"create", "post", "cancel", "pay", "cancelPay"}
ASSUME NoneAssumption == None \notin Operations
Steps == {"idle", "rows", "number", "entry", "journal", "commit"}

\* src: the document or payment; row: the row the request carries (what a
\* create inserts, what a cancel read before its transaction); todo: the
\* documents still to lock, in order; andPost: create(dto, post)'s flag.
Request == [step : Steps, op : Operations \cup {None}, src : Sources \cup {None},
            row : DocRow \cup PayRow \cup {None}, todo : Seq(Docs),
            andPost : BOOLEAN]

Idle == [step |-> "idle", op |-> None, src |-> None, row |-> None,
         todo |-> <<>>, andPost |-> FALSE]

Begin(r, step, op, src, row, todo, andPost) ==
    /\ req[r] = Idle
    /\ req' = [req EXCEPT ![r] = [step |-> step, op |-> op, src |-> src,
                                  row |-> row, todo |-> todo,
                                  andPost |-> andPost]]
    /\ UNCHANGED <<doc, pay, entry, locks, stale, filled>>

\* A new row's id is a fresh one: no request is inserting it.
Fresh(s) == \A q \in Requests : req[q].src # s

At(r, op, step) == req[r].op = op /\ req[r].step = step

Goto(r, step) == req' = [req EXCEPT ![r].step = step]

Advance(r, step, todo) ==
    req' = [req EXCEPT ![r] = [step |-> step, op |-> @.op, src |-> @.src, row |-> @.row,
                               todo |-> todo, andPost |-> @.andPost]]

Rollback(r) ==
    /\ req' = [req EXCEPT ![r] = Idle]
    /\ L!EndTransaction(r)
    /\ UNCHANGED <<doc, pay, entry, stale, filled>>

Commit(r) ==
    /\ req' = [req EXCEPT ![r] = Idle]
    /\ L!EndTransaction(r)

-------------------------------------------------------------------------------
(* Creating and posting a document                                         *)

\* InvoicesService.create, BillsService.create: one transaction creates the
\* draft and, with andPost, posts it.
BeginCreate(r, d, total, andPost) ==
    /\ doc[d] = NoDoc /\ Fresh(d)
    /\ Begin(r, "number", "create", d, Draft(total), <<>>, andPost)

\* InvoicesService.post, BillsService.post.
BeginPost(r, d) ==
    /\ doc[d].status # "none"
    /\ Begin(r, "rows", "post", d, None, <<d>>, FALSE)

\* numbering.next for the document's or the payment's own sequence.
TakeNumber(r) ==
    /\ req[r].step = "number"
    /\ \/ /\ req[r].op = "create"
          /\ L!Lock(r, DocSequence(Owner[req[r].src]))
          /\ Goto(r, IF req[r].andPost THEN "journal" ELSE "commit")
       \/ /\ req[r].op = "pay"
          /\ L!Lock(r, PaySequence(req[r].row.owner))
          /\ Goto(r, "journal")
    /\ UNCHANGED <<doc, pay, entry, stale, filled>>

\* normalizeLines drops lines that round to nothing and wants two.
Postable(r) == req[r].op = "pay" => m2(req[r].row.gross) > 0

\* posting.post: the journal's sequence row, held until commit.
TakeJournalNumber(r) ==
    /\ req[r].step = "journal" /\ Postable(r)
    /\ L!Lock(r, "journal")
    /\ Goto(r, "commit")
    /\ UNCHANGED <<doc, pay, entry, stale, filled>>

\* postIn's writes: the document's row and the entry of the source.
PostedRow(row) == [status |-> "posted", total |-> row.total, paid |-> row.paid, je |-> TRUE]
Posted(s) == [entry EXCEPT ![s].status = "posted"]

CommitCreate(r) ==
    LET d == req[r].src  new == req[r].row IN
    /\ At(r, "create", "commit")
    /\ IF req[r].andPost
       THEN /\ doc' = [doc EXCEPT ![d] = PostedRow(new)]
            /\ entry' = Posted(d)
       ELSE /\ doc' = [doc EXCEPT ![d] = new]
            /\ UNCHANGED entry
    /\ Commit(r)
    /\ UNCHANGED <<pay, stale, filled>>

CommitPost(r) ==
    LET d == req[r].src IN
    /\ At(r, "post", "commit")
    /\ doc' = [doc EXCEPT ![d] = PostedRow(doc[d])]
    /\ entry' = Posted(d)
    /\ Commit(r)
    /\ UNCHANGED <<pay, stale, filled>>

-------------------------------------------------------------------------------
(* Cancelling a document                                                   *)

\* The service reads the row before its transaction and never again.
BeginCancel(r, d) ==
    /\ doc[d].status # "none"
    /\ doc[d].paid <= 0
    /\ Begin(r, IF doc[d].je THEN "entry" ELSE "commit", "cancel", d, doc[d], <<>>, FALSE)

MutReadEntry(r) ==
    /\ req[r].step = "entry"
    /\ Goto(r, "journal")
    /\ UNCHANGED <<doc, pay, entry, locks, stale, filled>>

\* posting.reverse reads the entry without a lock and goes on only if it is
\* posted; the journal's number is taken after that.
ReadEntry(r) ==
    /\ req[r].step = "entry"
    /\ entry[req[r].src].status = "posted"
    /\ Goto(r, "journal")
    /\ UNCHANGED <<doc, pay, entry, locks, stale, filled>>

\* posting.reverse's writes: the mirror entry, and the original reversed.
Reversed(s) ==
    [entry EXCEPT ![s] = [status |-> "reversed", mirrors |-> @.mirrors + 1]]

\* The last statement updates the document whatever its row is by then; only
\* that update needs the document's row.
CommitCancel(r) ==
    LET d == req[r].src  read == req[r].row IN
    /\ At(r, "cancel", "commit")
    /\ L!Available(r, d)
    /\ doc' = [doc EXCEPT ![d].status = "cancelled"]
    /\ entry' = IF read.je THEN Reversed(d) ELSE entry
    /\ stale' = IF doc[d] = read THEN stale ELSE stale \cup {d}
    /\ Commit(r)
    /\ UNCHANGED <<pay, filled>>

-------------------------------------------------------------------------------
(* Payments                                                                *)

\* PaymentsService.create up to its first lock: the allocations may not
\* exceed the payment.
BeginPay(r, p, owner, gross, alloc, order) ==
    /\ pay[p] = NoPay /\ Fresh(p)
    /\ gross > 0
    /\ SumOver(alloc) <= gross
    /\ Begin(r, IF order = <<>> THEN "number" ELSE "rows", "pay", p,
             [status |-> "posted", owner |-> owner, gross |-> gross, alloc |-> alloc,
              docs |-> Allocated(alloc)],
             order, FALSE)

\* PaymentsService.cancel reads the payment and its allocations before its
\* transaction; their order is the one the query returns.  An allocation of
\* 0.00 is one of them.
BeginCancelPay(r, p, order) ==
    /\ pay[p].status = "posted"
    /\ Begin(r, IF order = <<>> THEN "entry" ELSE "rows", "cancelPay", p, pay[p],
             order, FALSE)

MutAllocatableStatus(d, row) ==
    /\ Owner[d] = row.owner
    /\ row.alloc[d] <= doc[d].total - doc[d].paid

MutAllocatableRounded(d, row) ==
    /\ Owner[d] = row.owner
    /\ doc[d].status \in OpenStatus
    /\ row.alloc[d] < doc[d].total - doc[d].paid + Paisa

\* The checks on a document whose row was just locked.
Allocatable(d, row) ==
    /\ Owner[d] = row.owner
    /\ doc[d].status \in OpenStatus
    /\ row.alloc[d] <= doc[d].total - doc[d].paid

MayUse(r, d) ==
    /\ req[r].op = "post" => doc[d].status = "draft"
    /\ req[r].op = "pay"  => Allocatable(d, req[r].row)

\* The step that follows the last document.
AfterRows == [post |-> "journal", pay |-> "number", cancelPay |-> "entry"]

\* SELECT ... FOR UPDATE of the next document.
LockDocument(r) ==
    /\ req[r].step = "rows"
    /\ LET d == Head(req[r].todo)  rest == Tail(req[r].todo) IN
       /\ L!Lock(r, d)
       /\ MayUse(r, d)
       /\ Advance(r, IF rest = <<>> THEN AfterRows[req[r].op] ELSE "rows", rest)
    /\ UNCHANGED <<doc, pay, entry, stale, filled>>

MutCredited(d, amount) ==
    LET paid == doc[d].paid + amount IN
    [status |-> IF paid = doc[d].total THEN "paid" ELSE "partially_paid",
     total |-> doc[d].total, paid |-> paid, je |-> doc[d].je]

\* The row of d once amount more of it is paid: the status is decided before
\* the sum is rounded.
Credited(d, amount) ==
    LET paid == doc[d].paid + amount IN
    [status |-> IF paid = doc[d].total THEN "paid" ELSE "partially_paid",
     total |-> doc[d].total, paid |-> m2(paid), je |-> doc[d].je]

\* Rounding pays the rest of d.
Fills(d, amount) ==
    LET paid == doc[d].paid + amount IN
    paid # doc[d].total /\ m2(paid) = doc[d].total

\* The row of d once amount less of it is paid.
Uncredited(d, amount) ==
    LET paid == doc[d].paid - amount IN
    [status |-> IF paid = 0 THEN "posted" ELSE "partially_paid",
     total |-> doc[d].total, paid |-> m2(paid), je |-> doc[d].je]

MutRounded(row) ==
    [status |-> row.status, owner |-> row.owner, gross |-> m2(row.gross),
     alloc |-> [d \in Docs |-> Paisa * (row.alloc[d] \div Paisa)], docs |-> row.docs]

\* The rows of payments and payment_allocations that row becomes.
Rounded(row) ==
    [status |-> row.status, owner |-> row.owner, gross |-> m2(row.gross),
     alloc |-> [d \in Docs |-> m2(row.alloc[d])], docs |-> row.docs]

CommitPay(r) ==
    LET p == req[r].src  new == req[r].row IN
    /\ At(r, "pay", "commit")
    /\ pay' = [pay EXCEPT ![p] = Rounded(new)]
    /\ doc' = [d \in Docs |-> IF d \in new.docs THEN Credited(d, new.alloc[d]) ELSE doc[d]]
    /\ filled' = (filled \ new.docs) \cup {d \in new.docs : Fills(d, new.alloc[d])}
    /\ entry' = Posted(p)
    /\ Commit(r)
    /\ UNCHANGED stale

CommitCancelPay(r) ==
    LET p == req[r].src  read == req[r].row IN
    /\ At(r, "cancelPay", "commit")
    /\ pay' = [pay EXCEPT ![p].status = "cancelled"]
    /\ doc' = [d \in Docs |-> IF d \in read.docs THEN Uncredited(d, read.alloc[d]) ELSE doc[d]]
    /\ entry' = Reversed(p)
    /\ stale' = (IF pay[p] = read THEN stale ELSE stale \cup {p})
                \cup {d \in read.docs : doc[d].status = "cancelled"}
    /\ filled' = filled \ read.docs
    /\ Commit(r)

-------------------------------------------------------------------------------
(* Requests that end without a commit                                      *)

\* A check inside the transaction refuses the row it reads.
Refuse(r) ==
    /\ \/ /\ req[r].step = "rows"
          /\ L!Available(r, Head(req[r].todo))
          /\ ~MayUse(r, Head(req[r].todo))
       \/ /\ req[r].step = "entry"
          /\ entry[req[r].src].status # "posted"
       \/ /\ req[r].step = "journal"
          /\ ~Postable(r)
    /\ Rollback(r)

\* Anything else that throws or kills the request before its commit: a
\* locked period, a missing account mapping, a lost connection, a restart.
Fail(r) ==
    /\ req[r] # Idle
    /\ Rollback(r)

\* A deadlock detector that does not see the documents' rows.
MutWaits ==
    [r \in Requests |->
        CASE req[r].step = "journal" /\ Postable(r) -> {"journal"}
          [] req[r].step = "number"  -> {IF req[r].op = "create"
                                         THEN DocSequence(Owner[req[r].src])
                                         ELSE PaySequence(req[r].row.owner)}
          [] At(r, "cancel", "commit") -> {req[r].src}
          [] OTHER -> {}]

\* The row r needs next, as a set of at most one row.
Waits ==
    [r \in Requests |->
        CASE req[r].step = "rows"    -> {Head(req[r].todo)}
          [] req[r].step = "journal" /\ Postable(r) -> {"journal"}
          [] req[r].step = "number"  -> {IF req[r].op = "create"
                                         THEN DocSequence(Owner[req[r].src])
                                         ELSE PaySequence(req[r].row.owner)}
          [] At(r, "cancel", "commit") -> {req[r].src}
          [] OTHER -> {}]

DeadlockVictim(r) ==
    /\ L!InDeadlock(r, Waits)
    /\ Rollback(r)

-------------------------------------------------------------------------------
(* The specification                                                       *)

Init ==
    /\ doc = [d \in Docs |-> NoDoc]
    /\ pay = [p \in Pays |-> NoPay]
    /\ entry = [s \in Sources |-> NoEntry]
    /\ req = [r \in Requests |-> Idle]
    /\ L!NoLocks
    /\ stale = {} /\ filled = {}

\* What may begin with documents of D and amounts of A.
StartWith(r, D, A) ==
    \/ \E d \in D, total \in Totals, andPost \in BOOLEAN :
           BeginCreate(r, d, total, andPost)
    \/ \E d \in D : BeginPost(r, d)
    \/ \E d \in D : BeginCancel(r, d)
    \/ \E p \in Pays, owner \in Owners, gross \in A, alloc \in [Docs -> A \cup {0}] :
           /\ Allocated(alloc) \subseteq D
           /\ \E order \in Orders(Allocated(alloc)) :
                 BeginPay(r, p, owner, gross, alloc, order)
    \/ \E p \in Pays : \E order \in Orders(pay[p].docs) :
           BeginCancelPay(r, p, order)

Start(r) == StartWith(r, Docs, Amounts)

Proceed(r) ==
    \/ LockDocument(r) \/ TakeNumber(r) \/ ReadEntry(r) \/ TakeJournalNumber(r)
    \/ CommitCreate(r) \/ CommitPost(r) \/ CommitCancel(r)
    \/ CommitPay(r) \/ CommitCancelPay(r)
    \/ Refuse(r)

Next == \E r \in Requests : Start(r) \/ Proceed(r) \/ Fail(r) \/ DeadlockVictim(r)

Spec == Init /\ [][Next]_vars

\* A running request goes on: a waiter is granted its row in turn, and the
\* deadlock detector breaks every circle of waiters.
Fairness ==
    \A r \in Requests : SF_vars(Proceed(r)) /\ WF_vars(DeadlockVictim(r))

FairSpec == Spec /\ Fairness

-------------------------------------------------------------------------------
(* Properties                                                              *)

\* Every variable holds rows of its table.
TypeOK ==
    /\ doc \in [Docs -> DocRow]
    /\ pay \in [Pays -> PayRow]
    /\ entry \in [Sources -> Entry]
    /\ req \in [Requests -> Request]
    /\ L!LocksTypeOK
    /\ stale \subseteq Sources /\ filled \subseteq Docs

\* An allocation of d was so small that it is stored as 0.00.
RoundedAway(d) == \E p \in Pays : d \in pay[p].docs /\ pay[p].alloc[d] = 0

\* paidAmount, which every payment and cancellation reads, changes, rounds and
\* writes back, is what the allocations of the posted payments add up to as
\* they are stored: no update is lost, no payment is taken back twice and
\* rounding never parts the two.  A partially paid document is paid in part,
\* unless an allocation of it was rounded to nothing.
PaidIsAllocated ==
    \A d \in Docs :
        /\ doc[d].paid = SumOver([p \in Pays |-> IF pay[p].status = "posted"
                                                 THEN pay[p].alloc[d] ELSE 0])
        /\ doc[d].status = "partially_paid" => doc[d].paid > 0 \/ RoundedAway(d)

\* A document is never paid beyond its total, rounding included, and its
\* status agrees with its paidAmount: nothing is paid before the first
\* allocation, all of the total when it is "paid", not all of it when it is
\* "partially_paid".  Only where rounding has paid the rest, or an allocation
\* of nothing was taken back, does a partially paid document owe nothing.
StatusTellsPaid ==
    \A d \in Docs :
        /\ doc[d].paid <= doc[d].total
        /\ doc[d].status \in {"none", "draft", "posted"} => doc[d].paid = 0
        /\ doc[d].status = "partially_paid" /\ doc[d].paid = doc[d].total =>
              d \in filled \/ RoundedAway(d)
        /\ doc[d].status = "paid" => doc[d].paid = doc[d].total

\* A source keeps exactly one live journal entry while it is posted and
\* exactly one mirror once it is cancelled, unless it was cancelled from a
\* row that had changed since the request read it, or brought back since.
EntryMatchesSource ==
    /\ \A d \in Docs \ stale :
          /\ doc[d].status \in {"none", "draft"} => entry[d] = NoEntry
          /\ doc[d].status \in LiveStatus => entry[d] = [status |-> "posted", mirrors |-> 0]
          /\ doc[d].status = "cancelled" =>
                /\ doc[d].paid = 0
                /\ entry[d] \in {NoEntry, [status |-> "reversed", mirrors |-> 1]}
    /\ \A p \in Pays \ stale :
          entry[p] = CASE pay[p].status = "none"      -> NoEntry
                       [] pay[p].status = "posted"    -> [status |-> "posted", mirrors |-> 0]
                       [] pay[p].status = "cancelled" -> [status |-> "reversed", mirrors |-> 1]

\* What the entry of a source and its mirrors leave on the control account.
Balance(s, amount) ==
    IF entry[s].status = "none" THEN 0 ELSE amount - amount * entry[s].mirrors

\* ReportsService.aging: what is outstanding.
Aging(o) == SumOver([d \in Docs |-> IF Owner[d] = o /\ doc[d].status \in OpenStatus
                                    THEN doc[d].total - doc[d].paid ELSE 0])

\* The receivables and payables control account agrees with the ageing report:
\* what is outstanding, less what is paid on account.
ControlAccountAgrees ==
    stale = {} =>
        \A o \in Owners :
            LET From(p) == pay[p].owner = o IN
            SumOver([d \in Docs |-> IF Owner[d] = o THEN Balance(d, doc[d].total) ELSE 0])
          - SumOver([p \in Pays |-> IF From(p) THEN Balance(p, pay[p].gross) ELSE 0])
          = Aging(o)
          - SumOver([p \in Pays |-> IF From(p) /\ pay[p].status = "posted"
                                    THEN pay[p].gross - SumOver(pay[p].alloc) ELSE 0])

\* Every request ends: nobody waits for a row for ever.
RequestsEnd == \A r \in Requests : (req[r] # Idle) ~> (req[r] = Idle)

================================================================================
