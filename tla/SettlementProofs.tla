--------------------------- MODULE SettlementProofs ---------------------------
(***************************************************************************)
(* Proofs about Settlement, for every set of documents, payments, owners   *)
(* and requests.  The row locks are what makes the settlement of documents *)
(* safe, so the inductive invariant says, for each kind of request, which  *)
(* rows it holds and what it knows of them while it holds them.            *)
(*                                                                         *)
(* The last parts are about Ventures, for any investors, cases, quotations *)
(* and requests.  Nothing is locked there: InvestInv, CaseInv and QuoteInv *)
(* say what a request still knows, when it writes, of what it has read.    *)
(***************************************************************************)
EXTENDS Settlement, Ventures, SumTheorems

(***************************************************************************)
(* Rounding: whole paisas are left alone, and rounding a sum of which one  *)
(* part is whole rounds the other part.                                    *)
(***************************************************************************)
LEMMA Quotient ==
    ASSUME NEW x \in Int, NEW y \in Nat \ {0}
    PROVE  x \div y \in Int /\ y * (x \div y) <= x /\ x < y * (x \div y) + y
  BY SMT

\* A larger factor makes a larger product.
LEMMA LessTimes ==
    ASSUME NEW y \in Nat, NEW a \in Int, NEW b \in Int, a < b
    PROVE  y * a + y <= y * b
<1>1. PICK n \in Nat : b = a + 1 + n
  <2>1. b - a - 1 \in Nat /\ b = a + 1 + (b - a - 1)
    OBVIOUS
  <2> QED
    BY <2>1
<1>2. y * b = y * a + y + y * n
  BY <1>1, SMT
<1>3. y * n \in Nat /\ y * a \in Int
  BY <1>1, SMT
<1> QED
  BY <1>2, <1>3

\* A quotient is the number whose multiple is just below.
LEMMA QuotientIs ==
    ASSUME NEW x \in Int, NEW y \in Nat \ {0}, NEW k \in Int, y * k <= x, x < y * k + y
    PROVE  x \div y = k
<1>1. PICK c \in Int : c = x \div y /\ y * c <= x /\ x < y * c + y
  BY Quotient
<1>2. y * c \in Int /\ y * k \in Int
  BY SMT
<1>3. ~(c < k)
  BY <1>1, <1>2, LessTimes
<1>4. ~(k < c)
  BY <1>1, <1>2, LessTimes
<1> QED
  BY <1>1, <1>3, <1>4

\* m2 gives a multiple of a paisa, within half a paisa.
LEMMA Multiples ==
    ASSUME NEW n \in Int
    PROVE  \E k \in Int : m2(n) = Paisa * k /\ 2 * (Paisa * k) <= 2 * n + Paisa
                          /\ 2 * n < 2 * (Paisa * k) + Paisa
<1> DEFINE x == 2 * n + Paisa
           k == x \div (2 * Paisa)
<1>1. x \in Int /\ 2 * Paisa \in Nat \ {0} /\ Paisa \in Nat
  BY PaisaAssumption
<1>2. k \in Int /\ (2 * Paisa) * k <= x /\ x < (2 * Paisa) * k + 2 * Paisa
  BY <1>1, Quotient
<1>3. m2(n) = Paisa * k
  BY DEF m2
<1> HIDE DEF k
<1>4. (2 * Paisa) * k = 2 * (Paisa * k) /\ Paisa * k \in Int
  BY <1>1, <1>2, SMT
<1> QED
  BY <1>1, <1>2, <1>3, <1>4

\* And it is the only such multiple.
LEMMA NearestMultiple ==
    ASSUME NEW n \in Int, NEW k \in Int, 2 * (Paisa * k) <= 2 * n + Paisa,
           2 * n < 2 * (Paisa * k) + Paisa
    PROVE  m2(n) = Paisa * k
<1>1. 2 * n + Paisa \in Int /\ 2 * Paisa \in Nat \ {0} /\ Paisa \in Nat
  BY PaisaAssumption
<1>2. (2 * Paisa) * k = 2 * (Paisa * k) /\ Paisa * k \in Int
  BY <1>1, SMT
<1>3. (2 * n + Paisa) \div (2 * Paisa) = k
  BY <1>1, <1>2, QuotientIs
<1> QED
  BY <1>3 DEF m2

\* What is stored is a multiple of a paisa, and a multiple can be stored.
LEMMA StoredIsMultiple ==
    /\ \A n \in Stored : n \in Int /\ \E k \in Int : n = Paisa * k
    /\ \A k \in Int : Paisa * k \in Stored
<1>1. ASSUME NEW n \in Stored PROVE n \in Int /\ \E k \in Int : n = Paisa * k
  <2>1. n \in Int /\ m2(n) = n
    BY DEF Stored
  <2> QED
    BY <2>1, Multiples
<1>2. ASSUME NEW k \in Int PROVE Paisa * k \in Stored
  <2>1. Paisa * k \in Int /\ Paisa \in Nat \ {0}
    BY PaisaAssumption, SMT
  <2>2. PICK n \in Int : n = Paisa * k
    BY <2>1
  <2>3. 2 * (Paisa * k) <= 2 * n + Paisa /\ 2 * n < 2 * (Paisa * k) + Paisa
    BY <2>1, <2>2
  <2>4. m2(Paisa * k) = Paisa * k
    BY <2>2, <2>3, NearestMultiple
  <2> QED
    BY <2>1, <2>4 DEF Stored
<1> QED
  BY <1>1, <1>2

\* Rounding a whole amount and a part of one rounds the part.
LEMMA RoundSum ==
    ASSUME NEW w \in Stored, NEW n \in Int
    PROVE  m2(w + n) = w + m2(n) /\ w + m2(n) \in Stored /\ m2(n) \in Stored
<1>1. PICK a \in Int : w = Paisa * a
  BY StoredIsMultiple
<1>2. PICK b \in Int : m2(n) = Paisa * b /\ 2 * (Paisa * b) <= 2 * n + Paisa
                       /\ 2 * n < 2 * (Paisa * b) + Paisa
  BY Multiples
<1>3. Paisa * a \in Int /\ Paisa * b \in Int /\ Paisa * (a + b) = Paisa * a + Paisa * b
      /\ Paisa \in Nat
  BY PaisaAssumption, SMT
<1>4. m2(w + n) = Paisa * (a + b)
  <2>1. /\ w + n \in Int /\ a + b \in Int
        /\ 2 * (Paisa * (a + b)) <= 2 * (w + n) + Paisa
        /\ 2 * (w + n) < 2 * (Paisa * (a + b)) + Paisa
    BY <1>1, <1>2, <1>3
  <2> QED
    BY <2>1, NearestMultiple
<1>5. w + m2(n) = Paisa * (a + b) /\ a + b \in Int
  BY <1>1, <1>2, <1>3
<1>6. w + m2(n) \in Stored /\ m2(n) \in Stored
  BY <1>2, <1>5, StoredIsMultiple
<1> QED
  BY <1>4, <1>5, <1>6

\* Rounding takes nothing below zero, nor above a whole amount it was within.
LEMMA RoundBounds ==
    ASSUME NEW n \in Nat
    PROVE  /\ m2(n) \in Nat
           /\ \A w \in Stored : n <= w => m2(n) <= w
<1>1. PICK k \in Int : m2(n) = Paisa * k /\ 2 * (Paisa * k) <= 2 * n + Paisa
                       /\ 2 * n < 2 * (Paisa * k) + Paisa
  BY Multiples
<1>2. Paisa \in Nat \ {0} /\ Paisa * k \in Int
  BY PaisaAssumption, SMT
<1>3. m2(n) \in Nat
  <2>1. ~(k < 0)
    <3>1. k < 0 => Paisa * k + Paisa <= Paisa * 0
      BY <1>2, LessTimes
    <3>2. Paisa * 0 = 0
      BY <1>2
    <3> QED
      BY <1>1, <1>2, <3>1, <3>2
  <2>2. k \in Nat
    BY <2>1
  <2> QED
    BY <1>1, <1>2, <2>2, SMT
<1>4. ASSUME NEW w \in Stored, n <= w PROVE m2(n) <= w
  <2>1. PICK a \in Int : w = Paisa * a /\ w \in Int
    BY StoredIsMultiple
  <2>2. a < k => w + Paisa <= Paisa * k
    BY <1>2, <2>1, LessTimes
  <2>3. ~(a < k)
    BY <1>1, <1>2, <1>4, <2>1, <2>2
  <2>4. k < a => Paisa * k + Paisa <= w
    BY <1>2, <2>1, LessTimes
  <2> QED
    BY <1>1, <1>2, <2>1, <2>3, <2>4
<1> QED
  BY <1>3, <1>4

\* Whole amounts: nothing is one, and so are their sums and differences.
LEMMA StoredAmounts ==
    /\ 0 \in Stored
    /\ \A v \in Stored, w \in Stored :
          v + w \in Stored /\ v - w \in Stored /\ m2(v + w) = v + w /\ m2(v - w) = v - w
<1>1. 0 \in Stored
  <2>1. Paisa * 0 = 0
    BY PaisaAssumption
  <2> QED
    BY <2>1, StoredIsMultiple
<1>2. ASSUME NEW v \in Stored, NEW w \in Stored
      PROVE  v + w \in Stored /\ v - w \in Stored
  <2>1. PICK a \in Int, b \in Int : v = Paisa * a /\ w = Paisa * b
    BY StoredIsMultiple
  <2>2. v + w = Paisa * (a + b) /\ v - w = Paisa * (a - b) /\ a + b \in Int /\ a - b \in Int
    BY <2>1, PaisaAssumption, SMT
  <2> QED
    BY <2>2, StoredIsMultiple
<1> QED
  BY <1>1, <1>2 DEF Stored
(***************************************************************************)
(* What a running request knows, by the operation it performs.             *)
(***************************************************************************)
CreateKnows(r) ==
    req[r].op = "create" =>
        /\ req[r].step \in {"number", "journal", "commit"}
        /\ req[r].src \in Docs
        /\ doc[req[r].src] = NoDoc
        /\ \A q \in Requests \ {r} : req[q].src # req[r].src
        /\ req[r].row \in DocRow
        /\ req[r].row.status = "draft" /\ req[r].row.paid = 0
        /\ req[r].row.total \in Stored
        /\ req[r].todo = <<>>

PostKnows(r) ==
    req[r].op = "post" =>
        /\ req[r].step \in {"rows", "journal", "commit"}
        /\ req[r].src \in Docs
        /\ doc[req[r].src].status # "none"
        /\ IF req[r].step = "rows"
           THEN req[r].todo = <<req[r].src>>
           ELSE /\ req[r].src \in locks[r]
                /\ doc[req[r].src].status = "draft"

CancelKnows(r) ==
    req[r].op = "cancel" =>
        /\ req[r].step \in {"entry", "journal", "commit"}
        /\ req[r].src \in Docs
        /\ doc[req[r].src].status # "none"

\* A payment, or the cancellation of one, holds every document it allocates
\* to but those still to do, and each of them is a document that exists.
HoldsAllocated(r) ==
    /\ req[r].src \in Pays
    /\ req[r].row \in PayRow
    /\ req[r].step = "rows" => req[r].todo # <<>>
    /\ \A d \in req[r].row.docs :
          IF req[r].step = "rows"
          THEN (\E i \in 1..Len(req[r].todo) : req[r].todo[i] = d) \/ d \in locks[r]
          ELSE d \in locks[r]
    /\ \A d \in Docs \ req[r].row.docs : req[r].row.alloc[d] = 0

PayKnows(r) ==
    req[r].op = "pay" =>
        /\ req[r].step \in {"rows", "number", "journal", "commit"}
        /\ HoldsAllocated(r)
        /\ req[r].row.owner \in Owners
        /\ \A d \in req[r].row.docs :
              d \in locks[r] => Allocatable(d, req[r].row)

CancelPayKnows(r) ==
    req[r].op = "cancelPay" =>
        /\ req[r].step \in {"rows", "entry", "journal", "commit"}
        /\ HoldsAllocated(r)
        /\ \A d \in req[r].row.docs : doc[d].status # "none"
        /\ \A d \in Docs : req[r].row.alloc[d] \in Stored

IdleKnows(r) == req[r].op = None => req[r] = Idle /\ locks[r] = {}

Knows(r) ==
    /\ CreateKnows(r) /\ PostKnows(r) /\ CancelKnows(r)
    /\ PayKnows(r) /\ CancelPayKnows(r) /\ IdleKnows(r)

\* Payments are allocated to documents that exist, in whole paisas.
AllocatedExist ==
    \A p \in Pays :
        /\ \A d \in pay[p].docs : doc[d].status # "none"
        /\ \A d \in Docs \ pay[p].docs : pay[p].alloc[d] = 0
        /\ \A d \in Docs : pay[p].alloc[d] \in Stored

\* What is paid is in whole paisas, and what StatusTellsPaid says of it, but
\* for the documents that are partially paid.
PaidWithin ==
    \A d \in Docs :
        /\ doc[d].total \in Stored /\ doc[d].paid \in Stored
        /\ doc[d].paid <= doc[d].total
        /\ doc[d].status \in {"none", "draft", "posted"} => doc[d].paid = 0
        /\ doc[d].status = "paid" => doc[d].paid = doc[d].total

IInv ==
    /\ TypeOK
    /\ L!LocksExclusive
    /\ \A r \in Requests : Knows(r)
    /\ AllocatedExist
    /\ PaidWithin

-------------------------------------------------------------------------------

\* A step leaves the document d to q: it does not touch it, or d exists
\* afterwards and q has neither locked it nor is creating it.
Spares(q, d) ==
    \/ doc'[d] = doc[d]
    \/ /\ doc'[d].status # "none"
       /\ doc[d].status # "none" => d \notin locks[q]
       /\ req[q].op = "create" => req[q].src # d

(***************************************************************************)
(* A request that takes no part in a step knows afterwards what it knew    *)
(* before, if the step leaves alone the documents it has locked, creates   *)
(* no document of its and removes none.                                    *)
(***************************************************************************)
LEMMA Bystander ==
    ASSUME NEW q \in Requests, TypeOK, Knows(q),
           req'[q] = req[q], locks'[q] = locks[q],
           \A d \in Docs : Spares(q, d),
           req[q].op = "create" =>
               \A s \in Requests \ {q} : req'[s].src # req[q].src
    PROVE  Knows(q)'
<1>1. CreateKnows(q)'
  BY DEF Spares, Knows, CreateKnows
<1>2. PostKnows(q)'
  BY DEF Spares, Knows, PostKnows
<1>3. CancelKnows(q)'
  BY DEF Spares, Knows, CancelKnows
<1>4. PayKnows(q)'
  BY DEF Spares, Knows, PayKnows, HoldsAllocated, PayRow, Allocatable, OpenStatus
<1>5. CancelPayKnows(q)'
  BY DEF Spares, Knows, CancelPayKnows, HoldsAllocated, PayRow
<1>6. IdleKnows(q)'
  BY DEF Knows, IdleKnows
<1> QED
  BY <1>1, <1>2, <1>3, <1>4, <1>5, <1>6 DEF Knows

\* The next row a request locks was nobody else's.
LEMMA LockKeepsExclusive ==
    ASSUME TypeOK, L!LocksExclusive,
           NEW r \in Requests, NEW row \in Docs \cup SequenceRows, L!Lock(r, row)
    PROVE  /\ L!LocksTypeOK' /\ L!LocksExclusive'
           /\ locks'[r] = locks[r] \cup {row}
           /\ \A q \in Requests \ {r} : locks'[q] = locks[q] /\ row \notin locks[q]
  BY DEF TypeOK, L!LocksTypeOK, L!LocksExclusive, L!Lock, L!Available

\* The end of a transaction gives its locks back and takes none from the others.
LEMMA EndKeepsExclusive ==
    ASSUME TypeOK, L!LocksExclusive, NEW r \in Requests, L!EndTransaction(r)
    PROVE  /\ L!LocksTypeOK' /\ L!LocksExclusive'
           /\ \A q \in Requests \ {r} : locks'[q] = locks[q]
  BY DEF TypeOK, L!LocksTypeOK, L!LocksExclusive, L!EndTransaction

\* A step of r that writes no row: the other requests stand by.
LEMMA StepKeeps ==
    ASSUME IInv, NEW r \in Requests,
           req' = [req EXCEPT ![r] = req'[r]], req'[r] \in Request,
           UNCHANGED <<doc, pay, entry, stale, filled>>,
           L!LocksTypeOK', L!LocksExclusive',
           \A q \in Requests \ {r} : locks'[q] = locks[q],
           \A q \in Requests \ {r} : req[q].op = "create" => req[q].src # req'[r].src,
           Knows(r)'
    PROVE  IInv'
<1>1. TypeOK'
  BY DEF IInv, TypeOK
<1>2. ASSUME NEW q \in Requests \ {r} PROVE Knows(q)'
  <2>1. \A d \in Docs : Spares(q, d)
    BY DEF Spares
  <2>2. req'[q] = req[q] /\ \A s \in Requests \ {r} : req'[s] = req[s]
    BY DEF IInv, TypeOK
  <2>3. req[q].op = "create" => \A s \in Requests \ {q} : req'[s].src # req[q].src
    BY <2>2 DEF IInv, Knows, CreateKnows
  <2> QED
    BY <2>1, <2>2, <2>3, Bystander DEF IInv
<1>3. AllocatedExist' /\ PaidWithin'
  BY DEF IInv, AllocatedExist, PaidWithin
<1> QED
  BY <1>1, <1>2, <1>3 DEF IInv

\* A beginning request takes no lock.
LEMMA BeginKeeps ==
    ASSUME IInv, NEW r \in Requests,
           req' = [req EXCEPT ![r] = req'[r]], req'[r] \in Request,
           UNCHANGED <<doc, pay, entry, locks, stale, filled>>,
           \A q \in Requests : req[q].op = "create" => req[q].src # req'[r].src,
           Knows(r)'
    PROVE  IInv'
<1>1. L!LocksTypeOK' /\ L!LocksExclusive'
  BY DEF IInv, TypeOK, L!LocksTypeOK, L!LocksExclusive
<1> QED
  BY <1>1, StepKeeps

\* A commit of r leaves the others their documents.
WritesOwn(r) == \A q \in Requests \ {r} : \A d \in Docs : Spares(q, d)

(***************************************************************************)
(* The end of a transaction, committed or rolled back.                     *)
(***************************************************************************)
LEMMA EndKeeps ==
    ASSUME IInv, NEW r \in Requests, Commit(r),
           doc' \in [Docs -> DocRow], pay' \in [Pays -> PayRow],
           entry' \in [Sources -> Entry], stale' \subseteq Sources, filled' \subseteq Docs,
           WritesOwn(r), AllocatedExist', PaidWithin'
    PROVE  IInv'
<1>1. /\ req' = [req EXCEPT ![r] = Idle]
      /\ req'[r] = Idle /\ \A q \in Requests \ {r} : req'[q] = req[q]
      /\ locks'[r] = {} /\ \A q \in Requests \ {r} : locks'[q] = locks[q]
      /\ L!LocksTypeOK' /\ L!LocksExclusive'
  BY EndKeepsExclusive DEF Commit, IInv, TypeOK, L!EndTransaction, L!LocksTypeOK
<1>2. Idle \in Request
  BY DEF Idle, Request, Steps
<1>3. TypeOK'
  BY <1>1, <1>2 DEF IInv, TypeOK
<1>4. Knows(r)'
  BY <1>1, NoneAssumption DEF Knows, CreateKnows, PostKnows, CancelKnows, PayKnows,
                              CancelPayKnows, IdleKnows, Idle, Operations
<1>5. ASSUME NEW q \in Requests \ {r} PROVE Knows(q)'
  <2>1. req[q].op = "create" => \A s \in Requests \ {q} : req'[s].src # req[q].src
    BY <1>1, SourcesAssumption DEF IInv, Knows, CreateKnows, Idle
  <2> QED
    BY <1>1, <2>1, Bystander DEF IInv, WritesOwn
<1> QED
  BY <1>1, <1>3, <1>4, <1>5 DEF IInv

\* An order of a set of documents lists exactly those documents.
LEMMA OrderLists ==
    ASSUME NEW S \in SUBSET Docs, NEW order \in Orders(S)
    PROVE  /\ order \in Seq(Docs)
           /\ \A d \in S : \E i \in 1..Len(order) : order[i] = d
           /\ order = <<>> => S = {}
<1>1. IsFiniteSet(S) /\ Cardinality(S) \in Nat
  BY SourcesAssumption, FS_Subset, FS_CardinalityType
<1>2. order \in [1..Cardinality(S) -> S] /\ Range(order) = S
  BY DEF Orders
<1>3. order \in Seq(Docs) /\ Len(order) = Cardinality(S)
  BY <1>1, <1>2
<1>4. \A d \in S : \E i \in 1..Len(order) : order[i] = d
  BY <1>2, <1>3 DEF Range
<1> QED
  BY <1>3, <1>4

\* A request that begins keeps the invariant, whatever it is asked to do.
LEMMA StartKeeps ==
    ASSUME IInv, NEW r \in Requests, Start(r)
    PROVE  IInv'
<1> USE SourcesAssumption, NoneAssumption DEF Sources, Operations, Steps
<1>1. ASSUME NEW d \in Docs, NEW total \in Totals, NEW andPost \in BOOLEAN,
             BeginCreate(r, d, total, andPost)
      PROVE  IInv'
  <2>1. Begin(r, "number", "create", d, Draft(total), <<>>, andPost)
        /\ doc[d] = NoDoc /\ Fresh(d)
    BY <1>1 DEF BeginCreate
  <2>2. /\ Draft(total) \in DocRow /\ Draft(total).status = "draft" /\ Draft(total).paid = 0
        /\ Draft(total).total \in Stored
    BY AmountsAssumption DEF Draft, DocRow, DocStatus, Stored
  <2>3. req'[r] = [step |-> "number", op |-> "create", src |-> d, row |-> Draft(total),
                   todo |-> <<>>, andPost |-> andPost]
        /\ req' = [req EXCEPT ![r] = req'[r]] /\ UNCHANGED <<doc, pay, entry, locks, stale, filled>>
        /\ \A q \in Requests \ {r} : req'[q] = req[q]
    BY <2>1 DEF IInv, TypeOK, Begin
  <2>6. req'[r] \in Request
    BY <2>2, <2>3 DEF Request
  <2>4. CreateKnows(r)'
    BY <2>1, <2>2, <2>3 DEF CreateKnows, Fresh
  <2>5. Knows(r)'
    BY <2>3, <2>4 DEF Knows, PostKnows, CancelKnows, PayKnows, CancelPayKnows, IdleKnows
  <2> QED
    BY <2>1, <2>3, <2>5, <2>6, BeginKeeps DEF Fresh
<1>2. ASSUME NEW d \in Docs, BeginPost(r, d)
      PROVE  IInv'
  <2>1. Begin(r, "rows", "post", d, None, <<d>>, FALSE) /\ doc[d].status # "none"
    BY <1>2 DEF BeginPost
  <2>2. req'[r] = [step |-> "rows", op |-> "post", src |-> d, row |-> None,
                   todo |-> <<d>>, andPost |-> FALSE]
        /\ req' = [req EXCEPT ![r] = req'[r]] /\ UNCHANGED <<doc, pay, entry, locks, stale, filled>>
    BY <2>1 DEF IInv, TypeOK, Begin
  <2>5. req'[r] \in Request
    BY <2>2 DEF Request
  <2>3. Knows(r)'
    BY <2>1, <2>2 DEF Knows, CreateKnows, PostKnows, CancelKnows, PayKnows, CancelPayKnows,
                      IdleKnows
  <2>4. \A q \in Requests : req[q].op = "create" => req[q].src # d
    BY <2>1 DEF IInv, Knows, CreateKnows, NoDoc
  <2> QED
    BY <2>2, <2>3, <2>4, <2>5, BeginKeeps
<1>3. ASSUME NEW d \in Docs, BeginCancel(r, d)
      PROVE  IInv'
  <2> DEFINE step == IF doc[d].je THEN "entry" ELSE "commit"
  <2>1. Begin(r, step, "cancel", d, doc[d], <<>>, FALSE) /\ doc[d].status # "none"
    BY <1>3 DEF BeginCancel
  <2>2. step \in {"entry", "commit"}
    OBVIOUS
  <2> HIDE DEF step
  <2>3. req'[r] = [step |-> step, op |-> "cancel", src |-> d, row |-> doc[d],
                   todo |-> <<>>, andPost |-> FALSE]
        /\ req' = [req EXCEPT ![r] = req'[r]] /\ UNCHANGED <<doc, pay, entry, locks, stale, filled>>
    BY <2>1 DEF IInv, TypeOK, Begin
  <2>4. Knows(r)'
    BY <2>1, <2>2, <2>3 DEF Knows, CreateKnows, PostKnows, CancelKnows, PayKnows,
                            CancelPayKnows, IdleKnows
  <2>5. \A q \in Requests : req[q].op = "create" => req[q].src # d
    BY <2>1 DEF IInv, Knows, CreateKnows, NoDoc
  <2>6. doc[d] \in DocRow
    BY DEF IInv, TypeOK
  <2>7. req'[r] \in Request
    BY <2>2, <2>3, <2>6 DEF Request
  <2> QED
    BY <2>3, <2>4, <2>5, <2>7, BeginKeeps
<1>4. ASSUME NEW p \in Pays, NEW owner \in Owners, NEW gross \in Amounts,
             NEW alloc \in [Docs -> Amounts \cup {0}],
             NEW order \in Orders(Allocated(alloc)),
             BeginPay(r, p, owner, gross, alloc, order)
      PROVE  IInv'
  <2> DEFINE row == [status |-> "posted", owner |-> owner, gross |-> gross, alloc |-> alloc,
                     docs |-> Allocated(alloc)]
             step == IF order = <<>> THEN "number" ELSE "rows"
  <2>1. Begin(r, step, "pay", p, row, order, FALSE)
    BY <1>4 DEF BeginPay
  <2>2. row \in PayRow
    <3>1. gross \in Nat
      BY AmountsAssumption
    <3>2. alloc \in [Docs -> Nat]
      <4>1. Amounts \cup {0} \subseteq Nat
        BY AmountsAssumption
      <4> QED
        BY <4>1
    <3> QED
      BY <3>1, <3>2 DEF PayRow, Allocated
  <2>3. /\ order \in Seq(Docs)
        /\ \A d \in Allocated(alloc) : \E i \in 1..Len(order) : order[i] = d
        /\ order = <<>> => Allocated(alloc) = {}
    BY OrderLists DEF Allocated
  <2>8. \A d \in Docs \ Allocated(alloc) : alloc[d] = 0
    <3>1. alloc \in [Docs -> Nat]
      <4>1. Amounts \cup {0} \subseteq Nat
        BY AmountsAssumption
      <4> QED
        BY <4>1
    <3> QED
      BY <3>1 DEF Allocated
  <2>4. locks[r] = {}
    BY <2>1 DEF IInv, Knows, IdleKnows, Idle, Begin
  <2> HIDE DEF step, row
  <2>5. Knows(r)'
    <3>1. req'[r] = [step |-> step, op |-> "pay", src |-> p, row |-> row,
                     todo |-> order, andPost |-> FALSE] /\ locks'[r] = {}
      BY <2>1, <2>4 DEF IInv, TypeOK, Begin
    <3>2. HoldsAllocated(r)'
      BY <3>1, <2>2, <2>3, <2>8 DEF HoldsAllocated, row, step
    <3>3. PayKnows(r)'
      BY <3>1, <3>2, <2>2 DEF PayKnows, row, step
    <3> QED
      BY <3>1, <3>3 DEF Knows, CreateKnows, PostKnows, CancelKnows, CancelPayKnows, IdleKnows
  <2>6. \A q \in Requests : req[q].op = "create" => req[q].src # p
    BY DEF IInv, Knows, CreateKnows
  <2>7. req' = [req EXCEPT ![r] = req'[r]] /\ req'[r].src = p
        /\ req'[r] \in Request /\ UNCHANGED <<doc, pay, entry, locks, stale, filled>>
    <3>1. step \in Steps
      BY DEF step
    <3> QED
      BY <3>1, <2>1, <2>2, <2>3 DEF Request, Begin, IInv, TypeOK
  <2> QED
    BY <2>5, <2>6, <2>7, BeginKeeps
<1>5. ASSUME NEW p \in Pays, NEW order \in Orders(pay[p].docs),
             BeginCancelPay(r, p, order)
      PROVE  IInv'
  <2> DEFINE step == IF order = <<>> THEN "entry" ELSE "rows"
  <2>1. Begin(r, step, "cancelPay", p, pay[p], order, FALSE)
    BY <1>5 DEF BeginCancelPay
  <2>2. pay[p] \in PayRow
    BY DEF IInv, TypeOK
  <2>3. /\ order \in Seq(Docs)
        /\ \A d \in pay[p].docs : \E i \in 1..Len(order) : order[i] = d
        /\ order = <<>> => pay[p].docs = {}
    BY <2>2, OrderLists DEF PayRow
  <2> HIDE DEF step
  <2>4. Knows(r)'
    <3>1. req'[r] = [step |-> step, op |-> "cancelPay", src |-> p, row |-> pay[p],
                     todo |-> order, andPost |-> FALSE] /\ UNCHANGED doc
      BY <2>1 DEF IInv, TypeOK, Begin
    <3>2. HoldsAllocated(r)'
      BY <3>1, <2>2, <2>3 DEF HoldsAllocated, step, IInv, AllocatedExist
    <3>3. CancelPayKnows(r)'
      BY <3>1, <3>2 DEF CancelPayKnows, step, IInv, AllocatedExist
    <3> QED
      BY <3>1, <3>3 DEF Knows, CreateKnows, PostKnows, CancelKnows, PayKnows, IdleKnows
  <2>5. \A q \in Requests : req[q].op = "create" => req[q].src # p
    BY DEF IInv, Knows, CreateKnows
  <2>6. req' = [req EXCEPT ![r] = req'[r]] /\ req'[r].src = p
        /\ req'[r] \in Request /\ UNCHANGED <<doc, pay, entry, locks, stale, filled>>
    <3>1. step \in Steps
      BY DEF step
    <3> QED
      BY <3>1, <2>1, <2>2, <2>3 DEF Request, Begin, IInv, TypeOK
  <2> QED
    BY <2>4, <2>5, <2>6, BeginKeeps
<1> QED
  BY <1>1, <1>2, <1>3, <1>4, <1>5 DEF Start, StartWith

\* Which requests can be where: each operation goes through its own steps.
LEMMA StepOfOperation ==
    ASSUME IInv, NEW r \in Requests
    PROVE  /\ req[r] \in Request
           /\ req[r].step = "rows" => req[r].op \in {"post", "pay", "cancelPay"}
           /\ req[r].step = "entry" => req[r].op \in {"cancel", "cancelPay"}
           /\ req[r].step = "number" => req[r].op \in {"create", "pay"}
           /\ req[r].step \in {"journal", "commit"} => req[r].op \in Operations
  BY DEF IInv, TypeOK, Knows, CreateKnows, PostKnows, CancelKnows, PayKnows, CancelPayKnows,
         IdleKnows, Idle, Request, Operations

\* Every element of a sequence is its head or in its tail.
LEMMA HeadAndTail ==
    ASSUME NEW S, NEW s \in Seq(S), s # <<>>
    PROVE  /\ Head(s) \in S /\ Tail(s) \in Seq(S)
           /\ \A i \in 1..Len(s) :
                 s[i] = Head(s) \/ \E j \in 1..Len(Tail(s)) : Tail(s)[j] = s[i]
<1>1. Head(s) = s[1] /\ Head(s) \in S
  OBVIOUS
<1>2. Tail(s) \in Seq(S) /\ Len(Tail(s)) = Len(s) - 1
  OBVIOUS
<1>3. ASSUME NEW i \in 1..Len(s), i # 1
      PROVE  i - 1 \in 1..Len(Tail(s)) /\ Tail(s)[i - 1] = s[i]
  BY <1>2, <1>3
<1> QED
  BY <1>1, <1>2, <1>3

\* LockDocument keeps the invariant.
LEMMA LockDocumentKeeps ==
    ASSUME IInv, NEW r \in Requests, LockDocument(r)
    PROVE  IInv'
<1> DEFINE d == Head(req[r].todo)
           rest == Tail(req[r].todo)
           next == IF rest = <<>> THEN AfterRows[req[r].op] ELSE "rows"
<1>1. req[r] \in Request /\ req[r].step = "rows" /\ req[r].op \in {"post", "pay", "cancelPay"}
  BY StepOfOperation DEF LockDocument
<1>2. req[r].todo \in Seq(Docs) /\ req[r].todo # <<>>
  <2>1. req[r].todo \in Seq(Docs)
    BY <1>1 DEF Request
  <2>2. req[r].op = "post" => req[r].todo # <<>>
    <3>1. req[r].op = "post" => req[r].todo = <<req[r].src>>
      BY <1>1 DEF IInv, Knows, PostKnows
    <3>2. <<req[r].src>> # <<>>
      OBVIOUS
    <3> QED
      BY <3>1, <3>2
  <2>3. req[r].op # "post" => req[r].todo # <<>>
    BY <1>1 DEF IInv, Knows, PayKnows, CancelPayKnows, HoldsAllocated
  <2> QED
    BY <2>1, <2>2, <2>3
<1>3. /\ d \in Docs /\ rest \in Seq(Docs)
      /\ \A i \in 1..Len(req[r].todo) :
            req[r].todo[i] = d \/ \E j \in 1..Len(rest) : rest[j] = req[r].todo[i]
  BY <1>2, HeadAndTail
<1>4. L!Lock(r, d) /\ MayUse(r, d) /\ UNCHANGED <<doc, pay, entry, stale, filled>>
      /\ Advance(r, next, rest)
  BY DEF LockDocument
<1>5. /\ req' = [req EXCEPT ![r] = req'[r]] /\ req'[r] \in Request
      /\ req'[r].op = req[r].op /\ req'[r].src = req[r].src /\ req'[r].row = req[r].row
      /\ req'[r].todo = rest /\ req'[r].step = next
  <2>1. next \in Steps
    BY <1>1 DEF AfterRows, Steps
  <2> HIDE DEF d, rest, next
  <2> QED
    BY <1>1, <1>3, <1>4, <2>1 DEF IInv, TypeOK, Request, Advance
<1>6. /\ L!LocksTypeOK' /\ L!LocksExclusive' /\ locks'[r] = locks[r] \cup {d}
      /\ \A q \in Requests \ {r} : locks'[q] = locks[q]
  <2> HIDE DEF d, rest, next
  <2> QED
    BY <1>3, <1>4, LockKeepsExclusive DEF IInv
<1>7. next = "rows" => rest # <<>>
  <2>1. AfterRows[req[r].op] # "rows"
    <3> HIDE DEF d, rest, next
    <3> QED
      BY <1>1 DEF AfterRows
  <2> HIDE DEF d, rest
  <2> QED
    BY <2>1
<1>8. next # "rows" => rest = <<>> /\ next = AfterRows[req[r].op]
  OBVIOUS
<1> HIDE DEF d, rest, next
<1>9. CASE req[r].op = "post"
  <2>1. req[r].todo = <<req[r].src>>
    BY <1>1, <1>9 DEF IInv, Knows, PostKnows
  <2>2. d = req[r].src /\ rest = <<>>
    BY <2>1 DEF d, rest
  <2>3. Knows(r)'
    BY <1>1, <1>4, <1>5, <1>6, <1>7, <1>8, <1>9, <2>2, NoneAssumption
       DEF IInv, Knows, CreateKnows, PostKnows, CancelKnows, PayKnows, CancelPayKnows,
           IdleKnows, MayUse, AfterRows, Operations
  <2> QED
    BY <1>4, <1>5, <1>6, <2>3, StepKeeps DEF IInv, Knows, CreateKnows
<1>10. CASE req[r].op = "pay"
  <2>1. HoldsAllocated(r)'
    <3>1. HoldsAllocated(r)
      BY <1>10 DEF IInv, Knows, PayKnows
    <3>2. \A e \in req[r].row.docs :
             (\E j \in 1..Len(rest) : rest[j] = e) \/ e \in locks'[r]
      BY <1>1, <1>3, <1>6, <3>1 DEF HoldsAllocated
    <3>3. next # "rows" => \A e \in req[r].row.docs : e \in locks'[r]
      BY <1>3, <1>8, <3>2
    <3> QED
      BY <1>5, <1>7, <3>1, <3>2, <3>3 DEF HoldsAllocated
  <2>2. PayKnows(r)'
    BY <1>1, <1>4, <1>5, <1>6, <1>8, <1>10, <2>1
       DEF IInv, Knows, PayKnows, MayUse, AfterRows, Allocatable
  <2>3. Knows(r)'
    BY <1>5, <1>10, <2>2, NoneAssumption
       DEF Knows, CreateKnows, PostKnows, CancelKnows, CancelPayKnows, IdleKnows, Operations
  <2> QED
    BY <1>4, <1>5, <1>6, <2>3, StepKeeps DEF IInv, Knows, CreateKnows
<1>11. CASE req[r].op = "cancelPay"
  <2>1. HoldsAllocated(r)'
    <3>1. HoldsAllocated(r)
      BY <1>11 DEF IInv, Knows, CancelPayKnows
    <3>2. \A e \in req[r].row.docs :
             (\E j \in 1..Len(rest) : rest[j] = e) \/ e \in locks'[r]
      BY <1>1, <1>3, <1>6, <3>1 DEF HoldsAllocated
    <3>3. next # "rows" => \A e \in req[r].row.docs : e \in locks'[r]
      BY <1>3, <1>8, <3>2
    <3> QED
      BY <1>5, <1>7, <3>1, <3>2, <3>3 DEF HoldsAllocated
  <2>2. CancelPayKnows(r)'
    BY <1>1, <1>4, <1>5, <1>6, <1>8, <1>11, <2>1
       DEF IInv, Knows, CancelPayKnows, AfterRows
  <2>3. Knows(r)'
    BY <1>5, <1>11, <2>2, NoneAssumption
       DEF Knows, CreateKnows, PostKnows, CancelKnows, PayKnows, IdleKnows, Operations
  <2> QED
    BY <1>4, <1>5, <1>6, <2>3, StepKeeps DEF IInv, Knows, CreateKnows
<1> QED
  BY <1>1, <1>9, <1>10, <1>11

\* Going to the next step changes nothing else of the request.
LEMMA GotoStep ==
    ASSUME IInv, NEW r \in Requests, NEW step \in Steps, Goto(r, step)
    PROVE  /\ req' = [req EXCEPT ![r] = req'[r]] /\ req'[r] \in Request
           /\ req'[r].step = step /\ req'[r].op = req[r].op /\ req'[r].src = req[r].src
           /\ req'[r].row = req[r].row /\ req'[r].todo = req[r].todo
<1>1. req[r] \in Request
  BY StepOfOperation
<1> QED
  BY <1>1 DEF IInv, TypeOK, Goto, Request

\* Between its locks and its commit a request only moves on: it locks a
\* sequence row or nothing.
LEMMA GotoKeeps ==
    ASSUME IInv, NEW r \in Requests, NEW step \in Steps, Goto(r, step),
           UNCHANGED <<doc, pay, entry, stale, filled>>,
           \/ UNCHANGED locks
           \/ \E row \in SequenceRows : L!Lock(r, row),
           req[r].step \in {"number", "entry", "journal"},
           req[r].op = "create" => step \in {"journal", "commit"},
           req[r].op = "post" => step \in {"journal", "commit"},
           req[r].op = "cancel" => step \in {"journal", "commit"},
           req[r].op \in {"pay", "cancelPay"} => step \in {"journal", "commit"}
    PROVE  IInv'
<1>1. /\ req' = [req EXCEPT ![r] = req'[r]] /\ req'[r] \in Request
      /\ req'[r].step = step /\ req'[r].op = req[r].op /\ req'[r].src = req[r].src
      /\ req'[r].row = req[r].row /\ req'[r].todo = req[r].todo
      /\ \A q \in Requests \ {r} : req'[q] = req[q]
  BY GotoStep DEF IInv, TypeOK
<1>2. /\ L!LocksTypeOK' /\ L!LocksExclusive'
      /\ \A q \in Requests \ {r} : locks'[q] = locks[q]
      /\ locks[r] \subseteq locks'[r]
      /\ \A d \in Docs : d \in locks'[r] => d \in locks[r] \/ d \in SequenceRows
  <2>1. CASE UNCHANGED locks
    BY <2>1 DEF IInv, TypeOK, L!LocksTypeOK, L!LocksExclusive
  <2>2. CASE \E row \in SequenceRows : L!Lock(r, row)
    BY <2>2, LockKeepsExclusive DEF IInv
  <2> QED
    BY <2>1, <2>2
<1>3. req[r].op \in Operations
  BY StepOfOperation DEF Operations
<1>4. Knows(r)'
  BY <1>1, <1>2, <1>3, NoneAssumption
     DEF IInv, Knows, CreateKnows, PostKnows, CancelKnows, PayKnows, CancelPayKnows, IdleKnows,
         HoldsAllocated, Allocatable
<1> QED
  BY <1>1, <1>2, <1>4, StepKeeps DEF IInv, Knows, CreateKnows

\* TakeNumber keeps the invariant.
LEMMA TakeNumberKeeps ==
    ASSUME IInv, NEW r \in Requests, TakeNumber(r)
    PROVE  IInv'
<1>1. CASE req[r].op = "create"
  <2>1. \E step \in {"journal", "commit"} : Goto(r, step)
    BY <1>1, NoneAssumption DEF TakeNumber
  <2>2. DocSequence(Owner[req[r].src]) \in SequenceRows
    BY DEF DocSequence, SequenceRows
  <2> QED
    BY <1>1, <2>1, <2>2, GotoKeeps DEF TakeNumber, Steps
<1>2. CASE req[r].op = "pay"
  <2>1. PaySequence(req[r].row.owner) \in SequenceRows
    BY DEF PaySequence, SequenceRows
  <2> QED
    BY <1>2, <2>1, GotoKeeps DEF TakeNumber, Steps
<1> QED
  BY <1>1, <1>2 DEF TakeNumber

\* ReadEntry keeps the invariant.
LEMMA ReadEntryKeeps ==
    ASSUME IInv, NEW r \in Requests, ReadEntry(r)
    PROVE  IInv'
  BY GotoKeeps DEF ReadEntry, Steps

\* TakeJournalNumber keeps the invariant.
LEMMA TakeJournalNumberKeeps ==
    ASSUME IInv, NEW r \in Requests, TakeJournalNumber(r)
    PROVE  IInv'
  BY GotoKeeps DEF TakeJournalNumber, Steps, SequenceRows

\* A document that a request has locked, or is creating, is nobody else's:
\* whatever it is from now on, the others are spared.
LEMMA Exclusive ==
    ASSUME IInv, NEW r \in Requests, NEW d \in Docs, NEW q \in Requests \ {r},
           \/ d \in locks[r] /\ doc[d].status # "none"
           \/ req[r].op = "create" /\ req[r].src = d,
           doc'[d].status # "none"
    PROVE  Spares(q, d)
  BY DEF IInv, Knows, CreateKnows, L!LocksExclusive, NoDoc, Spares

\* What posting writes in the entry of a source is an entry.
LEMMA EntryTypes ==
    ASSUME IInv, NEW s \in Sources
    PROVE  Posted(s) \in [Sources -> Entry] /\ Reversed(s) \in [Sources -> Entry]
<1>1. entry \in [Sources -> Entry]
  BY DEF IInv, TypeOK
<1>2. Posted(s) \in [Sources -> Entry]
  BY <1>1 DEF Posted, Entry
<1>3. [status |-> "reversed", mirrors |-> entry[s].mirrors + 1] \in Entry
  BY <1>1 DEF Entry
<1>4. Reversed(s) \in [Sources -> Entry]
  BY <1>1, <1>3 DEF Reversed
<1> QED
  BY <1>2, <1>4

\* CommitCreate keeps the invariant.
LEMMA CommitCreateKeeps ==
    ASSUME IInv, NEW r \in Requests, CommitCreate(r)
    PROVE  IInv'
<1> DEFINE d == req[r].src
           new == req[r].row
           written == IF req[r].andPost THEN PostedRow(new) ELSE new
<1>1. /\ req[r].op = "create" /\ d \in Docs /\ doc[d] = NoDoc
      /\ new \in DocRow /\ new.status = "draft" /\ new.paid = 0 /\ new.total \in Stored
  BY DEF CommitCreate, At, IInv, Knows, CreateKnows
<1>2. /\ doc' = [doc EXCEPT ![d] = written]
      /\ entry' \in {entry, Posted(d)}
      /\ Commit(r) /\ UNCHANGED <<pay, stale, filled>>
  BY DEF CommitCreate
<1> HIDE DEF d, new
<1>3. /\ written \in DocRow /\ written.status \in {"draft", "posted"}
      /\ written.paid = 0 /\ written.total \in Nat /\ written.total \in Stored
  BY <1>1 DEF DocRow, PostedRow, DocStatus, LiveStatus, OpenStatus
<1> HIDE DEF written
<1>4. doc' \in [Docs -> DocRow] /\ pay' \in [Pays -> PayRow] /\ stale' \subseteq Sources
      /\ filled' \subseteq Docs
  BY <1>1, <1>2, <1>3 DEF IInv, TypeOK
<1>5. entry' \in [Sources -> Entry]
  BY <1>1, <1>2, EntryTypes DEF IInv, TypeOK, Sources
<1>6. AllocatedExist'
  BY <1>1, <1>2, <1>3 DEF IInv, TypeOK, AllocatedExist
<1>7. PaidWithin'
  BY <1>1, <1>2, <1>3, StoredAmounts DEF IInv, TypeOK, PaidWithin
<1>8. doc'[d].status # "none" /\ \A e \in Docs \ {d} : doc'[e] = doc[e]
  BY <1>1, <1>2, <1>3 DEF IInv, TypeOK
<1>9. WritesOwn(r)
  BY <1>1, <1>8, Exclusive DEF WritesOwn, Spares, d
<1>10. Commit(r)
  BY <1>2
<1> QED
  BY <1>4, <1>5, <1>6, <1>7, <1>9, <1>10, EndKeeps

\* CommitPost keeps the invariant.
LEMMA CommitPostKeeps ==
    ASSUME IInv, NEW r \in Requests, CommitPost(r)
    PROVE  IInv'
<1> DEFINE d == req[r].src
<1>1. d \in Docs /\ d \in locks[r] /\ doc[d].status = "draft" /\ doc[d] \in DocRow
  BY DEF CommitPost, At, IInv, TypeOK, Knows, PostKnows
<1>2. doc' = [doc EXCEPT ![d] = PostedRow(doc[d])] /\ entry' = Posted(d)
      /\ Commit(r) /\ UNCHANGED <<pay, stale, filled>>
  BY DEF CommitPost
<1> HIDE DEF d
<1>3. /\ PostedRow(doc[d]) \in DocRow /\ PostedRow(doc[d]).status = "posted"
      /\ PostedRow(doc[d]).paid = 0 /\ PostedRow(doc[d]).total \in Nat
      /\ PostedRow(doc[d]).total \in Stored
  BY <1>1 DEF DocRow, PostedRow, DocStatus, LiveStatus, OpenStatus, IInv, PaidWithin
<1>4. doc' \in [Docs -> DocRow] /\ pay' \in [Pays -> PayRow] /\ stale' \subseteq Sources
      /\ filled' \subseteq Docs
  BY <1>1, <1>2, <1>3 DEF IInv, TypeOK
<1>5. entry' \in [Sources -> Entry]
  BY <1>1, <1>2, EntryTypes DEF Sources
<1>6. AllocatedExist'
  BY <1>1, <1>2, <1>3 DEF IInv, TypeOK, AllocatedExist
<1>7. PaidWithin'
  BY <1>1, <1>2, <1>3, StoredAmounts DEF IInv, TypeOK, PaidWithin
<1>8. doc'[d].status # "none" /\ \A e \in Docs \ {d} : doc'[e] = doc[e]
  BY <1>1, <1>2, <1>3 DEF IInv, TypeOK
<1>9. WritesOwn(r)
  BY <1>1, <1>8, Exclusive DEF WritesOwn, Spares, d
<1>10. Commit(r)
  BY <1>2
<1> QED
  BY <1>4, <1>5, <1>6, <1>7, <1>9, <1>10, EndKeeps

\* CommitCancel keeps the invariant.
LEMMA CommitCancelKeeps ==
    ASSUME IInv, NEW r \in Requests, CommitCancel(r)
    PROVE  IInv'
<1> DEFINE d == req[r].src
<1>1. d \in Docs /\ doc[d].status # "none" /\ doc[d] \in DocRow
  BY DEF CommitCancel, At, IInv, TypeOK, Knows, CancelKnows
<1>2. /\ doc' = [doc EXCEPT ![d].status = "cancelled"]
      /\ entry' \in {entry, Reversed(d)} /\ stale' \in {stale, stale \cup {d}}
      /\ L!Available(r, d) /\ Commit(r) /\ UNCHANGED <<pay, filled>>
  BY DEF CommitCancel
<1> HIDE DEF d
<1>3. /\ doc' \in [Docs -> DocRow] /\ doc'[d].status = "cancelled"
      /\ doc'[d].paid = doc[d].paid /\ doc'[d].total = doc[d].total
      /\ \A e \in Docs \ {d} : doc'[e] = doc[e]
  BY <1>1, <1>2 DEF IInv, TypeOK, DocRow, DocStatus
<1>4. pay' \in [Pays -> PayRow] /\ stale' \subseteq Sources /\ filled' \subseteq Docs
  BY <1>1, <1>2 DEF IInv, TypeOK, Sources
<1>5. entry' \in [Sources -> Entry]
  BY <1>1, <1>2, EntryTypes DEF IInv, TypeOK, Sources
<1>6. AllocatedExist'
  BY <1>1, <1>2, <1>3 DEF IInv, TypeOK, AllocatedExist
<1>7. PaidWithin'
  BY <1>1, <1>2, <1>3 DEF IInv, TypeOK, PaidWithin
<1>8. \A q \in Requests \ {r} : d \notin locks[q] /\ (req[q].op = "create" => req[q].src # d)
  BY <1>1, <1>2 DEF IInv, Knows, CreateKnows, NoDoc, L!Available
<1>9. WritesOwn(r)
  BY <1>3, <1>8 DEF WritesOwn, Spares
<1> QED
  BY <1>2, <1>3, <1>4, <1>5, <1>6, <1>7, <1>9, EndKeeps

\* CommitPay keeps the invariant.
LEMMA CommitPayKeeps ==
    ASSUME IInv, NEW r \in Requests, CommitPay(r)
    PROVE  IInv'
<1> DEFINE new == req[r].row
           D == new.docs
           p == req[r].src
<1>1. /\ p \in Pays /\ new \in PayRow /\ new.alloc \in [Docs -> Nat]
      /\ \A d \in D : d \in Docs /\ d \in locks[r] /\ Allocatable(d, new)
      /\ \A d \in Docs \ D : new.alloc[d] = 0
  BY DEF CommitPay, At, IInv, Knows, PayKnows, HoldsAllocated, PayRow
<1>2. /\ pay' = [pay EXCEPT ![p] = Rounded(new)] /\ entry' = Posted(p)
      /\ doc' = [d \in Docs |-> IF d \in D THEN Credited(d, new.alloc[d]) ELSE doc[d]]
      /\ filled' \subseteq filled \cup D
      /\ Commit(r) /\ UNCHANGED stale
  BY DEF CommitPay
<1> HIDE DEF new, D, p
<1>3. doc \in [Docs -> DocRow] /\ pay \in [Pays -> PayRow] /\ stale \subseteq Sources
      /\ filled \subseteq Docs
      /\ \A d \in Docs : /\ doc[d].total \in Nat /\ doc[d].paid \in Int
                         /\ doc[d].je \in BOOLEAN
                         /\ doc[d].total \in Stored /\ doc[d].paid \in Stored
  BY DEF IInv, TypeOK, DocRow, PaidWithin
<1>14. ASSUME NEW d \in Docs
       PROVE  m2(new.alloc[d]) \in Nat /\ m2(new.alloc[d]) \in Stored
  <2>1. new.alloc[d] \in Nat
    BY <1>1
  <2>2. m2(new.alloc[d]) \in Nat
    BY <2>1, RoundBounds
  <2>3. 0 \in Stored /\ new.alloc[d] \in Int
    BY <2>1, StoredAmounts
  <2>4. m2(new.alloc[d]) \in Stored
    BY <2>3, RoundSum
  <2> QED
    BY <2>2, <2>4
<1>15. /\ Rounded(new) \in PayRow /\ Rounded(new).docs = D
       /\ \A d \in Docs \ D : Rounded(new).alloc[d] = 0
       /\ \A d \in Docs : Rounded(new).alloc[d] \in Stored
  <2>1. m2(new.gross) \in Nat
    BY <1>1, RoundBounds DEF PayRow
  <2>2. m2(0) = 0
    BY StoredAmounts DEF Stored
  <2> QED
    BY <1>1, <1>14, <2>1, <2>2 DEF Rounded, PayRow, D
<1>4. ASSUME NEW d \in D
      PROVE  /\ Credited(d, new.alloc[d]) \in DocRow
             /\ Credited(d, new.alloc[d]).status \in {"partially_paid", "paid"}
             /\ Credited(d, new.alloc[d]).paid <= doc[d].total
             /\ Credited(d, new.alloc[d]).paid \in Stored
             /\ Credited(d, new.alloc[d]).total = doc[d].total
             /\ Credited(d, new.alloc[d]).status = "paid"
                   => Credited(d, new.alloc[d]).paid = doc[d].total
  <2>1. new.alloc[d] \in Nat /\ new.alloc[d] <= doc[d].total - doc[d].paid /\ d \in Docs
    BY <1>1, <1>4 DEF Allocatable
  <2>2. /\ m2(doc[d].paid + new.alloc[d]) = doc[d].paid + m2(new.alloc[d])
        /\ doc[d].paid + m2(new.alloc[d]) \in Stored
    BY <1>3, <2>1, RoundSum
  <2>3. m2(new.alloc[d]) <= doc[d].total - doc[d].paid /\ m2(new.alloc[d]) \in Nat
    <3>1. doc[d].total - doc[d].paid \in Stored
      BY <1>3, <2>1, StoredAmounts
    <3> QED
      BY <2>1, <3>1, RoundBounds
  <2>4. doc[d].paid + new.alloc[d] = doc[d].total => m2(doc[d].paid + new.alloc[d]) = doc[d].total
    BY <1>3, <2>1 DEF Stored
  <2>5. doc[d].paid + m2(new.alloc[d]) <= doc[d].total /\ doc[d].paid + m2(new.alloc[d]) \in Int
    BY <1>3, <2>1, <2>3
  <2>6. PICK paid \in Int : paid = m2(doc[d].paid + new.alloc[d]) /\ paid <= doc[d].total
                            /\ paid \in Stored
    BY <2>2, <2>5
  <2>7. Credited(d, new.alloc[d]) =
          [status |-> IF doc[d].paid + new.alloc[d] = doc[d].total THEN "paid" ELSE "partially_paid",
           total |-> doc[d].total, paid |-> paid, je |-> doc[d].je]
    BY <2>6 DEF Credited
  <2> QED
    BY <1>3, <2>1, <2>4, <2>6, <2>7 DEF DocRow, DocStatus, LiveStatus, OpenStatus
<1>5. doc' \in [Docs -> DocRow] /\ pay' \in [Pays -> PayRow] /\ stale' \subseteq Sources
      /\ filled' \subseteq Docs
  BY <1>1, <1>2, <1>3, <1>4, <1>15
<1>6. entry' \in [Sources -> Entry]
  BY <1>1, <1>2, EntryTypes DEF Sources
<1>7. \A d \in Docs : doc[d].status # "none" => doc'[d].status # "none"
  BY <1>2, <1>4
<1>8. AllocatedExist'
  <2>1. \A d \in D : doc[d].status # "none" /\ d \in Docs
    BY <1>1 DEF Allocatable, OpenStatus
  <2>2. ASSUME NEW q \in Pays
        PROVE  /\ \A d \in pay'[q].docs : doc'[d].status # "none"
               /\ \A d \in Docs \ pay'[q].docs : pay'[q].alloc[d] = 0
               /\ \A d \in Docs : pay'[q].alloc[d] \in Stored
    <3>1. CASE q = p
      <4>1. pay'[q] = Rounded(new)
        BY <1>1, <1>2, <1>3, <3>1
      <4> QED
        BY <1>7, <1>15, <2>1, <4>1
    <3>2. CASE q # p
      <4>1. pay'[q] = pay[q] /\ pay[q].docs \subseteq Docs
        BY <1>2, <1>3, <3>2 DEF PayRow
      <4> QED
        BY <1>7, <4>1 DEF IInv, AllocatedExist
    <3> QED
      BY <3>1, <3>2
  <2> QED
    BY <2>2 DEF AllocatedExist
<1>9. PaidWithin'
  <2>1. ASSUME NEW d \in D
        PROVE  doc'[d] = Credited(d, new.alloc[d])
    BY <1>1, <1>2, <2>1
  <2>2. ASSUME NEW d \in Docs \ D
        PROVE  doc'[d] = doc[d]
    BY <1>2, <2>2
  <2> QED
    BY <1>1, <1>3, <1>4, <2>1, <2>2 DEF IInv, PaidWithin
<1>10. WritesOwn(r)
  <2> SUFFICES ASSUME NEW q \in Requests \ {r}, NEW d \in Docs
               PROVE  Spares(q, d)
    BY DEF WritesOwn
  <2>1. CASE d \in D
    <3>1. d \in locks[r] /\ doc[d].status # "none"
      BY <1>1, <2>1 DEF Allocatable, OpenStatus
    <3> QED
      BY <1>7, <3>1, Exclusive
  <2>2. CASE d \notin D
    BY <1>2, <2>2 DEF Spares
  <2> QED
    BY <2>1, <2>2
<1>11. Commit(r)
  BY <1>2
<1> QED
  BY <1>11, <1>5, <1>6, <1>8, <1>9, <1>10, EndKeeps

\* CommitCancelPay keeps the invariant.
LEMMA CommitCancelPayKeeps ==
    ASSUME IInv, NEW r \in Requests, CommitCancelPay(r)
    PROVE  IInv'
<1> DEFINE read == req[r].row
           D == read.docs
           p == req[r].src
<1>1. /\ p \in Pays /\ read \in PayRow /\ read.alloc \in [Docs -> Nat]
      /\ \A d \in D : d \in Docs /\ d \in locks[r] /\ doc[d].status # "none"
      /\ \A d \in Docs : read.alloc[d] \in Stored
  BY DEF CommitCancelPay, At, IInv, Knows, CancelPayKnows, HoldsAllocated, PayRow
<1>2. /\ pay' = [pay EXCEPT ![p].status = "cancelled"] /\ entry' = Reversed(p)
      /\ doc' = [d \in Docs |-> IF d \in D THEN Uncredited(d, read.alloc[d]) ELSE doc[d]]
      /\ Commit(r) /\ stale' \subseteq (stale \cup {p}) \cup D /\ filled' \subseteq filled
  BY DEF CommitCancelPay
<1> HIDE DEF read, D, p
<1>3. doc \in [Docs -> DocRow] /\ pay \in [Pays -> PayRow] /\ stale \subseteq Sources
      /\ filled \subseteq Docs
      /\ \A d \in Docs : /\ doc[d].total \in Nat /\ doc[d].paid \in Int
                         /\ doc[d].je \in BOOLEAN /\ doc[d].paid <= doc[d].total
                         /\ doc[d].total \in Stored /\ doc[d].paid \in Stored
  BY DEF IInv, TypeOK, DocRow, PaidWithin
<1>4. ASSUME NEW d \in D
      PROVE  /\ Uncredited(d, read.alloc[d]) \in DocRow
             /\ Uncredited(d, read.alloc[d]).status \in {"posted", "partially_paid"}
             /\ Uncredited(d, read.alloc[d]).paid <= doc[d].total
             /\ Uncredited(d, read.alloc[d]).paid \in Stored
             /\ Uncredited(d, read.alloc[d]).total = doc[d].total
             /\ Uncredited(d, read.alloc[d]).status = "posted"
                   <=> Uncredited(d, read.alloc[d]).paid = 0
  <2>1. read.alloc[d] \in Nat /\ read.alloc[d] \in Stored /\ d \in Docs
    BY <1>1, <1>4
  <2>2. PICK paid \in Int : /\ paid = doc[d].paid - read.alloc[d] /\ m2(paid) = paid
                            /\ paid \in Stored
    BY <1>3, <2>1, StoredAmounts
  <2>3. Uncredited(d, read.alloc[d]) =
          [status |-> IF paid = 0 THEN "posted" ELSE "partially_paid",
           total |-> doc[d].total, paid |-> paid, je |-> doc[d].je]
    BY <2>2 DEF Uncredited
  <2> QED
    BY <1>3, <2>1, <2>2, <2>3 DEF DocRow, DocStatus, LiveStatus, OpenStatus
<1>5. doc' \in [Docs -> DocRow] /\ stale' \subseteq Sources /\ filled' \subseteq Docs
  BY <1>1, <1>2, <1>3, <1>4 DEF Sources
<1>6. /\ pay' \in [Pays -> PayRow]
      /\ \A q \in Pays : pay'[q].alloc = pay[q].alloc /\ pay'[q].docs = pay[q].docs
                         /\ pay[q].docs \subseteq Docs
  BY <1>1, <1>2, <1>3 DEF PayRow
<1>7. entry' \in [Sources -> Entry]
  BY <1>1, <1>2, EntryTypes DEF Sources
<1>8. \A d \in Docs : doc[d].status # "none" => doc'[d].status # "none"
  BY <1>2, <1>4
<1>9. AllocatedExist'
  BY <1>6, <1>8 DEF IInv, AllocatedExist
<1>10. PaidWithin'
  <2>1. ASSUME NEW d \in D
        PROVE  doc'[d] = Uncredited(d, read.alloc[d])
    BY <1>1, <1>2, <2>1
  <2>2. ASSUME NEW d \in Docs \ D
        PROVE  doc'[d] = doc[d]
    BY <1>2, <2>2
  <2>3. \A d \in D : doc'[d].paid \in Int
    BY <1>4, <2>1 DEF DocRow
  <2> QED
    BY <1>1, <1>3, <1>4, <2>1, <2>2, <2>3 DEF IInv, PaidWithin
<1>11. WritesOwn(r)
  <2> SUFFICES ASSUME NEW q \in Requests \ {r}, NEW d \in Docs
               PROVE  Spares(q, d)
    BY DEF WritesOwn
  <2>1. CASE d \in D
    <3>1. d \in locks[r] /\ doc[d].status # "none"
      BY <1>1, <2>1 DEF Allocatable, OpenStatus
    <3> QED
      BY <1>8, <3>1, Exclusive
  <2>2. CASE d \notin D
    BY <1>2, <2>2 DEF Spares
  <2> QED
    BY <2>1, <2>2
<1>12. Commit(r)
  BY <1>2
<1>13. pay' \in [Pays -> PayRow]
  BY <1>6
<1> QED
  BY <1>12, <1>13, <1>5, <1>7, <1>9, <1>10, <1>11, EndKeeps

\* A rollback writes nothing.
LEMMA RollbackKeeps ==
    ASSUME IInv, NEW r \in Requests, Rollback(r)
    PROVE  IInv'
<1>1. Commit(r) /\ UNCHANGED <<doc, pay, entry, stale, filled>>
  BY DEF Rollback, Commit
<1>2. AllocatedExist' /\ PaidWithin'
  BY <1>1 DEF IInv, AllocatedExist, PaidWithin
<1> QED
  BY <1>1, <1>2, EndKeeps DEF IInv, TypeOK, WritesOwn, Spares

-------------------------------------------------------------------------------

\* The empty books satisfy the invariant.
THEOREM InitEstablishes == Init => IInv
<1> SUFFICES ASSUME Init PROVE IInv
  OBVIOUS
<1> USE DEF Init
<1>1. NoDoc \in DocRow /\ NoPay \in PayRow /\ NoEntry \in Entry /\ Idle \in Request
  BY DEF NoDoc, DocRow, DocStatus, NoPay, PayRow, NoAlloc, NoEntry, Entry, Idle, Request, Steps
<1>2. TypeOK
  BY <1>1 DEF TypeOK, L!NoLocks, L!LocksTypeOK
<1>3. L!LocksExclusive
  BY DEF L!NoLocks, L!LocksExclusive
<1>4. ASSUME NEW r \in Requests PROVE Knows(r)
  BY NoneAssumption DEF Knows, CreateKnows, PostKnows, CancelKnows, PayKnows, CancelPayKnows,
                        IdleKnows, Idle, L!NoLocks, Operations
<1>5. AllocatedExist
  BY StoredAmounts DEF AllocatedExist, NoPay, NoAlloc
<1>6. PaidWithin
  BY StoredAmounts DEF PaidWithin, NoDoc
<1> QED
  BY <1>2, <1>3, <1>4, <1>5, <1>6 DEF IInv

\* Every step of every request keeps the invariant.
THEOREM NextPreserves == IInv /\ [Next]_vars => IInv'
<1> SUFFICES ASSUME IInv, [Next]_vars PROVE IInv'
  OBVIOUS
<1>1. CASE UNCHANGED vars
  BY <1>1 DEF vars, IInv, TypeOK, L!LocksTypeOK, L!LocksExclusive, Knows, CreateKnows, PostKnows,
              CancelKnows, PayKnows, CancelPayKnows, IdleKnows, HoldsAllocated,
              Allocatable, AllocatedExist, PaidWithin
<1>2. ASSUME NEW r \in Requests,
             Start(r) \/ Proceed(r) \/ Fail(r) \/ DeadlockVictim(r)
      PROVE  IInv'
  <2>1. CASE Start(r)
    BY <2>1, StartKeeps
  <2>2. CASE Proceed(r)
    BY <2>2, LockDocumentKeeps, TakeNumberKeeps, ReadEntryKeeps, TakeJournalNumberKeeps,
       CommitCreateKeeps, CommitPostKeeps, CommitCancelKeeps, CommitPayKeeps,
       CommitCancelPayKeeps, RollbackKeeps
       DEF Proceed, Refuse
  <2>3. CASE Fail(r) \/ DeadlockVictim(r)
    BY <2>3, RollbackKeeps DEF Fail, DeadlockVictim
  <2> QED
    BY <1>2, <2>1, <2>2, <2>3
<1> QED
  BY <1>1, <1>2 DEF Next

\* In every reachable state rows are locked by one transaction at most, and a request that
\* will write a row holds it as it read it: the inductive invariant of the control.
THEOREM Invariance == Spec => []IInv
  BY InitEstablishes, NextPreserves, PTL DEF Spec

\* Every variable holds rows of its table, whatever the number of documents,
\* payments and requests.
THEOREM TypeCorrect == Spec => []TypeOK
<1>1. IInv => TypeOK
  BY DEF IInv
<1> QED
  BY <1>1, Invariance, PTL

-------------------------------------------------------------------------------
(* What is paid, and what is booked for it.  A request knows more than     *)
(* which rows it holds: a payment being created is in no table yet, the    *)
(* row that a cancellation read is still the payment's unless the payment  *)
(* was cancelled since, and a payment that allocates anything cannot have  *)
(* been, once its documents are locked and its entry was found posted.     *)

PayTaken(row) == [row EXCEPT !.status = "cancelled"]

PayInserts(r) ==
    req[r].op = "pay" =>
        /\ pay[req[r].src] = NoPay
        /\ \A q \in Requests \ {r} : req[q].src # req[r].src
        /\ req[r].row.status = "posted"

PayReads(r) ==
    req[r].op = "cancelPay" =>
        /\ req[r].row.status = "posted"
        /\ pay[req[r].src] \in {req[r].row, PayTaken(req[r].row)}
        /\ req[r].step \in {"journal", "commit"} /\ req[r].row.docs # {} =>
              pay[req[r].src] = req[r].row

DocInserts(r) == req[r].op = "create" => ~req[r].row.je

\* A cancellation that read a cancelled row goes on only for a stale one.
DocReads(r) ==
    req[r].op = "cancel" =>
        /\ req[r].row \in DocRow /\ req[r].row.paid <= 0
        /\ req[r].row.status = "cancelled" =>
              req[r].src \in stale \/ doc[req[r].src].status = "cancelled"
        /\ req[r].row.status = "cancelled" /\ req[r].row.je
           /\ req[r].step \in {"journal", "commit"} =>
              req[r].src \in stale

Reads(r) == PayInserts(r) /\ PayReads(r) /\ DocInserts(r) /\ DocReads(r)

\* The entry of a payment tells its status, and its allocations are to
\* documents of its owner.
PaymentTold(p) ==
    /\ pay[p].status = "none" => pay[p] = NoPay /\ entry[p] = NoEntry
    /\ pay[p].status = "posted" => entry[p] = [status |-> "posted", mirrors |-> 0]
    /\ pay[p].status = "cancelled" =>
          entry[p].status = "reversed" /\ (p \notin stale => entry[p].mirrors = 1)
    /\ \A d \in pay[p].docs : Owner[d] = pay[p].owner /\ doc[d].je

\* So does the entry of a document that was not cancelled from a stale row.
DocumentTold(d) ==
    /\ doc[d].status \in {"none", "draft"} => ~doc[d].je
    /\ doc[d].status \in LiveStatus => doc[d].je
    /\ d \notin stale =>
          /\ doc[d].status \in {"none", "draft"} => entry[d] = NoEntry
          /\ doc[d].status \in LiveStatus => entry[d] = [status |-> "posted", mirrors |-> 0]
          /\ doc[d].status = "cancelled" =>
                /\ doc[d].paid = 0
                /\ entry[d] \in {NoEntry, [status |-> "reversed", mirrors |-> 1]}

\* What is paid on the documents of an owner is what the owner's payments
\* allocate.
PaidOf(o) == [d \in Docs |-> IF Owner[d] = o THEN doc[d].paid ELSE 0]
AllocatedOf(o) ==
    [p \in Pays |-> IF pay[p].owner = o /\ pay[p].status = "posted"
                    THEN SumOver(pay[p].alloc) ELSE 0]
OwnerPaid(o) == SumOver(PaidOf(o)) = SumOver(AllocatedOf(o))

\* A document that is partially paid and owes nothing is one that rounding filled.
PartTold ==
    \A d \in Docs :
        doc[d].status = "partially_paid" /\ doc[d].paid = doc[d].total =>
            d \in filled \/ RoundedAway(d)

\* What the posted payments allocate to a document.
PostedOn(d) == [p \in Pays |-> IF pay[p].status = "posted" THEN pay[p].alloc[d] ELSE 0]

BInv ==
    /\ \A r \in Requests : Reads(r)
    /\ \A p \in Pays : PaymentTold(p)
    /\ \A d \in Docs : DocumentTold(d)
    /\ PaidIsAllocated /\ PartTold
    /\ \A o \in Owners : OwnerPaid(o)

\* The sums of this section add up integers over finite sets.
LEMMA SumsOfIntegers ==
    ASSUME TypeOK
    PROVE  /\ \A d \in Docs : PostedOn(d) \in [Pays -> Nat]
           /\ \A o : PaidOf(o) \in [Docs -> Int]
           /\ \A p \in Pays : SumOver(pay[p].alloc) \in Nat
           /\ \A o : AllocatedOf(o) \in [Pays -> Nat]
<1>1. doc \in [Docs -> DocRow] /\ pay \in [Pays -> PayRow]
  BY DEF TypeOK
<1>2. \A p \in Pays : pay[p].alloc \in [Docs -> Nat]
  BY <1>1 DEF PayRow
<1>3. ASSUME NEW p \in Pays PROVE SumOver(pay[p].alloc) \in Nat
  BY <1>2, SumIsNat, SourcesAssumption
<1>4. \A d \in Docs : PostedOn(d) \in [Pays -> Nat]
  BY <1>2 DEF PostedOn
<1>5. \A o : PaidOf(o) \in [Docs -> Int]
  BY <1>1 DEF PaidOf, DocRow
<1>6. \A o : AllocatedOf(o) \in [Pays -> Nat]
  BY <1>3 DEF AllocatedOf
<1> QED
  BY <1>3, <1>4, <1>5, <1>6

\* And so they do after a step.
LEMMA SumsOfIntegersNext ==
    ASSUME TypeOK'
    PROVE  /\ \A d \in Docs : PostedOn(d)' \in [Pays -> Nat]
           /\ \A o : PaidOf(o)' \in [Docs -> Int]
           /\ \A p \in Pays : SumOver(pay'[p].alloc) \in Nat
           /\ \A o : AllocatedOf(o)' \in [Pays -> Nat]
<1>1. doc' \in [Docs -> DocRow] /\ pay' \in [Pays -> PayRow]
  BY DEF TypeOK
<1>2. \A p \in Pays : pay'[p].alloc \in [Docs -> Nat]
  BY <1>1 DEF PayRow
<1>3. ASSUME NEW p \in Pays PROVE SumOver(pay'[p].alloc) \in Nat
  BY <1>2, SumIsNat, SourcesAssumption
<1>4. \A d \in Docs : PostedOn(d)' \in [Pays -> Nat]
  BY <1>2 DEF PostedOn
<1>5. \A o : PaidOf(o)' \in [Docs -> Int]
  BY <1>1 DEF PaidOf, DocRow
<1>6. \A o : AllocatedOf(o)' \in [Pays -> Nat]
  BY <1>3 DEF AllocatedOf
<1> QED
  BY <1>3, <1>4, <1>5, <1>6

\* Nothing less than nothing is ever paid.
LEMMA PaidIsNat ==
    ASSUME IInv, BInv, NEW d \in Docs
    PROVE  doc[d].paid \in Nat /\ doc[d].paid = SumOver(PostedOn(d))
<1>1. PostedOn(d) \in [Pays -> Nat]
  BY SumsOfIntegers DEF IInv
<1>2. SumOver(PostedOn(d)) \in Nat
  BY <1>1, SumIsNat, SourcesAssumption
<1>3. doc[d].paid = SumOver(PostedOn(d))
  BY DEF BInv, PaidIsAllocated, PostedOn
<1> QED
  BY <1>2, <1>3

\* A step that writes no table changes none of the sums.
LEMMA QuietKeeps ==
    ASSUME IInv, BInv, NEW r \in Requests,
           UNCHANGED <<doc, pay, entry, stale, filled>>,
           \A q \in Requests \ {r} : req'[q] = req[q],
           \A q \in Requests \ {r} : req[q].op = "pay" => req[q].src # req'[r].src,
           Reads(r)'
    PROVE  BInv'
<1>1. ASSUME NEW q \in Requests \ {r} PROVE Reads(q)'
  BY DEF BInv, Reads, PayInserts, PayReads, DocInserts, DocReads
<1>2. \A p \in Pays : PaymentTold(p)'
  BY DEF BInv, PaymentTold
<1>3. \A d \in Docs : DocumentTold(d)'
  BY DEF BInv, DocumentTold
<1>4. PaidIsAllocated' /\ PartTold'
  BY DEF BInv, PaidIsAllocated, PartTold, RoundedAway
<1>5. \A o \in Owners : OwnerPaid(o)'
  BY DEF BInv, OwnerPaid, PaidOf, AllocatedOf
<1> QED
  BY <1>1, <1>2, <1>3, <1>4, <1>5 DEF BInv

\* A request that begins writes no row, and knows nothing yet that could be stale.
LEMMA BeginsKeepBooks ==
    ASSUME IInv, BInv, NEW r \in Requests, Start(r)
    PROVE  BInv'
<1> USE SourcesAssumption, NoneAssumption DEF Sources, Operations
<1>1. req \in [Requests -> Request] /\ doc \in [Docs -> DocRow]
  BY DEF IInv, TypeOK
<1>2. ASSUME NEW d \in Docs, NEW total \in Totals, NEW andPost \in BOOLEAN,
             BeginCreate(r, d, total, andPost)
      PROVE  BInv'
  <2>1. \A q \in Requests : req[q].op = "pay" => req[q].src # d
    BY <1>2 DEF BeginCreate, Fresh
  <2>2. Begin(r, "number", "create", d, Draft(total), <<>>, andPost)
    BY <1>2 DEF BeginCreate
  <2>3. req'[r].op = "create" /\ ~req'[r].row.je
    BY <1>1, <2>2 DEF Begin, Draft
  <2>4. Reads(r)'
    BY <2>3 DEF Reads, PayInserts, PayReads, DocInserts, DocReads
  <2>9. /\ req'[r].src = d /\ UNCHANGED <<doc, pay, entry, stale, filled>>
        /\ \A q \in Requests \ {r} : req'[q] = req[q]
    BY <1>1, <2>2 DEF Begin
  <2> QED
    BY <2>1, <2>4, <2>9, QuietKeeps
<1>3. ASSUME NEW d \in Docs, BeginPost(r, d)
      PROVE  BInv'
  <2>1. \A q \in Requests : req[q].op = "pay" => req[q].src # d
    BY DEF IInv, Knows, PayKnows, HoldsAllocated
  <2>2. Begin(r, "rows", "post", d, None, <<d>>, FALSE)
    BY <1>3 DEF BeginPost
  <2>3. req'[r].op = "post"
    BY <1>1, <2>2 DEF Begin
  <2>4. Reads(r)'
    BY <2>3 DEF Reads, PayInserts, PayReads, DocInserts, DocReads
  <2>9. /\ req'[r].src = d /\ UNCHANGED <<doc, pay, entry, stale, filled>>
        /\ \A q \in Requests \ {r} : req'[q] = req[q]
    BY <1>1, <2>2 DEF Begin
  <2> QED
    BY <2>1, <2>4, <2>9, QuietKeeps
<1>4. ASSUME NEW d \in Docs, BeginCancel(r, d)
      PROVE  BInv'
  <2>1. \A q \in Requests : req[q].op = "pay" => req[q].src # d
    BY DEF IInv, Knows, PayKnows, HoldsAllocated
  <2> DEFINE first == IF doc[d].je THEN "entry" ELSE "commit"
  <2>2. Begin(r, first, "cancel", d, doc[d], <<>>, FALSE) /\ doc[d].paid <= 0
    BY <1>4 DEF BeginCancel
  <2> HIDE DEF first
  <2>3. /\ req'[r].op = "cancel" /\ req'[r].src = d /\ req'[r].row = doc[d]
        /\ req'[r].step = first /\ UNCHANGED <<doc, stale, filled>>
    BY <1>1, <2>2 DEF Begin
  <2>4. doc[d] \in DocRow
    BY <1>1
  <2>5. DocReads(r)'
    BY <2>2, <2>3, <2>4 DEF DocReads, first
  <2>6. Reads(r)'
    BY <2>3, <2>5 DEF Reads, PayInserts, PayReads, DocInserts
  <2>9. /\ req'[r].src = d /\ UNCHANGED <<doc, pay, entry, stale, filled>>
        /\ \A q \in Requests \ {r} : req'[q] = req[q]
    BY <1>1, <2>2 DEF Begin
  <2> QED
    BY <2>1, <2>6, <2>9, QuietKeeps
<1>5. ASSUME NEW p \in Pays, NEW owner \in Owners, NEW gross \in Amounts,
             NEW alloc \in [Docs -> Amounts \cup {0}], NEW order \in Orders(Allocated(alloc)),
             BeginPay(r, p, owner, gross, alloc, order)
      PROVE  BInv'
  <2>1. \A q \in Requests : req[q].src # p
    BY <1>5 DEF BeginPay, Fresh
  <2> DEFINE first == IF order = <<>> THEN "number" ELSE "rows"
             new  == [status |-> "posted", owner |-> owner, gross |-> gross, alloc |-> alloc,
                      docs |-> Allocated(alloc)]
  <2>2. Begin(r, first, "pay", p, new, order, FALSE) /\ pay[p] = NoPay /\ new.status = "posted"
    BY <1>5 DEF BeginPay
  <2> HIDE DEF first, new
  <2>3. /\ req'[r].op = "pay" /\ req'[r].src = p /\ req'[r].row = new
        /\ UNCHANGED pay /\ \A q \in Requests \ {r} : req'[q] = req[q]
    BY <1>1, <2>2 DEF Begin
  <2>4. PayInserts(r)'
    BY <2>1, <2>2, <2>3 DEF PayInserts
  <2>5. Reads(r)'
    BY <2>3, <2>4 DEF Reads, PayReads, DocInserts, DocReads
  <2>9. /\ req'[r].src = p /\ UNCHANGED <<doc, pay, entry, stale, filled>>
        /\ \A q \in Requests \ {r} : req'[q] = req[q]
    BY <1>1, <2>2 DEF Begin
  <2> QED
    BY <2>1, <2>5, <2>9, QuietKeeps
<1>6. ASSUME NEW p \in Pays, NEW order \in Orders(pay[p].docs),
             BeginCancelPay(r, p, order)
      PROVE  BInv'
  <2> DEFINE first == IF order = <<>> THEN "entry" ELSE "rows"
  <2>1. pay[p].status = "posted" /\ Begin(r, first, "cancelPay", p, pay[p], order, FALSE)
    BY <1>6 DEF BeginCancelPay
  <2>2. first \notin {"journal", "commit"}
    OBVIOUS
  <2> HIDE DEF first
  <2>3. \A q \in Requests : req[q].op = "pay" => req[q].src # p
    BY <2>1 DEF BInv, Reads, PayInserts, NoPay
  <2>4. /\ req'[r].op = "cancelPay" /\ req'[r].src = p /\ req'[r].row = pay[p]
        /\ req'[r].step = first /\ UNCHANGED pay
    BY <1>1, <2>1 DEF Begin
  <2>5. Reads(r)'
    BY <2>1, <2>2, <2>4 DEF Reads, PayInserts, PayReads, DocInserts, DocReads
  <2>9. /\ req'[r].src = p /\ UNCHANGED <<doc, pay, entry, stale, filled>>
        /\ \A q \in Requests \ {r} : req'[q] = req[q]
    BY <1>1, <2>1 DEF Begin
  <2> QED
    BY <2>3, <2>5, <2>9, QuietKeeps
<1> QED
  BY <1>2, <1>3, <1>4, <1>5, <1>6 DEF Start, StartWith

\* A request that only moves on keeps what it read; to its last steps a
\* cancellation comes only by finding the entry posted.
LEMMA StepsKeepBooks ==
    ASSUME IInv, BInv, NEW r \in Requests,
           UNCHANGED <<doc, pay, entry, stale, filled>>,
           req' = [req EXCEPT ![r] = req'[r]],
           req'[r].op = req[r].op, req'[r].src = req[r].src, req'[r].row = req[r].row,
           \/ req'[r].step \notin {"journal", "commit"}
           \/ req[r].step = "journal"
           \/ req[r].op \notin {"cancel", "cancelPay"}
           \/ entry[req[r].src].status = "posted"
    PROVE  BInv'
<1>1. \A q \in Requests \ {r} : req'[q] = req[q]
  BY DEF IInv, TypeOK
<1>2. PayInserts(r)' /\ DocInserts(r)'
  BY <1>1 DEF BInv, Reads, PayInserts, DocInserts
<1>3. PayReads(r)'
  <2>1. CASE req[r].op = "cancelPay" /\ entry[req[r].src].status = "posted"
    <3>1. req[r].src \in Pays /\ pay[req[r].src].status # "cancelled"
      BY <2>1 DEF BInv, PaymentTold, IInv, Knows, CancelPayKnows, HoldsAllocated
    <3>2. PayTaken(req[r].row).status = "cancelled"
      BY <2>1 DEF PayTaken, IInv, Knows, CancelPayKnows, HoldsAllocated, PayRow
    <3> QED
      BY <2>1, <3>1, <3>2 DEF BInv, Reads, PayReads
  <2> QED
    BY <2>1 DEF BInv, Reads, PayReads
<1>4. DocReads(r)'
  <2>1. CASE req[r].op = "cancel" /\ entry[req[r].src].status = "posted"
    <3>1. req[r].src \in Docs
      BY <2>1 DEF IInv, Knows, CancelKnows
    <3>2. doc[req[r].src].status = "cancelled" => req[r].src \in stale
      BY <2>1, <3>1 DEF BInv, DocumentTold, NoEntry
    <3> QED
      BY <2>1, <3>2 DEF BInv, Reads, DocReads
  <2> QED
    BY <2>1 DEF BInv, Reads, DocReads
<1> QED
  BY <1>1, <1>2, <1>3, <1>4, QuietKeeps DEF Reads, BInv, PayInserts

\* Another request's commit leaves what q read as good as it was, if it
\* writes the payment that q read only to cancel it, while q can still see
\* that, and brings back no cancelled document.
LEMMA BystanderReads ==
    ASSUME IInv, BInv, NEW r \in Requests, NEW q \in Requests \ {r}, Commit(r),
           stale \subseteq stale',
           req[q].op = "pay" => pay'[req[q].src] = pay[req[q].src],
           req[q].op = "cancelPay" =>
               \/ pay'[req[q].src] = pay[req[q].src]
               \/ /\ pay'[req[q].src] = PayTaken(pay[req[q].src])
                  /\ req[q].step \in {"journal", "commit"} => req[q].row.docs = {},
           \A d \in Docs : doc[d].status = "cancelled" =>
               doc'[d].status = "cancelled" \/ d \in stale'
    PROVE  Reads(q)'
<1>1. /\ req'[q] = req[q]
      /\ \A s \in Requests : req'[s] = req[s] \/ req'[s] = Idle
  BY DEF Commit, IInv, TypeOK
<1>2. PayInserts(q)'
  BY <1>1, SourcesAssumption DEF BInv, Reads, PayInserts, Idle, IInv, Knows, PayKnows, HoldsAllocated
<1>3. PayReads(q)'
  <2>1. \A row \in PayRow : PayTaken(PayTaken(row)) = PayTaken(row)
    BY DEF PayTaken, PayRow
  <2> QED
    BY <1>1, <2>1 DEF BInv, Reads, PayReads, IInv, Knows, CancelPayKnows, HoldsAllocated
<1>4. DocInserts(q)'
  BY <1>1 DEF BInv, Reads, DocInserts
<1>5. DocReads(q)'
  BY <1>1 DEF BInv, Reads, DocReads, IInv, Knows, CancelKnows
<1> QED
  BY <1>2, <1>3, <1>4, <1>5 DEF Reads

\* The request that has committed is over.
LEMMA DoneReads ==
    ASSUME IInv, NEW r \in Requests, Commit(r)
    PROVE  Reads(r)'
<1>1. req'[r] = Idle
  BY DEF Commit, IInv, TypeOK
<1> QED
  BY <1>1, NoneAssumption
     DEF Reads, PayInserts, PayReads, DocInserts, DocReads, Idle, Operations

\* A commit that writes one document and leaves its paidAmount.
LEMMA DocumentCommit ==
    ASSUME IInv, BInv, NEW r \in Requests, Commit(r), UNCHANGED <<pay, filled>>,
           NEW d \in Docs,
           \A e \in Docs \ {d} : doc'[e] = doc[e],
           \A s \in Sources \ {d} : entry'[s] = entry[s],
           stale' \in {stale, stale \cup {d}},
           doc'[d].paid = doc[d].paid, doc[d].je => doc'[d].je,
           doc'[d].status # "partially_paid",
           doc[d].status = "cancelled" => doc'[d].status = "cancelled" \/ d \in stale',
           DocumentTold(d)'
    PROVE  BInv'
<1>1. ASSUME NEW q \in Requests PROVE Reads(q)'
  BY DoneReads, BystanderReads
<1>2. ASSUME NEW p \in Pays PROVE PaymentTold(p)'
  <2>1. entry'[p] = entry[p] /\ (p \in stale' <=> p \in stale)
    BY SourcesAssumption DEF Sources
  <2>2. pay[p].docs \subseteq Docs
    BY DEF IInv, TypeOK, PayRow
  <2>3. \A e \in Docs : doc[e].je => doc'[e].je
    OBVIOUS
  <2> QED
    BY <2>1, <2>2, <2>3 DEF BInv, PaymentTold
<1>3. ASSUME NEW e \in Docs PROVE DocumentTold(e)'
  BY DEF BInv, DocumentTold, Sources
<1>4. \A e \in Docs : doc'[e].paid = doc[e].paid
  OBVIOUS
<1>5. PaidIsAllocated' /\ PartTold'
  BY <1>4 DEF BInv, PaidIsAllocated, PartTold, RoundedAway
<1>6. ASSUME NEW o \in Owners PROVE OwnerPaid(o)'
  BY <1>4 DEF BInv, OwnerPaid, PaidOf, AllocatedOf
<1> QED
  BY <1>1, <1>2, <1>3, <1>5, <1>6 DEF BInv

\* CommitCreate keeps the books consistent.
LEMMA CommitCreateKeepsBooks ==
    ASSUME IInv, BInv, NEW r \in Requests, CommitCreate(r)
    PROVE  BInv'
<1>0. PICK d \in Docs : d = req[r].src
  BY DEF CommitCreate, At, IInv, Knows, CreateKnows
<1> DEFINE new == req[r].row
           written == IF req[r].andPost THEN PostedRow(new) ELSE new
<1>1. /\ d \in Docs /\ doc[d] = NoDoc /\ new \in DocRow
      /\ new.status = "draft" /\ new.paid = 0 /\ ~new.je
  BY <1>0 DEF CommitCreate, At, IInv, Knows, CreateKnows, BInv, Reads, DocInserts
<1>2. /\ doc' = [doc EXCEPT ![d] = written]
      /\ entry' = IF req[r].andPost THEN Posted(d) ELSE entry
      /\ Commit(r) /\ UNCHANGED <<pay, stale, filled>>
  BY <1>0 DEF CommitCreate
<1>3. d \notin stale => entry[d] = NoEntry
  BY <1>1 DEF BInv, DocumentTold, NoDoc
<1> HIDE DEF new
<1>4. /\ written.status = IF req[r].andPost THEN "posted" ELSE "draft"
      /\ written.je = req[r].andPost /\ written.paid = 0
  <2>1. new.je = FALSE
    BY <1>1 DEF DocRow
  <2>2. req[r].andPost \in BOOLEAN
    BY DEF IInv, TypeOK, Request
  <2>3. CASE req[r].andPost = TRUE
    BY <1>1, <2>3 DEF PostedRow
  <2>4. CASE req[r].andPost = FALSE
    BY <1>1, <2>1, <2>4
  <2> QED
    BY <2>2, <2>3, <2>4
<1> HIDE DEF written
<1>5. doc'[d] = written /\ (\A e \in Docs \ {d} : doc'[e] = doc[e])
      /\ \A s \in Sources \ {d} : entry'[s] = entry[s]
  BY <1>1, <1>2 DEF IInv, TypeOK, Posted
<1>6. d \notin stale =>
          entry'[d] = IF req[r].andPost THEN [status |-> "posted", mirrors |-> 0] ELSE NoEntry
  BY <1>1, <1>2, <1>3 DEF IInv, TypeOK, Posted, NoEntry, Sources
<1>7. DocumentTold(d)'
  BY <1>2, <1>4, <1>5, <1>6 DEF DocumentTold, LiveStatus, OpenStatus
<1>8. /\ doc[d].status = "none" /\ doc[d].paid = 0
      /\ doc'[d].status \in {"posted", "draft"} /\ doc'[d].paid = 0
  BY <1>1, <1>4, <1>5 DEF NoDoc
<1>9. Commit(r) /\ UNCHANGED <<pay, filled>> /\ stale' \in {stale, stale \cup {d}}
  BY <1>2
<1>10. ~doc[d].je
  BY <1>1 DEF NoDoc
<1> QED
  BY <1>5, <1>7, <1>8, <1>9, <1>10, DocumentCommit

\* CommitPost keeps the books consistent.
LEMMA CommitPostKeepsBooks ==
    ASSUME IInv, BInv, NEW r \in Requests, CommitPost(r)
    PROVE  BInv'
<1>0. PICK d \in Docs : d = req[r].src
  BY DEF CommitPost, At, IInv, Knows, PostKnows
<1>1. d \in Docs /\ doc[d].status = "draft" /\ doc[d].paid = 0
  BY <1>0 DEF CommitPost, At, IInv, TypeOK, Knows, PostKnows, PaidWithin
<1>2. /\ doc' = [doc EXCEPT ![d] = PostedRow(doc[d])] /\ entry' = Posted(d)
      /\ Commit(r) /\ UNCHANGED <<pay, stale, filled>>
  BY <1>0 DEF CommitPost
<1>3. d \notin stale => entry[d] = NoEntry
  BY <1>1 DEF BInv, DocumentTold
<1>4. /\ doc'[d].status = "posted" /\ doc'[d].je /\ doc'[d].paid = 0
      /\ \A e \in Docs \ {d} : doc'[e] = doc[e]
      /\ \A s \in Sources \ {d} : entry'[s] = entry[s]
  BY <1>1, <1>2 DEF IInv, TypeOK, Posted, PostedRow
<1>5. d \notin stale => entry'[d] = [status |-> "posted", mirrors |-> 0]
  BY <1>1, <1>2, <1>3 DEF IInv, TypeOK, Posted, NoEntry, Sources
<1>6. DocumentTold(d)'
  BY <1>2, <1>4, <1>5 DEF DocumentTold, LiveStatus, OpenStatus
<1> QED
  BY <1>1, <1>2, <1>4, <1>6, DocumentCommit

\* A document that was cancelled as it had been read leaves its entry with
\* one mirror, if it had an entry.
LEMMA CommitCancelKeepsBooks ==
    ASSUME IInv, BInv, NEW r \in Requests, CommitCancel(r)
    PROVE  BInv'
<1>0. PICK d \in Docs : d = req[r].src
  BY DEF CommitCancel, At, IInv, Knows, CancelKnows
<1> DEFINE read == req[r].row
<1>1. /\ d \in Docs /\ doc[d] \in DocRow /\ doc[d].status # "none"
      /\ read \in DocRow /\ read.paid <= 0
      /\ read.status = "cancelled" /\ read.je => d \in stale
  BY <1>0 DEF CommitCancel, At, IInv, TypeOK, Knows, CancelKnows, BInv, Reads, DocReads
<1>2. /\ doc' = [doc EXCEPT ![d].status = "cancelled"]
      /\ entry' = IF read.je THEN Reversed(d) ELSE entry
      /\ stale' = IF doc[d] = read THEN stale ELSE stale \cup {d}
      /\ Commit(r) /\ UNCHANGED <<pay, filled>>
  BY <1>0 DEF CommitCancel
<1>3. doc[d].paid >= 0
  BY <1>1, PaidIsNat
<1> HIDE DEF read
<1>4. /\ doc'[d].status = "cancelled" /\ doc'[d].paid = doc[d].paid /\ doc'[d].je = doc[d].je
      /\ \A e \in Docs \ {d} : doc'[e] = doc[e]
      /\ \A s \in Sources \ {d} : entry'[s] = entry[s]
  BY <1>1, <1>2 DEF IInv, TypeOK, Reversed, DocRow
<1>5. ASSUME d \notin stale'
      PROVE  /\ doc'[d].paid = 0
             /\ entry'[d] \in {NoEntry, [status |-> "reversed", mirrors |-> 1]}
  <2>1. doc[d] = read /\ d \notin stale
    BY <1>2, <1>5
  <2>2. doc[d].paid = 0
    BY <1>1, <1>3, <2>1 DEF DocRow
  <2>3. CASE read.je
    <3>1. doc[d].status \in LiveStatus
      BY <1>1, <2>1, <2>3 DEF BInv, DocumentTold, DocRow, DocStatus
    <3>2. entry[d] = [status |-> "posted", mirrors |-> 0]
      BY <1>1, <2>1, <3>1 DEF BInv, DocumentTold
    <3>3. entry'[d] = [status |-> "reversed", mirrors |-> 1]
      BY <1>1, <1>2, <2>3, <3>2 DEF Reversed, IInv, TypeOK, Sources
    <3> QED
      BY <1>4, <2>2, <3>3
  <2>4. CASE ~read.je
    <3>1. doc[d].status \in {"draft", "cancelled"}
      BY <1>1, <2>1, <2>4 DEF BInv, DocumentTold, DocRow, DocStatus
    <3>2. entry[d] \in {NoEntry, [status |-> "reversed", mirrors |-> 1]}
      BY <1>1, <2>1, <3>1 DEF BInv, DocumentTold
    <3> QED
      BY <1>2, <1>4, <2>2, <2>4, <3>2
  <2> QED
    BY <2>3, <2>4
<1>6. DocumentTold(d)'
  <2>1. doc'[d].status \notin {"none", "draft"} \cup LiveStatus
    BY <1>4 DEF LiveStatus, OpenStatus
  <2> QED
    BY <1>5, <2>1 DEF DocumentTold
<1>7. stale' \in {stale, stale \cup {d}} /\ Commit(r) /\ UNCHANGED <<pay, filled>>
  BY <1>2
<1> QED
  BY <1>1, <1>4, <1>6, <1>7, DocumentCommit

\* A commit that writes one payment p, of owner, and changes what is paid on
\* the documents by what it changes of the payment's posted allocations.
LEMMA PaymentSums ==
    ASSUME IInv, IInv', BInv, NEW p \in Pays, NEW owner, NEW change \in [Docs -> Int],
           \A q \in Pays \ {p} : pay'[q] = pay[q],
           pay[p].status = "posted" => pay[p].owner = owner,
           pay'[p].status = "posted" => pay'[p].owner = owner,
           \A d \in Docs : doc'[d].paid = doc[d].paid + change[d],
           \A d \in Docs : change[d] # 0 => Owner[d] = owner,
           \A d \in Docs :
               (IF pay'[p].status = "posted" THEN pay'[p].alloc[d] ELSE 0)
               = (IF pay[p].status = "posted" THEN pay[p].alloc[d] ELSE 0) + change[d],
           (IF pay'[p].status = "posted" THEN SumOver(pay'[p].alloc) ELSE 0)
           = (IF pay[p].status = "posted" THEN SumOver(pay[p].alloc) ELSE 0) + SumOver(change)
    PROVE  /\ \A d \in Docs : doc'[d].paid = SumOver(PostedOn(d)')
           /\ \A o \in Owners : OwnerPaid(o)'
<1>1. /\ IsFiniteSet(Docs) /\ IsFiniteSet(Pays)
      /\ \A d \in Docs : PostedOn(d) \in [Pays -> Nat]
      /\ \A o : PaidOf(o) \in [Docs -> Int]
      /\ \A o : AllocatedOf(o) \in [Pays -> Nat]
  BY SumsOfIntegers, SourcesAssumption DEF IInv
<1>2. /\ \A d \in Docs : PostedOn(d)' \in [Pays -> Nat]
      /\ \A o : PaidOf(o)' \in [Docs -> Int]
      /\ \A o : AllocatedOf(o)' \in [Pays -> Nat]
  BY SumsOfIntegersNext DEF IInv
<1>3. ASSUME NEW d \in Docs PROVE doc'[d].paid = SumOver(PostedOn(d)')
  <2>1. /\ PostedOn(d)'[p] = PostedOn(d)[p] + change[d]
        /\ \A q \in Pays \ {p} : PostedOn(d)[q] = PostedOn(d)'[q]
    BY DEF PostedOn
  <2> DEFINE f == PostedOn(d)
             g == PostedOn(d)'
  <2>2. f \in [Pays -> Nat] /\ g \in [Pays -> Nat] /\ g[p] = f[p] + change[d]
        /\ \A q \in Pays \ {p} : f[q] = g[q]
    BY <1>1, <1>2, <2>1
  <2> HIDE DEF f, g
  <2>3. SumOver(g) = SumOver(f) - f[p] + g[p]
    BY <1>1, <2>2, SumChanges
  <2>4. SumOver(f) \in Nat
    BY <1>1, <2>2, SumIsNat
  <2>5. doc[d].paid = SumOver(f)
    BY DEF BInv, PaidIsAllocated, f, PostedOn
  <2>6. doc'[d].paid = SumOver(g)
    BY <2>2, <2>3, <2>4, <2>5
  <2> QED
    BY <2>6 DEF g
<1>4. ASSUME NEW o \in Owners, o # owner PROVE OwnerPaid(o)'
  <2>1. PaidOf(o)' = PaidOf(o)
    <3>1. \A d \in Docs : Owner[d] = o => doc'[d].paid = doc[d].paid
      BY <1>4 DEF IInv, TypeOK, DocRow
    <3> QED
      BY <3>1 DEF PaidOf
  <2>2. AllocatedOf(o)' = AllocatedOf(o)
    BY <1>4 DEF AllocatedOf
  <2> QED
    BY <2>1, <2>2 DEF BInv, OwnerPaid
<1>5. ASSUME owner \in Owners PROVE OwnerPaid(owner)'
  <2> DEFINE f == PaidOf(owner)
             g == PaidOf(owner)'
             a == AllocatedOf(owner)
             b == AllocatedOf(owner)'
  <2>1. /\ f \in [Docs -> Int] /\ g \in [Docs -> Int]
        /\ a \in [Pays -> Int] /\ b \in [Pays -> Int]
    BY <1>1, <1>2
  <2>2. ASSUME NEW d \in Docs PROVE g[d] = f[d] + change[d]
    <3>1. f[d] = IF Owner[d] = owner THEN doc[d].paid ELSE 0
      BY DEF PaidOf
    <3>2. g[d] = IF Owner[d] = owner THEN doc'[d].paid ELSE 0
      BY DEF PaidOf
    <3> QED
      BY <3>1, <3>2
  <2>3. /\ b[p] = a[p] + SumOver(change)
        /\ \A q \in Pays \ {p} : a[q] = b[q]
    BY DEF AllocatedOf
  <2>4. SumOver(f) = SumOver(a)
    BY <1>5 DEF BInv, OwnerPaid
  <2> HIDE DEF f, g, a, b
  <2>5. SumOver(g) = SumOver(f) + SumOver(change)
    <3>1. change \in [Docs -> Int] /\ IsFiniteSet(Docs)
      BY <1>1
    <3> QED
      BY ONLY <3>1, <2>1, <2>2, SumAdds
  <2>6. SumOver(b) = SumOver(a) - a[p] + b[p]
    BY <1>1, <2>1, <2>3, SumChanges
  <2>7. SumOver(a) \in Int /\ SumOver(change) \in Int /\ a[p] \in Int
    <3>1. SumOver(a) \in Int
      BY <1>1, <2>1, SumIsInt
    <3>2. SumOver(change) \in Int
      BY <1>1, SumIsInt
    <3> QED
      BY <2>1, <3>1, <3>2
  <2>8. SumOver(g) = SumOver(b)
    BY <2>3, <2>4, <2>5, <2>6, <2>7
  <2> QED
    BY <2>8 DEF OwnerPaid, g, b
<1> QED
  BY <1>3, <1>4, <1>5

\* CommitPay keeps the books consistent.
LEMMA CommitPayKeepsBooks ==
    ASSUME IInv, IInv', BInv, NEW r \in Requests, CommitPay(r)
    PROVE  BInv'
<1>1. PICK p \in Pays, new \in PayRow : p = req[r].src /\ new = req[r].row
  BY DEF CommitPay, At, IInv, Knows, PayKnows, HoldsAllocated
<1> DEFINE D == new.docs
<1>2. /\ new.alloc \in [Docs -> Nat] /\ new.owner \in Owners /\ new.status = "posted"
      /\ pay[p] = NoPay /\ \A q \in Requests \ {r} : req[q].src # p
      /\ \A d \in D : d \in Docs /\ Allocatable(d, new)
      /\ \A d \in Docs \ D : new.alloc[d] = 0
  BY <1>1 DEF CommitPay, At, IInv, Knows, PayKnows, HoldsAllocated, PayRow, BInv, Reads, PayInserts
<1>3. /\ pay' = [pay EXCEPT ![p] = Rounded(new)] /\ entry' = Posted(p)
      /\ doc' = [d \in Docs |-> IF d \in D THEN Credited(d, new.alloc[d]) ELSE doc[d]]
      /\ filled' = (filled \ D) \cup {d \in D : Fills(d, new.alloc[d])}
      /\ Commit(r) /\ UNCHANGED stale
  BY <1>1 DEF CommitPay
<1>15. PICK kept \in PayRow : kept = Rounded(new)
  BY <1>1, <1>3, SourcesAssumption DEF IInv, TypeOK, Sources
<1>16. /\ kept.status = "posted" /\ kept.owner = new.owner /\ kept.docs = D
       /\ kept.alloc \in [Docs -> Nat] /\ \A d \in Docs : kept.alloc[d] = m2(new.alloc[d])
  BY <1>2, <1>15 DEF Rounded, PayRow
<1>4. \A d \in Docs \ D : kept.alloc[d] = 0
  BY <1>2, <1>16, StoredAmounts DEF Stored
<1> HIDE DEF D
<1>5. /\ pay'[p] = kept /\ pay[p].status = "none" /\ \A q \in Pays \ {p} : pay'[q] = pay[q]
      /\ \A q \in Pays \ {p} : entry'[q] = entry[q]
      /\ \A d \in Docs : entry'[d] = entry[d]
  BY <1>2, <1>3, <1>15, SourcesAssumption DEF IInv, TypeOK, Posted, NoPay, Sources
<1>6. entry'[p] = [status |-> "posted", mirrors |-> 0]
  <2>1. entry[p] = NoEntry
    BY <1>5 DEF BInv, PaymentTold
  <2> QED
    BY <1>3, <2>1 DEF Posted, NoEntry, IInv, TypeOK, Sources
<1>7. ASSUME NEW d \in D
      PROVE  /\ d \in Docs /\ doc[d].status \in OpenStatus /\ Owner[d] = kept.owner
             /\ doc'[d].paid = doc[d].paid + kept.alloc[d] /\ doc'[d].je = doc[d].je
             /\ doc'[d].status \in {"paid", "partially_paid"}
             /\ doc'[d].status = "partially_paid" /\ doc'[d].paid = doc'[d].total =>
                   d \in filled'
  <2>1. d \in Docs /\ Allocatable(d, new) /\ new.alloc[d] \in Nat
    BY <1>2, <1>7
  <2>2. doc'[d] = Credited(d, new.alloc[d])
    BY <1>3, <1>7, <2>1
  <2>3. m2(doc[d].paid + new.alloc[d]) = doc[d].paid + kept.alloc[d]
    BY <1>16, <2>1, RoundSum DEF IInv, PaidWithin
  <2>4. doc'[d].status = "partially_paid" /\ doc'[d].paid = doc'[d].total =>
            Fills(d, new.alloc[d])
    BY <2>2 DEF Credited, Fills
  <2> QED
    BY <1>3, <1>7, <1>16, <2>1, <2>2, <2>3, <2>4 DEF Allocatable, Credited
<1>8. ASSUME NEW d \in Docs \ D
      PROVE  doc'[d] = doc[d] /\ (d \in filled => d \in filled')
  BY <1>3, <1>8
<1>17. \A d \in Docs : doc[d].je => doc'[d].je
  BY <1>7, <1>8
<1>9. ASSUME NEW q \in Requests PROVE Reads(q)'
  <2>1. \A d \in Docs : doc[d].status = "cancelled" => doc'[d].status = "cancelled"
    BY <1>7, <1>8 DEF OpenStatus
  <2>2. CASE q # r
    <3>1. req[q].op \in {"pay", "cancelPay"} => req[q].src \in Pays \ {p}
      BY <1>2, <2>2 DEF IInv, Knows, PayKnows, CancelPayKnows, HoldsAllocated
    <3> QED
      BY <1>3, <1>5, <2>1, <2>2, <3>1, BystanderReads
  <2> QED
    BY <1>3, <2>2, DoneReads
<1>10. ASSUME NEW q \in Pays PROVE PaymentTold(q)'
  <2>1. CASE q = p
    <3>1. \A d \in kept.docs : Owner[d] = kept.owner /\ doc'[d].je
      BY <1>7, <1>16 DEF BInv, DocumentTold, LiveStatus
    <3> QED
      BY <1>16, <1>5, <1>6, <2>1, <3>1 DEF PaymentTold
  <2>2. CASE q # p
    <3>1. pay[q].docs \subseteq Docs
      BY DEF IInv, TypeOK, PayRow
    <3> QED
      BY <1>3, <1>5, <1>17, <2>2, <3>1 DEF PaymentTold, BInv
  <2> QED
    BY <2>1, <2>2
<1>11. ASSUME NEW d \in Docs PROVE DocumentTold(d)'
  <2>1. CASE d \in D
    <3>1. DocumentTold(d)
      BY DEF BInv
    <3>2. /\ doc[d].status \in OpenStatus /\ doc'[d].status \in {"paid", "partially_paid"}
          /\ doc'[d].je = doc[d].je /\ entry'[d] = entry[d] /\ stale' = stale
      BY <1>3, <1>5, <1>7, <2>1
    <3> QED
      BY <3>1, <3>2 DEF DocumentTold, LiveStatus, OpenStatus
  <2>2. CASE d \notin D
    BY <1>3, <1>5, <1>8, <2>2 DEF DocumentTold, BInv
  <2> QED
    BY <2>1, <2>2
<1>12. /\ \A d \in Docs : doc'[d].paid = SumOver(PostedOn(d)')
       /\ \A o \in Owners : OwnerPaid(o)'
  <2>1. kept.alloc \in [Docs -> Int] /\ SumOver(kept.alloc) \in Nat
    BY <1>16, SumIsNat, SourcesAssumption
  <2>2. ASSUME NEW d \in Docs
        PROVE  /\ doc'[d].paid = doc[d].paid + kept.alloc[d]
               /\ kept.alloc[d] # 0 => Owner[d] = kept.owner
    <3>1. doc[d].paid \in Int
      BY DEF IInv, TypeOK, DocRow
    <3> QED
      BY <1>4, <1>7, <1>8, <3>1
  <2>3. \A d \in Docs :
           (IF pay'[p].status = "posted" THEN pay'[p].alloc[d] ELSE 0)
           = (IF pay[p].status = "posted" THEN pay[p].alloc[d] ELSE 0) + kept.alloc[d]
    BY <1>16, <1>5
  <2>4. (IF pay'[p].status = "posted" THEN SumOver(pay'[p].alloc) ELSE 0)
        = (IF pay[p].status = "posted" THEN SumOver(pay[p].alloc) ELSE 0) + SumOver(kept.alloc)
    BY <1>16, <1>5, <2>1
  <2>5. /\ IInv /\ IInv' /\ BInv /\ p \in Pays
        /\ pay[p].status # "posted" /\ pay'[p].owner = kept.owner
        /\ \A q \in Pays \ {p} : pay'[q] = pay[q]
    BY <1>2, <1>5
  <2> QED
    BY ONLY <2>1, <2>2, <2>3, <2>4, <2>5, PaymentSums
<1>18. \A d \in Docs : RoundedAway(d) => RoundedAway(d)'
  BY <1>2, <1>5 DEF RoundedAway, NoPay
<1>13. ASSUME NEW d \in Docs, doc'[d].status = "partially_paid"
       PROVE  doc'[d].paid > 0 \/ RoundedAway(d)'
  <2>1. CASE d \in D
    <3>1. doc[d].paid \in Nat /\ kept.alloc[d] \in Nat
      BY <1>16, PaidIsNat
    <3>2. kept.alloc[d] = 0 => RoundedAway(d)'
      BY <1>5, <1>16, <2>1 DEF RoundedAway
    <3> QED
      BY <1>7, <2>1, <3>1, <3>2
  <2>2. CASE d \notin D
    BY <1>8, <1>13, <1>18, <2>2 DEF BInv, PaidIsAllocated
  <2> QED
    BY <2>1, <2>2
<1>14. PaidIsAllocated'
  BY <1>12, <1>13 DEF PaidIsAllocated, PostedOn
<1>19. PartTold'
  BY <1>7, <1>8, <1>18 DEF BInv, PartTold
<1> QED
  BY <1>9, <1>10, <1>11, <1>12, <1>14, <1>19 DEF BInv

\* CommitCancelPay keeps the books consistent.
LEMMA CommitCancelPayKeepsBooks ==
    ASSUME IInv, IInv', BInv, NEW r \in Requests, CommitCancelPay(r)
    PROVE  BInv'
<1>1. PICK p \in Pays, read \in PayRow : p = req[r].src /\ read = req[r].row
  BY DEF CommitCancelPay, At, IInv, Knows, CancelPayKnows, HoldsAllocated
<1> DEFINE D == read.docs
<1>2. /\ read.alloc \in [Docs -> Nat] /\ read.status = "posted"
      /\ pay[p] \in {read, PayTaken(read)}
      /\ D # {} => pay[p] = read
      /\ \A d \in D : d \in Docs /\ d \in locks[r] /\ doc[d].status # "none"
      /\ \A d \in Docs \ D : read.alloc[d] = 0
      /\ \A d \in Docs : read.alloc[d] \in Stored
  BY <1>1 DEF CommitCancelPay, At, IInv, Knows, CancelPayKnows, HoldsAllocated, PayRow,
              BInv, Reads, PayReads
<1>3. /\ pay' = [pay EXCEPT ![p].status = "cancelled"] /\ entry' = Reversed(p)
      /\ doc' = [d \in Docs |-> IF d \in D THEN Uncredited(d, read.alloc[d]) ELSE doc[d]]
      /\ stale \subseteq stale' /\ (pay[p] # read => p \in stale')
      /\ \A d \in D : doc[d].status = "cancelled" => d \in stale'
      /\ filled' = filled \ D
      /\ Commit(r)
  BY <1>1 DEF CommitCancelPay
<1>4. \A d \in Docs \ D : read.alloc[d] = 0
  BY <1>2
<1>5. \A q \in Requests \ {r} :
         req[q].op = "cancelPay" /\ req[q].src = p /\ req[q].step \in {"journal", "commit"} =>
             req[q].row.docs = {}
  <2> SUFFICES ASSUME NEW q \in Requests \ {r}, req[q].op = "cancelPay", req[q].src = p,
                      req[q].step \in {"journal", "commit"},
                      NEW d \in req[q].row.docs
               PROVE  FALSE
    OBVIOUS
  <2>1. /\ pay[p] = req[q].row
        /\ d \in locks[q] /\ d \in Docs
    <3>1. Knows(q) /\ Reads(q) /\ req[q].row.docs # {}
      BY DEF BInv, IInv
    <3>2. pay[p] = req[q].row
      BY <3>1 DEF Reads, PayReads
    <3>3. d \in locks[q] /\ d \in Docs
      BY <3>1 DEF Knows, CancelPayKnows, HoldsAllocated, PayRow
    <3> QED
      BY <3>2, <3>3
  <2>2. read.docs = pay[p].docs
    BY <1>2 DEF PayTaken, PayRow
  <2>3. d \in D
    BY <2>1, <2>2
  <2> QED
    BY <1>2, <2>1, <2>3 DEF IInv, L!LocksExclusive
<1> HIDE DEF D
<1>6. /\ pay'[p] = PayTaken(pay[p]) /\ pay[p].status # "none"
      /\ \A q \in Pays \ {p} : pay'[q] = pay[q]
      /\ \A q \in Pays \ {p} : entry'[q] = entry[q]
      /\ \A d \in Docs : entry'[d] = entry[d]
      /\ entry'[p] = [status |-> "reversed", mirrors |-> entry[p].mirrors + 1]
  BY <1>2, <1>3, SourcesAssumption DEF IInv, TypeOK, Reversed, PayTaken, PayRow, Sources
<1>7. ASSUME NEW d \in Docs \ D
      PROVE  doc'[d] = doc[d] /\ (d \in filled => d \in filled')
  BY <1>3, <1>7
<1>8. ASSUME NEW d \in D
      PROVE  /\ d \in Docs /\ doc'[d].paid = doc[d].paid - read.alloc[d]
             /\ doc'[d].total = doc[d].total /\ doc'[d].je = doc[d].je
             /\ doc'[d].status \in {"posted", "partially_paid"}
             /\ doc'[d].status = "partially_paid" => doc'[d].paid # 0
             /\ d \notin stale' => doc[d].status \in LiveStatus
             /\ Owner[d] = pay[p].owner /\ doc[d].je
             /\ d \in pay[p].docs /\ pay[p].alloc[d] = read.alloc[d]
  <2>1. D # {} /\ d \in Docs /\ pay[p] = read /\ doc[d].status # "none"
    BY <1>2, <1>8
  <2>2. doc'[d] = Uncredited(d, read.alloc[d])
    BY <1>3, <1>8, <2>1
  <2>3. m2(doc[d].paid - read.alloc[d]) = doc[d].paid - read.alloc[d]
    BY <1>2, <2>1, StoredAmounts DEF IInv, PaidWithin
  <2>4. Owner[d] = pay[p].owner /\ doc[d].je /\ d \in pay[p].docs
    BY <1>8, <2>1 DEF BInv, PaymentTold, D
  <2>5. d \notin stale' => doc[d].status \in LiveStatus
    <3>1. doc[d].status \in DocStatus
      BY <2>1 DEF IInv, TypeOK, DocRow
    <3> QED
      BY <1>3, <1>8, <2>1, <2>4, <3>1 DEF BInv, DocumentTold, DocStatus
  <2> QED
    BY <2>1, <2>2, <2>3, <2>4, <2>5 DEF Uncredited
<1>15. \A d \in Docs : doc[d].je => doc'[d].je
  BY <1>7, <1>8
<1>9. ASSUME NEW q \in Requests PROVE Reads(q)'
  <2>1. \A d \in Docs :
           doc[d].status = "cancelled" => doc'[d].status = "cancelled" \/ d \in stale'
    BY <1>3, <1>7
  <2>2. CASE q # r
    <3>1. req[q].op = "pay" => req[q].src \in Pays \ {p}
      BY <1>6, <2>2 DEF IInv, Knows, PayKnows, HoldsAllocated, BInv, Reads, PayInserts, NoPay
    <3>2. req[q].op = "cancelPay" => req[q].src \in Pays
      BY DEF IInv, Knows, CancelPayKnows, HoldsAllocated
    <3>3. stale \subseteq stale'
      BY <1>3
    <3>4. /\ req[q].op = "pay" => pay'[req[q].src] = pay[req[q].src]
          /\ req[q].op = "cancelPay" =>
               \/ pay'[req[q].src] = pay[req[q].src]
               \/ /\ pay'[req[q].src] = PayTaken(pay[req[q].src])
                  /\ req[q].step \in {"journal", "commit"} => req[q].row.docs = {}
      BY <1>5, <1>6, <2>2, <3>1, <3>2
    <3> QED
      BY <1>3, <2>1, <2>2, <3>3, <3>4, BystanderReads
  <2> QED
    BY <1>3, <2>2, DoneReads
<1>10. ASSUME NEW q \in Pays PROVE PaymentTold(q)'
  <2>1. CASE q = p
    <3>1. pay'[p].status = "cancelled" /\ pay'[p].alloc = pay[p].alloc
          /\ pay'[p].owner = pay[p].owner /\ pay'[p].docs = pay[p].docs
      BY <1>6 DEF PayTaken, IInv, TypeOK, PayRow
    <3>2. p \notin stale' => entry'[p].mirrors = 1
      <4>1. p \notin stale' => pay[p].status = "posted"
        BY <1>2, <1>3
      <4> QED
        BY <1>6, <4>1 DEF BInv, PaymentTold
    <3>3. \A d \in pay[p].docs : Owner[d] = pay[p].owner /\ doc'[d].je
      BY <1>15 DEF BInv, PaymentTold, IInv, TypeOK, PayRow
    <3> QED
      BY <1>6, <2>1, <3>1, <3>2, <3>3 DEF PaymentTold
  <2>2. CASE q # p
    <3>1. q \notin stale' => q \notin stale
      BY <1>3
    <3>2. \A d \in pay[q].docs : d \in Docs
      BY DEF IInv, TypeOK, PayRow
    <3> QED
      BY <1>6, <1>15, <2>2, <3>1, <3>2 DEF PaymentTold, BInv
  <2> QED
    BY <2>1, <2>2
<1>11. ASSUME NEW d \in Docs PROVE DocumentTold(d)'
  <2>1. d \notin stale' => d \notin stale
    BY <1>3
  <2>2. CASE d \in D
    <3>1. d \notin stale' => entry[d] = [status |-> "posted", mirrors |-> 0]
      BY <1>8, <2>1, <2>2 DEF BInv, DocumentTold
    <3> QED
      BY <1>6, <1>8, <2>2, <3>1 DEF DocumentTold
  <2>3. CASE d \notin D
    BY <1>6, <1>7, <2>1, <2>3 DEF DocumentTold, BInv
  <2> QED
    BY <2>2, <2>3
<1>12. /\ \A d \in Docs : doc'[d].paid = SumOver(PostedOn(d)')
       /\ \A o \in Owners : OwnerPaid(o)'
  <2>1. PICK change \in [Docs -> Int] : \A d \in Docs : change[d] = 0 - read.alloc[d]
    <3>1. [d \in Docs |-> 0 - read.alloc[d]] \in [Docs -> Int]
      BY <1>2
    <3> QED
      BY <3>1
  <2>2. read.alloc \in [Docs -> Int]
    BY <1>2
  <2>3. SumOver(change) = 0 - SumOver(read.alloc) /\ SumOver(read.alloc) \in Nat
    <3>1. SumOver(read.alloc) \in Nat
      BY <1>2, SumIsNat, SourcesAssumption
    <3>2. SumOver(change) = 0 - SumOver(read.alloc)
      BY <2>1, <2>2, SumNegates, SourcesAssumption
    <3> QED
      BY <3>1, <3>2
  <2>4. ASSUME NEW d \in Docs
        PROVE  /\ doc'[d].paid = doc[d].paid + change[d]
               /\ change[d] # 0 => Owner[d] = pay[p].owner
    <3>1. doc[d].paid \in Int /\ read.alloc[d] \in Nat
      BY <1>2 DEF IInv, TypeOK, DocRow
    <3> QED
      BY <1>4, <1>7, <1>8, <2>1, <3>1
  <2>5. pay'[p].status = "cancelled"
    BY <1>6 DEF PayTaken, IInv, TypeOK, PayRow
  <2>6. ASSUME pay[p].status # "posted", NEW d \in Docs PROVE change[d] = 0
    <3>1. D = {}
      BY <1>2, <2>6
    <3>2. read.alloc[d] = 0
      BY <1>4, <3>1
    <3> QED
      BY <2>1, <3>2
  <2>7. pay[p].status # "posted" => SumOver(change) = 0
    <3>1. IsFiniteSet(Docs)
      BY SourcesAssumption
    <3> QED
      BY <2>6, <3>1, SumOfZeros
  <2>8. pay[p].status = "posted" => pay[p] = read
    BY <1>2 DEF PayTaken, PayRow
  <2>9. ASSUME NEW d \in Docs
        PROVE  (IF pay'[p].status = "posted" THEN pay'[p].alloc[d] ELSE 0)
               = (IF pay[p].status = "posted" THEN pay[p].alloc[d] ELSE 0) + change[d]
    <3>1. read.alloc[d] \in Nat /\ change[d] = 0 - read.alloc[d]
      BY <1>2, <2>1
    <3> QED
      BY <2>5, <2>6, <2>8, <3>1
  <2>10. (IF pay'[p].status = "posted" THEN SumOver(pay'[p].alloc) ELSE 0)
         = (IF pay[p].status = "posted" THEN SumOver(pay[p].alloc) ELSE 0) + SumOver(change)
    BY <2>3, <2>5, <2>7, <2>8
  <2>11. /\ IInv /\ IInv' /\ BInv /\ p \in Pays /\ change \in [Docs -> Int]
         /\ pay'[p].status # "posted"
         /\ \A q \in Pays \ {p} : pay'[q] = pay[q]
    BY <1>6, <2>5
  <2>12. PICK owner : owner = pay[p].owner
    OBVIOUS
  <2>13. /\ pay[p].status = "posted" => pay[p].owner = owner
         /\ pay'[p].status = "posted" => pay'[p].owner = owner
         /\ \A d \in Docs : doc'[d].paid = doc[d].paid + change[d]
         /\ \A d \in Docs : change[d] # 0 => Owner[d] = owner
    BY <2>4, <2>5, <2>12
  <2>14. \A d \in Docs : (IF pay'[p].status = "posted" THEN pay'[p].alloc[d] ELSE 0)
                         = (IF pay[p].status = "posted" THEN pay[p].alloc[d] ELSE 0) + change[d]
    BY <2>9
  <2> QED
    BY ONLY <2>10, <2>11, <2>13, <2>14, PaymentSums
<1>16. \A d \in Docs : RoundedAway(d) => RoundedAway(d)'
  <2>1. pay'[p].docs = pay[p].docs /\ pay'[p].alloc = pay[p].alloc
    BY <1>6 DEF PayTaken, IInv, TypeOK, PayRow
  <2> QED
    BY <1>6, <2>1 DEF RoundedAway
<1>13. ASSUME NEW d \in Docs, doc'[d].status = "partially_paid"
       PROVE  doc'[d].paid > 0 \/ RoundedAway(d)'
  <2>1. CASE d \in D
    <3>1. PostedOn(d)' \in [Pays -> Nat]
      BY SumsOfIntegersNext DEF IInv
    <3>2. SumOver(PostedOn(d)') \in Nat
      BY <3>1, SumIsNat, SourcesAssumption
    <3>3. doc'[d].paid \in Nat /\ doc'[d].paid # 0
      BY <1>8, <1>12, <1>13, <2>1, <3>2
    <3> QED
      BY <3>3
  <2>2. CASE d \notin D
    BY <1>7, <1>13, <1>16, <2>2 DEF BInv, PaidIsAllocated
  <2> QED
    BY <2>1, <2>2
<1>14. PaidIsAllocated'
  BY <1>12, <1>13 DEF PaidIsAllocated, PostedOn
<1>17. ASSUME NEW d \in Docs, doc'[d].status = "partially_paid", doc'[d].paid = doc'[d].total
       PROVE  d \in filled' \/ RoundedAway(d)'
  <2>1. CASE d \in D
    <3>1. /\ doc'[d].paid = doc[d].paid - read.alloc[d] /\ doc'[d].total = doc[d].total
          /\ d \in pay[p].docs /\ pay[p].alloc[d] = read.alloc[d]
      BY <1>8, <2>1
    <3>2. doc[d].paid \in Int /\ doc[d].total \in Int /\ doc[d].paid <= doc[d].total
          /\ read.alloc[d] \in Nat
      BY <1>2 DEF IInv, TypeOK, DocRow, PaidWithin
    <3>3. doc[d].paid - read.alloc[d] = doc[d].total
      BY <1>17, <3>1
    <3>4. read.alloc[d] = 0
      BY ONLY <3>2, <3>3
    <3> QED
      BY <1>16, <3>1, <3>4 DEF RoundedAway
  <2>2. CASE d \notin D
    BY <1>7, <1>16, <1>17, <2>2 DEF BInv, PartTold
  <2> QED
    BY <2>1, <2>2
<1> QED
  BY <1>9, <1>10, <1>11, <1>12, <1>14, <1>17 DEF BInv, PartTold

\* A request that fails leaves the books as they were.
LEMMA RollbackKeepsBooks ==
    ASSUME IInv, BInv, NEW r \in Requests, Rollback(r)
    PROVE  BInv'
<1>1. Commit(r) /\ UNCHANGED <<doc, pay, entry, stale, filled>>
  BY DEF Rollback, Commit
<1>2. req'[r] = Idle /\ \A q \in Requests \ {r} : req'[q] = req[q]
  BY <1>1 DEF Commit, IInv, TypeOK
<1>3. Reads(r)'
  BY <1>1, DoneReads
<1>4. \A q \in Requests \ {r} : req[q].op = "pay" => req[q].src # req'[r].src
  BY <1>2, SourcesAssumption DEF Idle, IInv, Knows, PayKnows, HoldsAllocated
<1> QED
  BY <1>1, <1>2, <1>3, <1>4, QuietKeeps

\* The steps between a request's begin and its commit keep the books: they lock, read and
\* number, and write nothing.
LEMMA MovesKeepBooks ==
    ASSUME IInv, BInv, NEW r \in Requests,
           LockDocument(r) \/ TakeNumber(r) \/ ReadEntry(r) \/ TakeJournalNumber(r)
    PROVE  BInv'
<1>1. CASE LockDocument(r)
  <2> DEFINE rest == Tail(req[r].todo)
             next == IF rest = <<>> THEN AfterRows[req[r].op] ELSE "rows"
  <2>1. UNCHANGED <<doc, pay, entry, stale, filled>> /\ Advance(r, next, rest) /\ req[r].step = "rows"
    BY <1>1 DEF LockDocument
  <2>2. req[r].op = "cancelPay" => next \notin {"journal", "commit"}
    BY DEF AfterRows
  <2> HIDE DEF next, rest
  <2>3. req[r].op # "cancel"
    BY <2>1 DEF IInv, Knows, CancelKnows
  <2>4. /\ req' = [req EXCEPT ![r] = req'[r]]
        /\ req'[r].step = next /\ req'[r].op = req[r].op
        /\ req'[r].src = req[r].src /\ req'[r].row = req[r].row
    BY <2>1 DEF Advance, IInv, TypeOK
  <2> QED
    BY <2>1, <2>2, <2>3, <2>4, StepsKeepBooks
<1>2. CASE TakeNumber(r)
  <2>1. PICK step \in Steps : Goto(r, step)
    BY <1>2 DEF TakeNumber, Steps
  <2>2. UNCHANGED <<doc, pay, entry, stale, filled>> /\ req[r].op \in {"create", "pay"}
    BY <1>2 DEF TakeNumber
  <2>3. /\ req' = [req EXCEPT ![r] = req'[r]] /\ req'[r].op = req[r].op
        /\ req'[r].src = req[r].src /\ req'[r].row = req[r].row
    BY <2>1, GotoStep
  <2> QED
    BY <2>2, <2>3, StepsKeepBooks
<1>3. CASE ReadEntry(r)
  <2>1. Goto(r, "journal") /\ UNCHANGED <<doc, pay, entry, stale, filled>>
        /\ entry[req[r].src].status = "posted"
    BY <1>3 DEF ReadEntry
  <2>2. /\ req' = [req EXCEPT ![r] = req'[r]] /\ req'[r].op = req[r].op
        /\ req'[r].src = req[r].src /\ req'[r].row = req[r].row
    BY <2>1, GotoStep DEF Steps
  <2> QED
    BY <2>1, <2>2, StepsKeepBooks
<1>4. CASE TakeJournalNumber(r)
  <2>1. Goto(r, "commit") /\ UNCHANGED <<doc, pay, entry, stale, filled>> /\ req[r].step = "journal"
    BY <1>4 DEF TakeJournalNumber
  <2>2. /\ req' = [req EXCEPT ![r] = req'[r]] /\ req'[r].op = req[r].op
        /\ req'[r].src = req[r].src /\ req'[r].row = req[r].row
    BY <2>1, GotoStep DEF Steps
  <2> QED
    BY <2>1, <2>2, StepsKeepBooks
<1> QED
  BY <1>1, <1>2, <1>3, <1>4

-------------------------------------------------------------------------------

\* At the start nothing is paid, allocated or booked.
THEOREM InitBooks == Init => BInv
<1> SUFFICES ASSUME Init PROVE BInv
  OBVIOUS
<1>1. IInv
  BY InitEstablishes
<1>2. ASSUME NEW r \in Requests PROVE Reads(r)
  BY NoneAssumption DEF Init, Reads, PayInserts, PayReads, DocInserts, DocReads, Idle, Operations
<1>3. ASSUME NEW p \in Pays PROVE PaymentTold(p)
  BY DEF Init, PaymentTold, NoPay, NoAlloc, Sources
<1>4. ASSUME NEW d \in Docs PROVE DocumentTold(d)
  BY DEF Init, DocumentTold, NoDoc, LiveStatus, OpenStatus, Sources
<1>5. ASSUME NEW d \in Docs PROVE doc[d].paid = SumOver(PostedOn(d)) /\ doc[d].status = "none"
  <2>1. PostedOn(d) \in [Pays -> Int] /\ \A p \in Pays : PostedOn(d)[p] = 0
    BY DEF Init, PostedOn, NoPay
  <2>2. SumOver(PostedOn(d)) = 0
    BY <2>1, SumOfZeros, SourcesAssumption
  <2> QED
    BY <2>2 DEF Init, NoDoc
<1>6. PaidIsAllocated /\ PartTold
  BY <1>5 DEF PaidIsAllocated, PostedOn, PartTold
<1>7. ASSUME NEW o \in Owners PROVE OwnerPaid(o)
  <2>1. PaidOf(o) \in [Docs -> Int] /\ \A d \in Docs : PaidOf(o)[d] = 0
    BY DEF Init, PaidOf, NoDoc
  <2>2. AllocatedOf(o) \in [Pays -> Int] /\ \A p \in Pays : AllocatedOf(o)[p] = 0
    BY DEF Init, AllocatedOf, NoPay
  <2>3. SumOver(PaidOf(o)) = 0
    BY <2>1, SumOfZeros, SourcesAssumption
  <2>4. SumOver(AllocatedOf(o)) = 0
    BY <2>2, SumOfZeros, SourcesAssumption
  <2> QED
    BY <2>3, <2>4 DEF OwnerPaid
<1> QED
  BY <1>2, <1>3, <1>4, <1>6, <1>7 DEF BInv

\* Every step keeps the books as the requests that take it know them.
THEOREM NextBooks == IInv /\ BInv /\ [Next]_vars => BInv'
<1> SUFFICES ASSUME IInv, BInv, [Next]_vars PROVE BInv'
  OBVIOUS
<1>1. IInv'
  BY NextPreserves
<1>2. CASE UNCHANGED vars
  <2>1. \A r \in Requests : Reads(r)'
    BY <1>2 DEF vars, BInv, Reads, PayInserts, PayReads, DocInserts, DocReads
  <2>2. \A p \in Pays : PaymentTold(p)'
    BY <1>2 DEF vars, BInv, PaymentTold
  <2>3. \A d \in Docs : DocumentTold(d)'
    BY <1>2 DEF vars, BInv, DocumentTold
  <2>4. PaidIsAllocated' /\ PartTold' /\ \A o \in Owners : OwnerPaid(o)'
    BY <1>2 DEF vars, BInv, PaidIsAllocated, PartTold, RoundedAway, OwnerPaid, PaidOf, AllocatedOf
  <2> QED
    BY <2>1, <2>2, <2>3, <2>4 DEF BInv
<1>3. ASSUME NEW r \in Requests,
             Start(r) \/ Proceed(r) \/ Fail(r) \/ DeadlockVictim(r)
      PROVE  BInv'
  <2>1. CASE Start(r)
    BY <2>1, BeginsKeepBooks
  <2>2. CASE Proceed(r)
    BY <1>1, <2>2, MovesKeepBooks, CommitCreateKeepsBooks, CommitPostKeepsBooks,
       CommitCancelKeepsBooks, CommitPayKeepsBooks, CommitCancelPayKeepsBooks,
       RollbackKeepsBooks
       DEF Proceed, Refuse
  <2>3. CASE Fail(r) \/ DeadlockVictim(r)
    BY <2>3, RollbackKeepsBooks DEF Fail, DeadlockVictim
  <2> QED
    BY <1>3, <2>1, <2>2, <2>3
<1> QED
  BY <1>2, <1>3 DEF Next

\* In every reachable state the books are consistent with one another: the invariant of the
\* documents, payments and entries, on top of the one about the control.
THEOREM BooksInvariance == Spec => [](IInv /\ BInv)
  BY InitEstablishes, InitBooks, NextPreserves, NextBooks, PTL DEF Spec

\* No update of a paidAmount is lost and no payment is taken back twice: what
\* is paid on a document is what the posted payments allocate to it, for any
\* number of payments and cancellations in any order.
THEOREM PaidIsKept == Spec => []PaidIsAllocated
<1>1. BInv => PaidIsAllocated
  BY DEF BInv
<1> QED
  BY <1>1, BooksInvariance, PTL

\* No document is ever paid beyond its total, rounding included, and its
\* status tells what is paid but where rounding has paid the rest or nothing,
\* however payments and cancellations interleave: each of them holds the row
\* of every document it writes from its check to its commit.
THEOREM NeverOverpaid == Spec => []StatusTellsPaid
<1>1. IInv /\ BInv => StatusTellsPaid
  BY DEF IInv, BInv, PaidWithin, PartTold, StatusTellsPaid
<1> QED
  BY <1>1, BooksInvariance, PTL

\* A source that was not cancelled from a stale row has one live entry while
\* it is posted and one mirror of it once it is cancelled.
THEOREM EntriesMatch == Spec => []EntryMatchesSource
<1>1. ASSUME BInv, TypeOK PROVE EntryMatchesSource
  <2>1. ASSUME NEW p \in Pays \ stale
        PROVE  /\ pay[p].status = "none" => entry[p] = NoEntry
               /\ pay[p].status = "posted" => entry[p] = [status |-> "posted", mirrors |-> 0]
               /\ pay[p].status = "cancelled" => entry[p] = [status |-> "reversed", mirrors |-> 1]
    <3>1. entry[p] \in Entry
      BY <1>1 DEF TypeOK, Sources
    <3> QED
      BY <1>1, <3>1 DEF BInv, PaymentTold, Entry
  <2>2. \A p \in Pays : pay[p].status \in {"none", "posted", "cancelled"}
    BY <1>1 DEF TypeOK, PayRow
  <2>3. ASSUME NEW p \in Pays \ stale
        PROVE  entry[p] = CASE pay[p].status = "none"      -> NoEntry
                            [] pay[p].status = "posted"    -> [status |-> "posted", mirrors |-> 0]
                            [] pay[p].status = "cancelled" -> [status |-> "reversed", mirrors |-> 1]
    BY <2>1, <2>2
  <2>4. ASSUME NEW d \in Docs \ stale
        PROVE  /\ doc[d].status \in {"none", "draft"} => entry[d] = NoEntry
               /\ doc[d].status \in LiveStatus => entry[d] = [status |-> "posted", mirrors |-> 0]
               /\ doc[d].status = "cancelled" =>
                     /\ doc[d].paid = 0
                     /\ entry[d] \in {NoEntry, [status |-> "reversed", mirrors |-> 1]}
    BY <1>1 DEF BInv, DocumentTold
  <2> QED
    BY <2>3, <2>4 DEF EntryMatchesSource
<1>2. IInv => TypeOK
  BY DEF IInv
<1> QED
  BY <1>1, <1>2, BooksInvariance, PTL

\* What stands on the control account for the documents of o, and for its
\* payments; what is outstanding; what is paid on account.
OnControl(o)   == [d \in Docs |-> IF Owner[d] = o THEN Balance(d, doc[d].total) ELSE 0]
Settled(o)     == [p \in Pays |-> IF pay[p].owner = o THEN Balance(p, pay[p].gross) ELSE 0]
Outstanding(o) == [d \in Docs |-> IF Owner[d] = o /\ doc[d].status \in OpenStatus
                                  THEN doc[d].total - doc[d].paid ELSE 0]
OnAccount(o)   == [p \in Pays |-> IF pay[p].owner = o /\ pay[p].status = "posted"
                                  THEN pay[p].gross - SumOver(pay[p].alloc) ELSE 0]

\* Document by document and payment by payment, the account and the report
\* differ by what is paid, which is what is allocated.
LEMMA ControlOfEach ==
    ASSUME IInv, BInv, stale = {}, NEW o
    PROVE  /\ Outstanding(o) \in [Docs -> Int] /\ OnAccount(o) \in [Pays -> Int]
           /\ OnControl(o) \in [Docs -> Int] /\ Settled(o) \in [Pays -> Int]
           /\ \A d \in Docs : OnControl(o)[d] = Outstanding(o)[d] + PaidOf(o)[d]
           /\ \A p \in Pays : Settled(o)[p] = OnAccount(o)[p] + AllocatedOf(o)[p]
<1>1. /\ \A d \in Docs : doc[d] \in DocRow
      /\ \A p \in Pays : pay[p] \in PayRow /\ SumOver(pay[p].alloc) \in Nat
  BY SumsOfIntegers DEF IInv, TypeOK
<1>2. ASSUME NEW d \in Docs
      PROVE  Balance(d, doc[d].total) = doc[d].paid + (IF doc[d].status \in OpenStatus
                                                       THEN doc[d].total - doc[d].paid ELSE 0)
  <2>1. doc[d].total \in Nat /\ doc[d].paid \in Int /\ doc[d].status \in DocStatus
    BY <1>1 DEF DocRow
  <2>2. CASE doc[d].status \in {"none", "draft"}
    <3>1. entry[d] = NoEntry /\ doc[d].paid = 0
      BY <2>2 DEF BInv, DocumentTold, IInv, PaidWithin
    <3> QED
      BY <2>2, <3>1 DEF Balance, NoEntry, OpenStatus
  <2>3. CASE doc[d].status \in LiveStatus
    <3>1. /\ entry[d] = [status |-> "posted", mirrors |-> 0]
          /\ doc[d].status = "paid" => doc[d].paid = doc[d].total
      BY <2>3 DEF BInv, DocumentTold, IInv, PaidWithin
    <3>2. Balance(d, doc[d].total) = doc[d].total
      BY <2>1, <3>1 DEF Balance
    <3> QED
      BY <2>1, <2>3, <3>1, <3>2 DEF LiveStatus, OpenStatus
  <2>4. CASE doc[d].status = "cancelled"
    <3>1. doc[d].paid = 0 /\ entry[d] \in {NoEntry, [status |-> "reversed", mirrors |-> 1]}
      BY <2>4 DEF BInv, DocumentTold
    <3>2. Balance(d, doc[d].total) = 0
      BY <2>1, <3>1 DEF Balance, NoEntry
    <3> QED
      BY <2>4, <3>1, <3>2 DEF OpenStatus
  <2> QED
    BY <2>1, <2>2, <2>3, <2>4 DEF DocStatus
<1>3. ASSUME NEW p \in Pays
      PROVE  Balance(p, pay[p].gross) = IF pay[p].status = "posted" THEN pay[p].gross ELSE 0
  <2>1. pay[p].gross \in Nat /\ pay[p].status \in {"none", "posted", "cancelled"}
    BY <1>1 DEF PayRow
  <2>2. CASE pay[p].status = "none"
    BY <2>2 DEF BInv, PaymentTold, Balance, NoEntry
  <2>3. CASE pay[p].status = "posted"
    <3>1. entry[p] = [status |-> "posted", mirrors |-> 0]
      BY <2>3 DEF BInv, PaymentTold
    <3> QED
      BY <2>1, <2>3, <3>1 DEF Balance
  <2>4. CASE pay[p].status = "cancelled"
    <3>1. entry[p].status = "reversed" /\ entry[p].mirrors = 1
      BY <2>4 DEF BInv, PaymentTold
    <3> QED
      BY <2>1, <2>4, <3>1 DEF Balance
  <2> QED
    BY <2>1, <2>2, <2>3, <2>4
<1>4. ASSUME NEW d \in Docs
      PROVE  /\ Outstanding(o)[d] \in Int /\ OnControl(o)[d] \in Int
             /\ OnControl(o)[d] = Outstanding(o)[d] + PaidOf(o)[d]
  <2>1. doc[d].total \in Nat /\ doc[d].paid \in Int
    BY <1>1 DEF DocRow
  <2> QED
    BY <1>2, <2>1 DEF Outstanding, OnControl, PaidOf
<1>5. ASSUME NEW p \in Pays
      PROVE  /\ OnAccount(o)[p] \in Int /\ Settled(o)[p] \in Int
             /\ Settled(o)[p] = OnAccount(o)[p] + AllocatedOf(o)[p]
  <2>1. pay[p].gross \in Nat /\ SumOver(pay[p].alloc) \in Nat
    BY <1>1 DEF PayRow
  <2> QED
    BY <1>3, <2>1 DEF OnAccount, Settled, AllocatedOf
<1>6. /\ Outstanding(o) \in [Docs -> Int] /\ OnControl(o) \in [Docs -> Int]
  BY <1>4 DEF Outstanding, OnControl
<1>7. OnAccount(o) \in [Pays -> Int] /\ Settled(o) \in [Pays -> Int]
  BY <1>5 DEF OnAccount, Settled
<1> QED
  BY <1>4, <1>5, <1>6, <1>7

\* The control account agrees with the ageing report, less what is paid on
\* account, as long as nothing was cancelled from a stale row: for any number
\* of owners, documents and payments.
THEOREM ControlAgrees == Spec => []ControlAccountAgrees
<1>1. ASSUME IInv, BInv PROVE ControlAccountAgrees
  <2> SUFFICES ASSUME stale = {}, NEW o \in Owners
               PROVE  SumOver(OnControl(o)) - SumOver(Settled(o))
                      = SumOver(Outstanding(o)) - SumOver(OnAccount(o))
    BY DEF ControlAccountAgrees, OnControl, Settled, Outstanding, OnAccount, Aging
  <2>1. PICK a, b, c, e, f, g :
           /\ a = OnControl(o) /\ b = Settled(o) /\ c = Outstanding(o)
           /\ e = OnAccount(o) /\ f = PaidOf(o) /\ g = AllocatedOf(o)
    OBVIOUS
  <2>2. /\ a \in [Docs -> Int] /\ c \in [Docs -> Int] /\ f \in [Docs -> Int]
        /\ IsFiniteSet(Docs) /\ \A d \in Docs : a[d] = c[d] + f[d]
    BY <1>1, <2>1, ControlOfEach, SumsOfIntegers, SourcesAssumption DEF IInv
  <2>3. /\ b \in [Pays -> Int] /\ e \in [Pays -> Int] /\ g \in [Pays -> Int]
        /\ IsFiniteSet(Pays) /\ \A p \in Pays : b[p] = e[p] + g[p]
    BY <1>1, <2>1, ControlOfEach, SumsOfIntegers, SourcesAssumption DEF IInv
  <2>4. SumOver(a) = SumOver(c) + SumOver(f)
    BY ONLY <2>2, SumAdds
  <2>5. SumOver(b) = SumOver(e) + SumOver(g)
    BY ONLY <2>3, SumAdds
  <2>6. SumOver(f) = SumOver(g)
    BY <1>1, <2>1 DEF BInv, OwnerPaid
  <2>7. SumOver(c) \in Int
    BY <2>2, SumIsInt
  <2>8. SumOver(e) \in Int
    BY <2>3, SumIsInt
  <2>9. SumOver(f) \in Int
    BY <2>2, SumIsInt
  <2>10. SumOver(a) - SumOver(b) = SumOver(c) - SumOver(e)
    BY <2>4, <2>5, <2>6, <2>7, <2>8, <2>9
  <2> QED
    BY <2>1, <2>10
<1> QED
  BY <1>1, BooksInvariance, PTL

-------------------------------------------------------------------------------
(* Ventures: a step of one module is none of the others                    *)

\* A step of the three is, for each, a step of its own or none.
LEMMA StepsOfEach ==
    ASSUME [VenturesNext]_ventures
    PROVE  [I!Next]_I!vars /\ [E!Next]_E!vars /\ [Q!Next]_Q!vars
BY DEF VenturesNext, ventures, investVars, recruitVars, quoteVars, I!vars, I!rows, E!vars, E!rows,
       Q!vars, Q!rows

-------------------------------------------------------------------------------
(* Investors                                                               *)

\* Finite sets are the same there, and so are sums.
LEMMA SumsAreThere ==
    /\ \A S : I!IsFiniteSet(S) <=> IsFiniteSet(S)
    /\ \A f : I!SumOver(f) = SumOver(f)
<1>1. \A S : I!IsFiniteSet(S) <=> IsFiniteSet(S)
  BY DEF I!IsFiniteSet, IsFiniteSet
<1>2. \A f : I!SumOver(f) = FoldOf(f)[DOMAIN f]
  BY DEF I!SumOver, I!FoldFunction, I!FoldFunctionOnSet, I!MapThenFoldSet, FoldOf, IsFold, FoldStep, FirstOf
<1> QED
  BY <1>1, <1>2, SumIsFold

InvestRequest ==
    [step : {"idle", "profit", "terms", "booked", "commit"}, op : I!Operations \cup {Nil},
     agreement : Agreements \cup {Nil}, terms : I!Term \cup {Nil}, investor : Investors \cup {Nil},
     movement : Movements \cup {Nil}, period : Periods \cup {Nil}, manual : BOOLEAN,
     amount : Int, earned : Int, late : BOOLEAN]

\* A share of the profit is of an agreement, for a period.
MoveTypes ==
    /\ movement \in [Movements -> I!Movement \cup {Nil}]
    /\ \A m \in Movements : movement[m] # Nil /\ movement[m].type \in I!Shares =>
          movement[m].agreement \in Agreements /\ movement[m].period \in Periods

InvestTypes ==
    /\ agreement \in [Agreements -> I!Term \cup {Nil}]
    /\ MoveTypes
    /\ profit \in [Days -> Int] /\ owed \in Int /\ again \in Int
    /\ booking \in [Agreements -> [Periods -> Int \cup {Nil}]]
    /\ investing \in [Clerks -> InvestRequest]

\* What a row adds to the balance of i, and to what is booked of a within p.
Worth(row, i) ==
    IF row # Nil /\ row.status = "posted" /\ row.investor = i THEN I!Signed(row) ELSE 0
BookedBy(row, a, p) ==
    IF /\ row # Nil /\ row.status = "posted" /\ row.type \in I!Shares
       /\ row.agreement = a /\ I!Within(row.period, p)
    THEN I!Signed(row) ELSE 0

\* It is an integer.
LEMMA WorthIsInt ==
    ASSUME I!Assumptions, NEW row \in I!Movement \cup {Nil}
    PROVE  /\ row # Nil => I!Signed(row) \in Int
           /\ \A i : Worth(row, i) \in Int
           /\ \A a, p : BookedBy(row, a, p) \in Int
<1>1. row # Nil => I!Signed(row) \in Int
  BY DEF I!Signed, I!Movement
<1> QED
  BY <1>1 DEF Worth, BookedBy

\* A balance, and what is booked, as the rows t say.
BalanceAt(t, i) ==
    I!SumOver([m \in {k \in Movements : /\ t[k] # Nil /\ t[k].status = "posted"
                                        /\ t[k].investor = i} |-> I!Signed(t[m])])
BookedAt(t, a, p) ==
    I!SumOver([m \in {k \in Movements : /\ t[k] # Nil /\ t[k].status = "posted"
                                        /\ t[k].type \in I!Shares
                                        /\ t[k].agreement = a /\ I!Within(t[k].period, p)}
                  |-> I!Signed(t[m])])

\* A balance adds up what every row adds to it.
LEMMA BalanceIsSum ==
    ASSUME I!Assumptions, NEW t \in [Movements -> I!Movement \cup {Nil}], NEW i
    PROVE  BalanceAt(t, i) = SumOver([m \in Movements |-> Worth(t[m], i)])
<1> DEFINE f == [m \in Movements |-> Worth(t[m], i)]
           R == {k \in Movements : t[k] # Nil /\ t[k].status = "posted" /\ t[k].investor = i}
<1>1. f \in [Movements -> Int] /\ IsFiniteSet(Movements)
  BY SumsAreThere, WorthIsInt DEF I!Assumptions
<1>2. R \in SUBSET Movements /\ \A m \in Movements \ R : f[m] = 0
  BY DEF Worth
<1>3. SumOver(f) = SumOver(Restrict(f, R))
  <2> HIDE DEF f, R
  <2> QED BY <1>1, <1>2, SumOfSome
<1>4. Restrict(f, R) = [m \in R |-> I!Signed(t[m])]
  <2>1. \A m \in R : f[m] = I!Signed(t[m])
    BY DEF Worth
  <2> HIDE DEF f, R
  <2> QED BY <2>1 DEF Restrict
<1> QED
  BY <1>3, <1>4, SumsAreThere DEF BalanceAt

\* So does what is booked of an agreement within a period.
LEMMA BookedIsSum ==
    ASSUME I!Assumptions, NEW t \in [Movements -> I!Movement \cup {Nil}], NEW a, NEW p
    PROVE  BookedAt(t, a, p) = SumOver([m \in Movements |-> BookedBy(t[m], a, p)])
<1> DEFINE f == [m \in Movements |-> BookedBy(t[m], a, p)]
           R == {k \in Movements : /\ t[k] # Nil /\ t[k].status = "posted"
                                   /\ t[k].type \in I!Shares
                                   /\ t[k].agreement = a /\ I!Within(t[k].period, p)}
<1>1. f \in [Movements -> Int] /\ IsFiniteSet(Movements)
  BY SumsAreThere, WorthIsInt DEF I!Assumptions
<1>2. R \in SUBSET Movements /\ \A m \in Movements \ R : f[m] = 0
  BY DEF BookedBy
<1>3. SumOver(f) = SumOver(Restrict(f, R))
  <2> HIDE DEF f, R
  <2> QED BY <1>1, <1>2, SumOfSome
<1>4. Restrict(f, R) = [m \in R |-> I!Signed(t[m])]
  <2>1. \A m \in R : f[m] = I!Signed(t[m])
    BY DEF BookedBy
  <2> HIDE DEF f, R
  <2> QED BY <2>1 DEF Restrict
<1> QED
  BY <1>3, <1>4, SumsAreThere DEF BookedAt

\* This is what the module says, before and after a step.
LEMMA BalancesAre ==
    /\ \A i : I!Balance(i) = BalanceAt(movement, i) /\ I!Balance(i)' = BalanceAt(movement', i)
    /\ \A a, p : I!Booked(a, p) = BookedAt(movement, a, p) /\ I!Booked(a, p)' = BookedAt(movement', a, p)
<1>1. ASSUME NEW i
      PROVE  I!Balance(i) = BalanceAt(movement, i) /\ I!Balance(i)' = BalanceAt(movement', i)
  <2>1. /\ {k \in I!Posted : movement[k].investor = i} =
           {k \in Movements : movement[k] # Nil /\ movement[k].status = "posted" /\ movement[k].investor = i}
        /\ {k \in I!Posted' : movement'[k].investor = i} =
           {k \in Movements : movement'[k] # Nil /\ movement'[k].status = "posted" /\ movement'[k].investor = i}
    BY DEF I!Posted
  <2> QED
    BY <2>1 DEF I!Balance, BalanceAt, I!Signed
<1>2. ASSUME NEW a, NEW p
      PROVE  I!Booked(a, p) = BookedAt(movement, a, p) /\ I!Booked(a, p)' = BookedAt(movement', a, p)
  <2>1. /\ I!Counted(a, p) =
           {k \in Movements : /\ movement[k] # Nil /\ movement[k].status = "posted"
                              /\ movement[k].type \in I!Shares
                              /\ movement[k].agreement = a /\ I!Within(movement[k].period, p)}
        /\ I!Counted(a, p)' =
           {k \in Movements : /\ movement'[k] # Nil /\ movement'[k].status = "posted"
                              /\ movement'[k].type \in I!Shares
                              /\ movement'[k].agreement = a /\ I!Within(movement'[k].period, p)}
    BY DEF I!Posted, I!Counted, I!Shares, I!Within
  <2> QED
    BY <2>1 DEF I!Booked, BookedAt, I!Signed
<1> QED
  BY <1>1, <1>2

\* What a period has earned is an integer.
LEMMA EarnedIsInt ==
    ASSUME I!Assumptions, profit \in [Days -> Int], NEW p
    PROVE  I!Earned(p) \in Int
<1> DEFINE S == {e \in Days : p.from <= e /\ e <= p.to}
           f == [d \in S |-> profit[d]]
<1>1. IsFiniteSet(S)
  BY SumsAreThere, FS_Subset DEF I!Assumptions
<1>2. f \in [S -> Int]
  OBVIOUS
<1>3. SumOver(f) \in Int
  <2> HIDE DEF f, S
  <2> QED BY <1>1, <1>2, SumIsInt
<1> QED
  BY <1>3, SumsAreThere DEF I!Earned

\* A step that changes one row changes a balance by what the row adds to it.
LEMMA RowMoves ==
    ASSUME I!Assumptions, MoveTypes, MoveTypes', NEW m \in Movements,
           \A k \in Movements \ {m} : movement'[k] = movement[k]
    PROVE  /\ \A i : /\ I!Balance(i) \in Int
                     /\ I!Balance(i)' = I!Balance(i) - Worth(movement[m], i) + Worth(movement'[m], i)
           /\ \A a, p : /\ I!Booked(a, p) \in Int
                        /\ I!Booked(a, p)' = I!Booked(a, p) - BookedBy(movement[m], a, p)
                                                + BookedBy(movement'[m], a, p)
<1>0. /\ IsFiniteSet(Movements)
      /\ movement \in [Movements -> I!Movement \cup {Nil}]
      /\ movement' \in [Movements -> I!Movement \cup {Nil}]
  BY SumsAreThere DEF I!Assumptions, MoveTypes
<1>1. ASSUME NEW i
      PROVE  /\ I!Balance(i) \in Int
             /\ I!Balance(i)' = I!Balance(i) - Worth(movement[m], i) + Worth(movement'[m], i)
  <2> DEFINE f == [k \in Movements |-> Worth(movement[k], i)]
             g == [k \in Movements |-> Worth(movement'[k], i)]
  <2>1. f \in [Movements -> Int] /\ g \in [Movements -> Int]
    BY <1>0, WorthIsInt
  <2>2. \A k \in Movements \ {m} : f[k] = g[k]
    OBVIOUS
  <2>3. f[m] = Worth(movement[m], i) /\ g[m] = Worth(movement'[m], i)
    OBVIOUS
  <2>4. I!Balance(i) = SumOver(f) /\ I!Balance(i)' = SumOver(g)
    BY <1>0, BalanceIsSum, BalancesAre
  <2> HIDE DEF f, g
  <2>5. SumOver(g) = SumOver(f) - f[m] + g[m] /\ SumOver(f) \in Int
    BY <1>0, <2>1, <2>2, SumChanges, SumIsInt
  <2> QED
    BY <2>3, <2>4, <2>5
<1>2. ASSUME NEW a, NEW p
      PROVE  /\ I!Booked(a, p) \in Int
             /\ I!Booked(a, p)' = I!Booked(a, p) - BookedBy(movement[m], a, p) + BookedBy(movement'[m], a, p)
  <2> DEFINE f == [k \in Movements |-> BookedBy(movement[k], a, p)]
             g == [k \in Movements |-> BookedBy(movement'[k], a, p)]
  <2>1. f \in [Movements -> Int] /\ g \in [Movements -> Int]
    BY <1>0, WorthIsInt
  <2>2. \A k \in Movements \ {m} : f[k] = g[k]
    OBVIOUS
  <2>3. f[m] = BookedBy(movement[m], a, p) /\ g[m] = BookedBy(movement'[m], a, p)
    OBVIOUS
  <2>4. I!Booked(a, p) = SumOver(f) /\ I!Booked(a, p)' = SumOver(g)
    BY <1>0, BookedIsSum, BalancesAre
  <2> HIDE DEF f, g
  <2>5. SumOver(g) = SumOver(f) - f[m] + g[m] /\ SumOver(f) \in Int
    BY <1>0, <2>1, <2>2, SumChanges, SumIsInt
  <2> QED
    BY <2>3, <2>4, <2>5
<1> QED
  BY <1>1, <1>2

\* Where no row changes, no balance does.
LEMMA NothingMoves ==
    ASSUME I!Assumptions, MoveTypes, movement' = movement
    PROVE  /\ \A i : I!Balance(i) \in Int /\ I!Balance(i)' = I!Balance(i)
           /\ \A a, p : I!Booked(a, p) \in Int /\ I!Booked(a, p)' = I!Booked(a, p)
<1>0. IsFiniteSet(Movements) /\ movement \in [Movements -> I!Movement \cup {Nil}]
  BY SumsAreThere DEF I!Assumptions, MoveTypes
<1>1. ASSUME NEW i PROVE I!Balance(i) \in Int
  <2> DEFINE f == [k \in Movements |-> Worth(movement[k], i)]
  <2>1. f \in [Movements -> Int]
    BY <1>0, WorthIsInt
  <2>2. I!Balance(i) = SumOver(f)
    BY <1>0, BalanceIsSum, BalancesAre
  <2> HIDE DEF f
  <2> QED
    BY <1>0, <2>1, <2>2, SumIsInt
<1>2. ASSUME NEW a, NEW p PROVE I!Booked(a, p) \in Int
  <2> DEFINE f == [k \in Movements |-> BookedBy(movement[k], a, p)]
  <2>1. f \in [Movements -> Int]
    BY <1>0, WorthIsInt
  <2>2. I!Booked(a, p) = SumOver(f)
    BY <1>0, BookedIsSum, BalancesAre
  <2> HIDE DEF f
  <2> QED
    BY <1>0, <2>1, <2>2, SumIsInt
<1> QED
  BY <1>1, <1>2, BalancesAre

\* What is created is known.
CreateKept(x) ==
    x.op = "create" =>
       x.step = "commit" /\ x.agreement \in Agreements /\ x.terms \in I!Term

\* A payout is covered, unless the balance has changed.
PayoutKept(x) ==
    x.op = "payout" =>
       /\ x.step = "commit" /\ x.investor \in Investors /\ x.amount \in Nat
       /\ ~x.late => x.amount <= BalanceAt(movement, x.investor)

\* A computed booking comes up to what is earned, unless what is booked has changed.
AllocateKept(x) ==
    x.op = "allocate" =>
       /\ x.agreement \in Agreements /\ agreement[x.agreement] # Nil
       /\ x.investor \in Investors /\ x.period \in Periods
       /\ x.step = "commit" /\ ~x.manual /\ ~x.late =>
             x.amount = x.earned - BookedAt(movement, x.agreement, x.period)

\* What is cancelled is there.
CancelKept(x) ==
    x.op = "cancel" =>
       x.step = "commit" /\ x.movement \in Movements /\ movement[x.movement] # Nil

RequestKept(x) == CreateKept(x) /\ PayoutKept(x) /\ AllocateKept(x) /\ CancelKept(x)

InvestInv == InvestTypes /\ \A r \in Clerks : RequestKept(investing[r])

\* A request that is told of a change if it is in S.
ToldIn(q, S) ==
    /\ investing'[q].step = investing[q].step /\ investing'[q].op = investing[q].op
    /\ investing'[q].agreement = investing[q].agreement
    /\ investing'[q].terms = investing[q].terms /\ investing'[q].investor = investing[q].investor
    /\ investing'[q].movement = investing[q].movement /\ investing'[q].period = investing[q].period
    /\ investing'[q].manual = investing[q].manual /\ investing'[q].amount = investing[q].amount
    /\ investing'[q].earned = investing[q].earned
    /\ investing'[q].late <=> (investing[q].late \/ q \in S)

\* It keeps what it relies on, if it is told of whatever it has read.
LEMMA InvestKeeps ==
    ASSUME NEW q \in Clerks, RequestKept(investing[q]), NEW S, ToldIn(q, S),
           \A a \in Agreements : agreement[a] # Nil => agreement'[a] # Nil,
           \A m \in Movements : movement[m] # Nil => movement'[m] # Nil,
           investing[q].op = "payout" /\ q \notin S =>
              BalanceAt(movement', investing[q].investor) = BalanceAt(movement, investing[q].investor),
           investing[q].op = "allocate" /\ investing[q].step = "commit" /\ q \notin S =>
              BookedAt(movement', investing[q].agreement, investing[q].period) =
                 BookedAt(movement, investing[q].agreement, investing[q].period)
    PROVE  RequestKept(investing[q])'
<1>1. CreateKept(investing[q])'
  BY DEF RequestKept, CreateKept, ToldIn
<1>2. PayoutKept(investing[q])'
  BY DEF RequestKept, PayoutKept, ToldIn
<1>3. AllocateKept(investing[q])'
  BY DEF RequestKept, AllocateKept, ToldIn
<1>4. CancelKept(investing[q])'
  BY DEF RequestKept, CancelKept, ToldIn
<1> QED
  BY <1>1, <1>2, <1>3, <1>4 DEF RequestKept

\* An idle request relies on nothing.
LEMMA InvestIdle ==
    ASSUME I!Assumptions
    PROVE  I!Idle \in InvestRequest /\ I!Idle.op \notin I!Operations
  BY DEF I!Idle, InvestRequest, I!Assumptions

\* How r's end and the telling of others leaves the requests.
LEMMA InvestEnds ==
    ASSUME I!Assumptions, InvestInv, NEW r \in Clerks, NEW S, I!EndOvertaking(r, S)
    PROVE  /\ investing' \in [Clerks -> InvestRequest] /\ investing'[r].op \notin I!Operations
           /\ \A q \in Clerks \ {r} : ToldIn(q, S)
<1>1. investing \in [Clerks -> InvestRequest]
  BY DEF InvestInv, InvestTypes
<1>2. investing' = [q \in Clerks |-> IF q = r THEN I!Idle ELSE [investing[q] EXCEPT !.late = investing[q].late \/ q \in S]]
  BY DEF I!EndOvertaking
<1>3. ASSUME NEW q \in Clerks \ {r} PROVE investing'[q] \in InvestRequest /\ ToldIn(q, S)
  <2> DEFINE late == investing[q].late \/ q \in S
  <2>1. investing[q] \in InvestRequest /\ investing'[q] = [investing[q] EXCEPT !.late = late]
    BY <1>1, <1>2
  <2>2. late \in BOOLEAN /\ (late <=> (investing[q].late \/ q \in S))
    OBVIOUS
  <2> HIDE DEF late
  <2>3. /\ investing'[q] \in InvestRequest /\ investing'[q].late = late
        /\ investing'[q].step = investing[q].step /\ investing'[q].op = investing[q].op
        /\ investing'[q].agreement = investing[q].agreement
        /\ investing'[q].terms = investing[q].terms /\ investing'[q].investor = investing[q].investor
        /\ investing'[q].movement = investing[q].movement /\ investing'[q].period = investing[q].period
        /\ investing'[q].manual = investing[q].manual /\ investing'[q].amount = investing[q].amount
        /\ investing'[q].earned = investing[q].earned
    BY <2>1, <2>2 DEF InvestRequest
  <2> QED
    BY <2>2, <2>3 DEF ToldIn
<1>4. investing'[r] = I!Idle
  BY <1>2
<1>5. \A q \in Clerks : investing'[q] \in InvestRequest
  BY <1>3, <1>4, InvestIdle
<1>6. investing' \in [Clerks -> InvestRequest]
  BY <1>2, <1>5
<1> QED
  BY <1>3, <1>4, <1>6, InvestIdle

\* The same where none ends.
LEMMA InvestTells ==
    ASSUME InvestInv, NEW S, investing' = [q \in Clerks |-> [investing[q] EXCEPT !.late = investing[q].late \/ q \in S]]
    PROVE  /\ investing' \in [Clerks -> InvestRequest]
           /\ \A q \in Clerks : ToldIn(q, S)
<1>1. investing \in [Clerks -> InvestRequest]
  BY DEF InvestInv, InvestTypes
<1>3. ASSUME NEW q \in Clerks PROVE investing'[q] \in InvestRequest /\ ToldIn(q, S)
  <2> DEFINE late == investing[q].late \/ q \in S
  <2>1. investing[q] \in InvestRequest /\ investing'[q] = [investing[q] EXCEPT !.late = late]
    BY <1>1
  <2>2. late \in BOOLEAN /\ (late <=> (investing[q].late \/ q \in S))
    OBVIOUS
  <2> HIDE DEF late
  <2>3. /\ investing'[q] \in InvestRequest /\ investing'[q].late = late
        /\ investing'[q].step = investing[q].step /\ investing'[q].op = investing[q].op
        /\ investing'[q].agreement = investing[q].agreement
        /\ investing'[q].terms = investing[q].terms /\ investing'[q].investor = investing[q].investor
        /\ investing'[q].movement = investing[q].movement /\ investing'[q].period = investing[q].period
        /\ investing'[q].manual = investing[q].manual /\ investing'[q].amount = investing[q].amount
        /\ investing'[q].earned = investing[q].earned
    BY <2>1, <2>2 DEF InvestRequest
  <2> QED
    BY <2>2, <2>3 DEF ToldIn
<1>6. investing' \in [Clerks -> InvestRequest]
  BY <1>3
<1> QED
  BY <1>3, <1>6

\* Clerks follow a change when those that are told of it, E aside, were told enough.
LEMMA InvestFollows ==
    ASSUME InvestInv, InvestTypes', NEW Ended, NEW S,
           \A q \in Clerks \cap Ended : investing'[q].op \notin I!Operations,
           \A q \in Clerks \ Ended : ToldIn(q, S),
           \A a \in Agreements : agreement[a] # Nil => agreement'[a] # Nil,
           \A m \in Movements : movement[m] # Nil => movement'[m] # Nil,
           \A q \in Clerks \ S :
              /\ investing[q].op = "payout" =>
                    BalanceAt(movement', investing[q].investor) = BalanceAt(movement, investing[q].investor)
              /\ investing[q].op = "allocate" /\ investing[q].step = "commit" =>
                    BookedAt(movement', investing[q].agreement, investing[q].period) =
                       BookedAt(movement, investing[q].agreement, investing[q].period)
    PROVE  InvestInv'
<1>1. ASSUME NEW q \in Clerks \cap Ended PROVE RequestKept(investing[q])'
  BY <1>1 DEF RequestKept, CreateKept, PayoutKept, AllocateKept, CancelKept, I!Operations
<1>2. ASSUME NEW q \in Clerks \ Ended PROVE RequestKept(investing[q])'
  <2>1. RequestKept(investing[q]) /\ ToldIn(q, S)
    BY DEF InvestInv
  <2> QED
    BY <2>1, InvestKeeps
<1> QED
  BY <1>1, <1>2 DEF InvestInv

\* A request begins, or reads on, by what it finds.
LEMMA InvestBegins ==
    ASSUME InvestInv, UNCHANGED <<I!rows, profit>>, NEW r \in Clerks, NEW x \in InvestRequest,
           investing' = [investing EXCEPT ![r] = x], RequestKept(x)
    PROVE  InvestInv'
<1>1. UNCHANGED <<agreement, movement, owed, booking, again, profit>>
  BY DEF I!rows
<1>2. InvestTypes'
  BY <1>1 DEF InvestInv, InvestTypes, MoveTypes
<1>3. \A v : RequestKept(v)' <=> RequestKept(v)
  BY <1>1 DEF RequestKept, CreateKept, PayoutKept, AllocateKept, CancelKept
<1>4. ASSUME NEW q \in Clerks PROVE RequestKept(investing[q])'
  <2>1. PICK v : v = investing'[q]
    OBVIOUS
  <2>2. v = IF q = r THEN x ELSE investing[q]
    BY <2>1 DEF InvestInv, InvestTypes
  <2>3. RequestKept(v)'
    BY <1>3, <2>2 DEF InvestInv
  <2> QED
    BY <2>1, <2>3 DEF RequestKept, CreateKept, PayoutKept, AllocateKept, CancelKept
<1> QED
  BY <1>2, <1>4 DEF InvestInv

\* A row that nobody has told of leaves what its readers rely on.
LEMMA InvestMoves ==
    ASSUME I!Assumptions, InvestInv, InvestTypes', NEW m \in Movements,
           \A k \in Movements \ {m} : movement'[k] = movement[k], movement'[m] # Nil,
           agreement' = agreement, NEW row,
           \A i : i # row.investor => Worth(movement[m], i) = Worth(movement'[m], i),
           \A a, p : ~(row.type \in I!Shares /\ row.agreement = a /\ I!Within(row.period, p)) =>
                        BookedBy(movement[m], a, p) = BookedBy(movement'[m], a, p),
           NEW Ended, \A q \in Clerks \cap Ended : investing'[q].op \notin I!Operations,
           \A q \in Clerks \ Ended : ToldIn(q, I!Reading(row))
    PROVE  InvestInv'
<1>1. MoveTypes /\ MoveTypes'
  BY DEF InvestInv, InvestTypes
<1>2. /\ \A i : /\ BalanceAt(movement, i) \in Int
                /\ BalanceAt(movement', i) = BalanceAt(movement, i) - Worth(movement[m], i) + Worth(movement'[m], i)
      /\ \A a, p : /\ BookedAt(movement, a, p) \in Int
                   /\ BookedAt(movement', a, p) = BookedAt(movement, a, p) - BookedBy(movement[m], a, p)
                                                      + BookedBy(movement'[m], a, p)
  BY <1>1, RowMoves, BalancesAre
<1>3. /\ movement[m] \in I!Movement \cup {Nil} /\ movement'[m] \in I!Movement \cup {Nil}
  BY <1>1 DEF MoveTypes
<1>4. /\ \A i : i # row.investor => BalanceAt(movement', i) = BalanceAt(movement, i)
      /\ \A a, p : ~(row.type \in I!Shares /\ row.agreement = a /\ I!Within(row.period, p)) =>
                        BookedAt(movement', a, p) = BookedAt(movement, a, p)
  <2>1. /\ \A i : Worth(movement[m], i) \in Int /\ Worth(movement'[m], i) \in Int
        /\ \A a, p : BookedBy(movement[m], a, p) \in Int /\ BookedBy(movement'[m], a, p) \in Int
    BY <1>3, WorthIsInt
  <2> QED
    BY <1>2, <2>1
<1>5. ASSUME NEW q \in Clerks \ I!Reading(row)
      PROVE  /\ investing[q].op = "payout" =>
                    BalanceAt(movement', investing[q].investor) = BalanceAt(movement, investing[q].investor)
             /\ investing[q].op = "allocate" /\ investing[q].step = "commit" =>
                    BookedAt(movement', investing[q].agreement, investing[q].period) =
                       BookedAt(movement, investing[q].agreement, investing[q].period)
  <2>1. investing[q].op = "payout" => investing[q].step = "commit"
    BY DEF InvestInv, RequestKept, PayoutKept
  <2> QED
    BY <1>4, <2>1 DEF I!Reading
<1>6. \A k \in Movements : movement[k] # Nil => movement'[k] # Nil
  OBVIOUS
<1>7. PICK S : S = I!Reading(row)
  OBVIOUS
<1>8. \A q \in Clerks \ Ended : ToldIn(q, S)
  BY <1>7
<1>9. \A q \in Clerks \ S :
         /\ investing[q].op = "payout" =>
               BalanceAt(movement', investing[q].investor) = BalanceAt(movement, investing[q].investor)
         /\ investing[q].op = "allocate" /\ investing[q].step = "commit" =>
               BookedAt(movement', investing[q].agreement, investing[q].period) =
                  BookedAt(movement, investing[q].agreement, investing[q].period)
  BY <1>5, <1>7, <1>8
<1> QED
  BY <1>6, <1>8, <1>9, InvestFollows

\* What a change of one investor's balance does: it may only be overdrawn by an excuse.
BalanceStep(i, n, excuse) ==
    /\ I!Balance(i)' = I!Balance(i) + n
    /\ \A j \in Investors \ {i} : I!Balance(j)' = I!Balance(j)
    /\ owed' + again' = owed + again + n
    /\ excused' = {j \in Investors : I!Balance(j)' < 0 /\ (j \in excused \/ (j = i /\ excuse))}
    /\ excuse \/ n >= 0 \/ I!Balance(i) + n >= 0

\* What is booked keeps to what should be.
BookingStep == I!BookedOnce => I!BookedOnce'

\* A row that is inserted and posted adds to its investor's balance, and to what is booked
\* of its agreement.
LEMMA RowInserted ==
    ASSUME I!Assumptions, InvestInv, NEW m \in Movements, NEW row \in I!Movement,
           row.status = "posted", I!Insert(m, row),
           row.type \in I!Shares => row.agreement \in Agreements /\ row.period \in Periods
    PROVE  /\ MoveTypes' /\ movement'[m] # Nil /\ movement[m] = Nil
           /\ \A k \in Movements \ {m} : movement'[k] = movement[k]
           /\ owed' = owed + I!Signed(row) /\ I!Signed(row) \in Int /\ owed' \in Int
           /\ \A i : /\ i # row.investor => Worth(movement[m], i) = Worth(movement'[m], i)
                     /\ I!Balance(i) \in Int
                     /\ I!Balance(i)' = I!Balance(i) + (IF i = row.investor THEN I!Signed(row) ELSE 0)
           /\ \A a, p : /\ ~(row.type \in I!Shares /\ row.agreement = a /\ I!Within(row.period, p)) =>
                              BookedBy(movement[m], a, p) = BookedBy(movement'[m], a, p)
                        /\ I!Booked(a, p) \in Int
                        /\ I!Booked(a, p)' = I!Booked(a, p) +
                              (IF row.type \in I!Shares /\ row.agreement = a /\ I!Within(row.period, p)
                               THEN I!Signed(row) ELSE 0)
<1>1. /\ movement[m] = Nil /\ movement' = [movement EXCEPT ![m] = row] /\ owed' = owed + I!Signed(row)
      /\ row # Nil /\ owed \in Int
  BY DEF I!Insert, I!Assumptions, InvestInv, InvestTypes
<1>2. MoveTypes
  BY DEF InvestInv, InvestTypes
<1>3. movement'[m] = row /\ \A k \in Movements \ {m} : movement'[k] = movement[k]
  BY <1>1, <1>2 DEF MoveTypes
<1>4. MoveTypes'
  BY <1>1, <1>2, <1>3 DEF MoveTypes
<1>5. I!Signed(row) \in Int
  BY <1>1, WorthIsInt
<1>6. /\ \A i : Worth(Nil, i) = 0 /\ Worth(row, i) = (IF i = row.investor THEN I!Signed(row) ELSE 0)
      /\ \A a, p : /\ BookedBy(Nil, a, p) = 0
                   /\ BookedBy(row, a, p) = (IF row.type \in I!Shares /\ row.agreement = a /\ I!Within(row.period, p)
                                             THEN I!Signed(row) ELSE 0)
  BY <1>1 DEF Worth, BookedBy
<1>7. /\ \A i : /\ I!Balance(i) \in Int
                /\ I!Balance(i)' = I!Balance(i) - Worth(movement[m], i) + Worth(movement'[m], i)
      /\ \A a, p : /\ I!Booked(a, p) \in Int
                   /\ I!Booked(a, p)' = I!Booked(a, p) - BookedBy(movement[m], a, p) + BookedBy(movement'[m], a, p)
  BY <1>2, <1>3, <1>4, RowMoves
<1>8. \A i : /\ i # row.investor => Worth(movement[m], i) = Worth(movement'[m], i)
             /\ I!Balance(i) \in Int
             /\ I!Balance(i)' = I!Balance(i) + (IF i = row.investor THEN I!Signed(row) ELSE 0)
  BY <1>1, <1>3, <1>5, <1>6, <1>7
<1>9. \A a, p : /\ ~(row.type \in I!Shares /\ row.agreement = a /\ I!Within(row.period, p)) =>
                      BookedBy(movement[m], a, p) = BookedBy(movement'[m], a, p)
                /\ I!Booked(a, p) \in Int
                /\ I!Booked(a, p)' = I!Booked(a, p) +
                      (IF row.type \in I!Shares /\ row.agreement = a /\ I!Within(row.period, p)
                       THEN I!Signed(row) ELSE 0)
  BY <1>1, <1>3, <1>5, <1>6, <1>7
<1> QED
  BY <1>1, <1>3, <1>4, <1>5, <1>8, <1>9

\* A step that counts nothing else of an agreement keeps its bookings.
LEMMA BookingStays ==
    ASSUME booking' = booking,
           \A a \in Agreements, p \in Periods : I!Booked(a, p)' = I!Booked(a, p)
    PROVE  BookingStep
  BY DEF BookingStep, I!BookedOnce

\* Money is a row.
LEMMA MoneyIsRow ==
    ASSUME NEW type \in {"contribution", "payout"}, NEW i \in Investors, NEW n \in Nat
    PROVE  /\ I!Money(type, i, n) \in I!Movement
           /\ I!Money(type, i, n).status = "posted" /\ I!Money(type, i, n).type \notin I!Shares
           /\ I!Money(type, i, n).investor = i
           /\ I!Signed(I!Money(type, i, n)) = IF type = "contribution" THEN n ELSE 0 - n
  BY DEF I!Money, I!Movement, I!Shares, I!Signed

\* A contribution only adds.
LEMMA ContributionStep ==
    ASSUME I!Assumptions, InvestInv, NEW m \in Movements, NEW i \in Investors, NEW n \in Deposits,
           I!Contribute(m, i, n)
    PROVE  InvestInv' /\ BookingStep /\ BalanceStep(i, n, FALSE)
<1>1. n \in Nat
  BY DEF I!Assumptions
<1>2. PICK row : row = I!Money("contribution", i, n)
  OBVIOUS
<1>3. /\ row \in I!Movement /\ row.status = "posted" /\ row.type \notin I!Shares /\ row.investor = i
      /\ I!Signed(row) = n
  BY <1>1, <1>2, MoneyIsRow
<1>4. /\ I!Insert(m, row) /\ I!Excuse(i, FALSE)
      /\ investing' = [q \in Clerks |-> [investing[q] EXCEPT !.late = investing[q].late \/ q \in I!Reading(row)]]
      /\ UNCHANGED <<agreement, profit, booking, again>>
  BY <1>2 DEF I!Contribute
<1>5. /\ MoveTypes' /\ movement'[m] # Nil /\ owed' \in Int /\ owed' = owed + n
      /\ \A k \in Movements \ {m} : movement'[k] = movement[k]
      /\ \A j : /\ j # i => Worth(movement[m], j) = Worth(movement'[m], j)
                /\ I!Balance(j) \in Int
                /\ I!Balance(j)' = I!Balance(j) + (IF j = i THEN n ELSE 0)
      /\ \A a, p : /\ BookedBy(movement[m], a, p) = BookedBy(movement'[m], a, p)
                   /\ I!Booked(a, p) \in Int /\ I!Booked(a, p)' = I!Booked(a, p) + 0
  BY <1>3, <1>4, RowInserted
<1>6. investing' \in [Clerks -> InvestRequest] /\ \A q \in Clerks : ToldIn(q, I!Reading(row))
  BY <1>4, InvestTells
<1>7. InvestTypes'
  BY <1>4, <1>5, <1>6 DEF InvestInv, InvestTypes
<1>8. InvestInv'
  <2>1. \A q \in Clerks \cap {} : investing'[q].op \notin I!Operations
    OBVIOUS
  <2>2. \A q \in Clerks \ {} : ToldIn(q, I!Reading(row))
    BY <1>6
  <2>3. /\ \A j : j # row.investor => Worth(movement[m], j) = Worth(movement'[m], j)
        /\ \A a, p : ~(row.type \in I!Shares /\ row.agreement = a /\ I!Within(row.period, p)) =>
                        BookedBy(movement[m], a, p) = BookedBy(movement'[m], a, p)
    BY <1>3, <1>5
  <2>4. \A k \in Movements \ {m} : movement'[k] = movement[k]
    BY <1>5
  <2> QED
    BY <1>4, <1>5, <1>7, <2>1, <2>2, <2>3, <2>4, InvestMoves
<1>9. BookingStep
  BY <1>4, <1>5, BookingStays
<1>10. BalanceStep(i, n, FALSE)
  BY <1>1, <1>4, <1>5 DEF BalanceStep, I!Excuse, InvestInv, InvestTypes
<1> QED
  BY <1>8, <1>9, <1>10

\* A payout is covered, or excused.
LEMMA PayoutStep ==
    ASSUME I!Assumptions, InvestInv, NEW r \in Clerks, NEW m \in Movements, I!CommitPayout(r, m)
    PROVE  /\ InvestInv' /\ BookingStep
           /\ \E i \in Investors : \E n \in Int : \E excuse : BalanceStep(i, n, excuse)
<1>0. PICK i, n, late : i = investing[r].investor /\ n = investing[r].amount /\ late = investing[r].late
  OBVIOUS
<1>1. PICK row : row = I!Money("payout", i, n)
  OBVIOUS
<1>2. /\ I!Insert(m, row) /\ I!Excuse(row.investor, late) /\ I!EndOvertaking(r, I!Reading(row))
      /\ UNCHANGED <<agreement, profit, booking, again>> /\ investing[r].op = "payout"
  BY <1>0, <1>1 DEF I!CommitPayout, I!At
<1>3. i \in Investors /\ n \in Nat /\ (~late => n <= I!Balance(i))
  BY <1>0, <1>2, BalancesAre DEF InvestInv, RequestKept, PayoutKept
<1>4. /\ row \in I!Movement /\ row.status = "posted" /\ row.type \notin I!Shares /\ row.investor = i
      /\ I!Signed(row) = 0 - n
  BY <1>1, <1>3, MoneyIsRow
<1>5. /\ MoveTypes' /\ movement'[m] # Nil /\ owed' \in Int /\ owed' = owed + (0 - n)
      /\ \A k \in Movements \ {m} : movement'[k] = movement[k]
      /\ \A j : /\ j # i => Worth(movement[m], j) = Worth(movement'[m], j)
                /\ I!Balance(j) \in Int
                /\ I!Balance(j)' = I!Balance(j) + (IF j = i THEN 0 - n ELSE 0)
      /\ \A a, p : /\ BookedBy(movement[m], a, p) = BookedBy(movement'[m], a, p)
                   /\ I!Booked(a, p) \in Int /\ I!Booked(a, p)' = I!Booked(a, p) + 0
  <2>1. /\ MoveTypes' /\ movement'[m] # Nil
        /\ owed' = owed + I!Signed(row) /\ owed' \in Int
        /\ \A k \in Movements \ {m} : movement'[k] = movement[k]
        /\ \A j : /\ j # row.investor => Worth(movement[m], j) = Worth(movement'[m], j)
                  /\ I!Balance(j) \in Int
                  /\ I!Balance(j)' = I!Balance(j) + (IF j = row.investor THEN I!Signed(row) ELSE 0)
    BY <1>2, <1>4, RowInserted
  <2>2. \A a, p : /\ BookedBy(movement[m], a, p) = BookedBy(movement'[m], a, p)
                  /\ I!Booked(a, p) \in Int /\ I!Booked(a, p)' = I!Booked(a, p) + 0
    BY <1>2, <1>4, RowInserted
  <2> QED
    BY <1>4, <2>1, <2>2
<1>6. /\ investing' \in [Clerks -> InvestRequest] /\ investing'[r].op \notin I!Operations
      /\ \A q \in Clerks \ {r} : ToldIn(q, I!Reading(row))
  BY <1>2, InvestEnds
<1>7. InvestTypes'
  BY <1>2, <1>5, <1>6 DEF InvestInv, InvestTypes
<1>8. InvestInv'
  <2>1. \A q \in Clerks \cap {r} : investing'[q].op \notin I!Operations
    BY <1>6
  <2>3. /\ \A j : j # row.investor => Worth(movement[m], j) = Worth(movement'[m], j)
        /\ \A a, p : ~(row.type \in I!Shares /\ row.agreement = a /\ I!Within(row.period, p)) =>
                        BookedBy(movement[m], a, p) = BookedBy(movement'[m], a, p)
    BY <1>4, <1>5
  <2>4. \A k \in Movements \ {m} : movement'[k] = movement[k]
    BY <1>5
  <2> QED
    BY <1>2, <1>5, <1>6, <1>7, <2>1, <2>3, <2>4, InvestMoves
<1>9. BookingStep
  BY <1>2, <1>5, BookingStays
<1>10. BalanceStep(i, 0 - n, late)
  BY <1>2, <1>3, <1>4, <1>5 DEF BalanceStep, I!Excuse, InvestInv, InvestTypes
<1>11. 0 - n \in Int
  BY <1>3
<1> QED
  BY <1>3, <1>8, <1>9, <1>10, <1>11

\* What is rebooked for a row follows what the row adds to what is booked.
LEMMA RebookedFollows ==
    ASSUME I!BookedOnce, NEW row, NEW n \in Int,
           \A b \in Agreements, q \in Periods :
              I!Booked(b, q)' = I!Booked(b, q) +
                 (IF row.agreement = b /\ I!Within(row.period, q) THEN n ELSE 0),
           \A b \in Agreements, q \in Periods : I!Booked(b, q) \in Int
    PROVE  \A b \in Agreements, q \in Periods : I!Rebooked(row, n)[b][q] \in {Nil, I!Booked(b, q)'}
<1> SUFFICES ASSUME NEW b \in Agreements, NEW q \in Periods
             PROVE  I!Rebooked(row, n)[b][q] \in {Nil, I!Booked(b, q)'}
  OBVIOUS
<1>1. booking[b][q] \in {Nil, I!Booked(b, q)}
  BY DEF I!BookedOnce
<1>2. I!Rebooked(row, n)[b][q] = IF booking[b][q] # Nil /\ row.agreement = b /\ I!Within(row.period, q)
                                 THEN booking[b][q] + n ELSE booking[b][q]
  BY DEF I!Rebooked
<1>3. I!Booked(b, q) \in Int /\ I!Booked(b, q)' = I!Booked(b, q) +
                 (IF row.agreement = b /\ I!Within(row.period, q) THEN n ELSE 0)
  OBVIOUS
<1>4. PICK c, d : c = I!Booked(b, q) /\ d = I!Booked(b, q)'
  OBVIOUS
<1> QED
  BY <1>1, <1>2, <1>3, <1>4

\* It has the type of the bookings.
LEMMA RebookedIs ==
    ASSUME booking \in [Agreements -> [Periods -> Int \cup {Nil}]], NEW row, NEW n \in Int
    PROVE  I!Rebooked(row, n) \in [Agreements -> [Periods -> Int \cup {Nil}]]
<1>1. \A b \in Agreements : booking[b] \in [Periods -> Int \cup {Nil}]
  OBVIOUS
<1>2. \A b \in Agreements, q \in Periods : booking[b][q] \in Int \cup {Nil}
  BY <1>1
<1>3. ASSUME NEW b \in Agreements
      PROVE  [q \in Periods |-> IF booking[b][q] # Nil /\ row.agreement = b /\ I!Within(row.period, q)
                                THEN booking[b][q] + n ELSE booking[b][q]] \in [Periods -> Int \cup {Nil}]
  BY <1>2
<1> QED
  BY <1>3 DEF I!Rebooked

\* A booking adds what it is for, a loss with an excuse.
LEMMA AllocateStep ==
    ASSUME I!Assumptions, InvestInv, NEW r \in Clerks, NEW m \in Movements, I!CommitAllocate(r, m)
    PROVE  /\ InvestInv' /\ BookingStep
           /\ \E i \in Investors : \E n \in Int : \E excuse : BalanceStep(i, n, excuse)
<1>0. PICK i, n, late, manual, earned, a, p :
         /\ i = investing[r].investor /\ n = investing[r].amount /\ late = investing[r].late /\ manual = investing[r].manual
         /\ earned = investing[r].earned /\ a = investing[r].agreement /\ p = investing[r].period
  OBVIOUS
<1>1. PICK row : row = [type |-> IF n > 0 THEN "profit_share" ELSE "loss_share",
                        investor |-> i, agreement |-> a, amount |-> I!Abs(n), period |-> p,
                        status |-> "posted"]
  OBVIOUS
<1>2. /\ I!Insert(m, row) /\ I!Excuse(row.investor, n < 0) /\ I!EndOvertaking(r, I!Reading(row))
      /\ UNCHANGED <<agreement, profit, again>> /\ investing[r].op = "allocate" /\ investing[r].step = "commit"
      /\ booking' = IF manual THEN I!Rebooked(row, n)
                    ELSE [I!Rebooked(row, n) EXCEPT ![row.agreement][row.period] =
                             IF late THEN Nil ELSE earned]
  BY <1>0, <1>1 DEF I!CommitAllocate, I!At
<1>3. /\ a \in Agreements /\ i \in Investors /\ p \in Periods
      /\ ~manual /\ ~late => n = earned - I!Booked(a, p)
  BY <1>0, <1>2, BalancesAre DEF InvestInv, RequestKept, AllocateKept
<1>4. n \in Int /\ earned \in Int
  <2>1. investing[r] \in InvestRequest
    BY DEF InvestInv, InvestTypes
  <2> QED
    BY <1>0, <2>1 DEF InvestRequest
<1>5. I!Abs(n) \in Nat /\ (n > 0 => I!Abs(n) = n) /\ (~(n > 0) => 0 - I!Abs(n) = n /\ -I!Abs(n) = n)
  BY <1>4 DEF I!Abs
<1>6. /\ row \in I!Movement /\ row.status = "posted" /\ row.type \in I!Shares /\ row.investor = i
      /\ row.agreement = a /\ row.period = p
  BY <1>1, <1>3, <1>5 DEF I!Movement, I!Shares
<1>7. I!Signed(row) = n
  <2>1. row.type = (IF n > 0 THEN "profit_share" ELSE "loss_share") /\ row.amount = I!Abs(n)
    BY <1>1
  <2> QED
    BY <1>5, <2>1 DEF I!Signed
<1>8. /\ MoveTypes' /\ movement'[m] # Nil /\ owed' \in Int /\ owed' = owed + n
      /\ \A k \in Movements \ {m} : movement'[k] = movement[k]
      /\ \A j : /\ j # row.investor => Worth(movement[m], j) = Worth(movement'[m], j)
                /\ I!Balance(j) \in Int
                /\ I!Balance(j)' = I!Balance(j) + (IF j = row.investor THEN n ELSE 0)
      /\ \A b, q : /\ ~(row.type \in I!Shares /\ row.agreement = b /\ I!Within(row.period, q)) =>
                        BookedBy(movement[m], b, q) = BookedBy(movement'[m], b, q)
                   /\ I!Booked(b, q) \in Int
                   /\ I!Booked(b, q)' = I!Booked(b, q) +
                        (IF row.type \in I!Shares /\ row.agreement = b /\ I!Within(row.period, q)
                         THEN n ELSE 0)
  <2>1. I!Insert(m, row) /\ (row.type \in I!Shares => row.agreement \in Agreements /\ row.period \in Periods)
    BY <1>2, <1>3, <1>6
  <2>2. row \in I!Movement /\ row.status = "posted"
    BY <1>6
  <2> QED
    BY <1>7, <2>1, <2>2, RowInserted
<1>9. /\ investing' \in [Clerks -> InvestRequest] /\ investing'[r].op \notin I!Operations
      /\ \A q \in Clerks \ {r} : ToldIn(q, I!Reading(row))
  BY <1>2, InvestEnds
<1>10. /\ I!Rebooked(row, n) \in [Agreements -> [Periods -> Int \cup {Nil}]]
       /\ booking' \in [Agreements -> [Periods -> Int \cup {Nil}]]
  <2>1. I!Rebooked(row, n) \in [Agreements -> [Periods -> Int \cup {Nil}]]
    BY <1>4, RebookedIs DEF InvestInv, InvestTypes
  <2>2. PICK after : after = I!Rebooked(row, n)
    OBVIOUS
  <2>3. booking' = after \/ booking' = [after EXCEPT ![a][p] = Nil]
           \/ booking' = [after EXCEPT ![a][p] = earned]
    BY <1>2, <1>6, <2>2
  <2>4. after[a] \in [Periods -> Int \cup {Nil}] /\ after \in [Agreements -> [Periods -> Int \cup {Nil}]]
    BY <1>3, <2>1, <2>2
  <2>5. /\ [after[a] EXCEPT ![p] = Nil] \in [Periods -> Int \cup {Nil}]
        /\ [after[a] EXCEPT ![p] = earned] \in [Periods -> Int \cup {Nil}]
    BY <1>4, <2>4
  <2>6. \/ booking' = after
        \/ booking' = [after EXCEPT ![a] = [after[a] EXCEPT ![p] = Nil]]
        \/ booking' = [after EXCEPT ![a] = [after[a] EXCEPT ![p] = earned]]
    BY <1>3, <2>3, <2>4
  <2> QED
    BY <2>1, <2>4, <2>5, <2>6
<1>11. InvestTypes'
  BY <1>2, <1>8, <1>9, <1>10 DEF InvestInv, InvestTypes
<1>12. InvestInv'
  <2>1. \A q \in Clerks \cap {r} : investing'[q].op \notin I!Operations
    BY <1>9
  <2>2. /\ \A j : j # row.investor => Worth(movement[m], j) = Worth(movement'[m], j)
        /\ \A b, q : ~(row.type \in I!Shares /\ row.agreement = b /\ I!Within(row.period, q)) =>
                        BookedBy(movement[m], b, q) = BookedBy(movement'[m], b, q)
    BY <1>8
  <2>3. \A k \in Movements \ {m} : movement'[k] = movement[k]
    BY <1>8
  <2> QED
    BY <1>2, <1>8, <1>9, <1>11, <2>1, <2>2, <2>3, InvestMoves
<1>13. BookingStep
  <2> SUFFICES ASSUME I!BookedOnce PROVE I!BookedOnce'
    BY DEF BookingStep
  <2>1. /\ \A b \in Agreements, q \in Periods : I!Booked(b, q)' = I!Booked(b, q) +
              (IF row.agreement = b /\ I!Within(row.period, q) THEN n ELSE 0)
        /\ \A b \in Agreements, q \in Periods : I!Booked(b, q) \in Int
    BY <1>6, <1>8
  <2>2. \A b \in Agreements, q \in Periods : I!Rebooked(row, n)[b][q] \in {Nil, I!Booked(b, q)'}
    BY <1>4, <2>1, RebookedFollows
  <2>3. I!Within(p, p)
    BY <1>3 DEF I!Within, I!Assumptions
  <2>4. ~manual /\ ~late => earned = I!Booked(a, p)'
    BY <1>3, <1>4, <1>6, <2>1, <2>3
  <2>5. ASSUME NEW b \in Agreements, NEW q \in Periods
        PROVE  booking'[b][q] \in {Nil, I!Booked(b, q)'}
    <3>1. PICK after : after = I!Rebooked(row, n)
      OBVIOUS
    <3>2. after \in [Agreements -> [Periods -> Int \cup {Nil}]] /\ after[a] \in [Periods -> Int \cup {Nil}]
      BY <1>3, <1>10, <3>1
    <3>3. booking' = IF manual THEN after ELSE [after EXCEPT ![a][p] = IF late THEN Nil ELSE earned]
      BY <1>2, <1>6, <3>1
    <3>4. \/ booking'[b][q] = after[b][q]
          \/ b = a /\ q = p /\ ~manual /\ booking'[b][q] = IF late THEN Nil ELSE earned
      BY <3>2, <3>3
    <3>5. b = a /\ q = p => I!Booked(b, q)' = I!Booked(a, p)'
      OBVIOUS
    <3>6. after[b][q] \in {Nil, I!Booked(b, q)'}
      BY <2>2, <3>1
    <3> QED
      BY <2>4, <3>4, <3>5, <3>6
  <2> QED
    BY <2>5 DEF I!BookedOnce
<1>14. BalanceStep(i, n, n < 0)
  BY <1>2, <1>3, <1>4, <1>6, <1>8 DEF BalanceStep, I!Excuse, InvestInv, InvestTypes
<1> QED
  BY <1>3, <1>4, <1>12, <1>13, <1>14

\* A cancellation takes back what the row has added; a second one only what the ledger has.
LEMMA CancelStep ==
    ASSUME I!Assumptions, InvestInv, NEW r \in Clerks, I!CommitCancel(r)
    PROVE  /\ InvestInv' /\ BookingStep
           /\ \E i \in Investors : \E n \in Int : \E excuse : BalanceStep(i, n, excuse)
<1>0. PICK m, row : m = investing[r].movement /\ row = movement[m]
  OBVIOUS
<1>1. /\ investing[r].op = "cancel" /\ movement' = [movement EXCEPT ![m].status = "cancelled"]
      /\ owed' = owed - I!Signed(row)
      /\ again' = IF m \in I!Posted THEN again ELSE again + I!Signed(row)
      /\ booking' = IF m \in I!Posted /\ row.type \in I!Shares THEN I!Rebooked(row, -I!Signed(row)) ELSE booking
      /\ I!Excuse(row.investor, I!Signed(row) > 0)
      /\ I!EndOvertaking(r, I!Reading(row))
      /\ UNCHANGED <<agreement, profit>>
  BY <1>0 DEF I!CommitCancel, I!At
<1>2. m \in Movements /\ row # Nil
  BY <1>0, <1>1 DEF InvestInv, RequestKept, CancelKept
<1>3. MoveTypes
  BY DEF InvestInv, InvestTypes
<1>4. /\ row \in I!Movement /\ I!Signed(row) \in Int
      /\ row.type \in I!Shares => row.agreement \in Agreements /\ row.period \in Periods
  BY <1>0, <1>2, <1>3, WorthIsInt DEF MoveTypes
<1>5. PICK new : new = [row EXCEPT !.status = "cancelled"]
  OBVIOUS
<1>6. /\ new \in I!Movement /\ new.status = "cancelled" /\ new.type = row.type
      /\ new.agreement = row.agreement /\ new.period = row.period
  BY <1>4, <1>5 DEF I!Movement
<1>7. new # Nil
  BY <1>6 DEF I!Assumptions
<1>8. movement' = [movement EXCEPT ![m] = new]
  BY <1>0, <1>1, <1>5
<1>9. movement'[m] = new /\ \A k \in Movements \ {m} : movement'[k] = movement[k]
  BY <1>2, <1>3, <1>8 DEF MoveTypes
<1>10. MoveTypes'
  <2>1. movement' \in [Movements -> I!Movement \cup {Nil}]
    BY <1>3, <1>6, <1>8 DEF MoveTypes
  <2>2. \A k \in Movements : movement'[k] # Nil /\ movement'[k].type \in I!Shares =>
          movement'[k].agreement \in Agreements /\ movement'[k].period \in Periods
    BY <1>3, <1>4, <1>6, <1>9 DEF MoveTypes
  <2> QED
    BY <2>1, <2>2 DEF MoveTypes, I!Shares
<1>11. /\ \A i : /\ I!Balance(i) \in Int
                 /\ I!Balance(i)' = I!Balance(i) - Worth(row, i) + Worth(new, i)
       /\ \A a, p : /\ I!Booked(a, p) \in Int
                    /\ I!Booked(a, p)' = I!Booked(a, p) - BookedBy(row, a, p) + BookedBy(new, a, p)
  BY <1>0, <1>2, <1>3, <1>9, <1>10, RowMoves
<1>12. m \in I!Posted <=> row.status = "posted"
  BY <1>0, <1>2 DEF I!Posted
<1>13. /\ \A i : Worth(new, i) = 0
       /\ \A i : Worth(row, i) = IF m \in I!Posted /\ i = row.investor THEN I!Signed(row) ELSE 0
       /\ \A a, p : BookedBy(new, a, p) = 0
       /\ \A a, p : BookedBy(row, a, p) =
             IF /\ m \in I!Posted /\ row.type \in I!Shares
                /\ row.agreement = a /\ I!Within(row.period, p) THEN I!Signed(row) ELSE 0
  BY <1>2, <1>6, <1>12 DEF Worth, BookedBy
<1>14. PICK n : n = IF m \in I!Posted THEN 0 - I!Signed(row) ELSE 0
  OBVIOUS
<1>15. n \in Int
  BY <1>4, <1>14
<1>16. \A i : I!Balance(i) \in Int /\ I!Balance(i)' = I!Balance(i) + (IF i = row.investor THEN n ELSE 0)
  BY <1>4, <1>11, <1>13, <1>14
<1>17. \A a, p : /\ I!Booked(a, p) \in Int
                 /\ I!Booked(a, p)' = I!Booked(a, p) +
                      (IF /\ m \in I!Posted /\ row.type \in I!Shares
                          /\ row.agreement = a /\ I!Within(row.period, p) THEN 0 - I!Signed(row) ELSE 0)
  BY <1>4, <1>11, <1>13
<1>18. /\ investing' \in [Clerks -> InvestRequest] /\ investing'[r].op \notin I!Operations
       /\ \A q \in Clerks \ {r} : ToldIn(q, I!Reading(row))
  BY <1>1, InvestEnds
<1>19. booking' \in [Agreements -> [Periods -> Int \cup {Nil}]] /\ owed' \in Int /\ again' \in Int
  <2>1. booking \in [Agreements -> [Periods -> Int \cup {Nil}]] /\ owed \in Int /\ again \in Int
    BY DEF InvestInv, InvestTypes
  <2>2. -I!Signed(row) \in Int
    BY <1>4
  <2>3. I!Rebooked(row, -I!Signed(row)) \in [Agreements -> [Periods -> Int \cup {Nil}]]
    BY <2>1, <2>2, RebookedIs
  <2> QED
    BY <1>1, <1>4, <2>1, <2>3
<1>20. InvestTypes'
  BY <1>1, <1>10, <1>18, <1>19 DEF InvestInv, InvestTypes
<1>21. InvestInv'
  <2>1. \A q \in Clerks \cap {r} : investing'[q].op \notin I!Operations
    BY <1>18
  <2>2. /\ \A j : j # row.investor => Worth(movement[m], j) = Worth(movement'[m], j)
        /\ \A b, q : ~(row.type \in I!Shares /\ row.agreement = b /\ I!Within(row.period, q)) =>
                        BookedBy(movement[m], b, q) = BookedBy(movement'[m], b, q)
    BY <1>0, <1>9, <1>13
  <2>3. movement'[m] # Nil
    BY <1>7, <1>9
  <2> QED
    BY <1>1, <1>2, <1>9, <1>18, <1>20, <2>1, <2>2, <2>3, InvestMoves
<1>22. BookingStep
  <2> SUFFICES ASSUME I!BookedOnce PROVE I!BookedOnce'
    BY DEF BookingStep
  <2>1. CASE m \in I!Posted /\ row.type \in I!Shares
    <3>1. PICK k : k = -I!Signed(row)
      OBVIOUS
    <3>2. k \in Int /\ k = 0 - I!Signed(row) /\ booking' = I!Rebooked(row, k)
      BY <1>1, <1>4, <2>1, <3>1
    <3>3. /\ \A b \in Agreements, q \in Periods : I!Booked(b, q)' = I!Booked(b, q) +
                (IF row.agreement = b /\ I!Within(row.period, q) THEN k ELSE 0)
          /\ \A b \in Agreements, q \in Periods : I!Booked(b, q) \in Int
      BY <1>17, <2>1, <3>2
    <3>4. \A b \in Agreements, q \in Periods : I!Rebooked(row, k)[b][q] \in {Nil, I!Booked(b, q)'}
      BY <3>2, <3>3, RebookedFollows
    <3> QED
      BY <3>2, <3>4 DEF I!BookedOnce
  <2>2. CASE ~(m \in I!Posted /\ row.type \in I!Shares)
    <3>1. booking' = booking
      BY <1>1, <2>2
    <3>2. \A a \in Agreements, p \in Periods : I!Booked(a, p)' = I!Booked(a, p)
      BY <1>17, <2>2
    <3> QED
      BY <3>1, <3>2, BookingStays DEF BookingStep
  <2> QED
    BY <2>1, <2>2
<1>23. row.investor \in Investors
  BY <1>4 DEF I!Movement
<1>24. BalanceStep(row.investor, n, I!Signed(row) > 0)
  <2>1. owed' + again' = owed + again + n
    BY <1>1, <1>4, <1>14 DEF InvestInv, InvestTypes
  <2>2. I!Signed(row) > 0 \/ n >= 0
    BY <1>4, <1>14
  <2>3. excused' = {j \in Investors : I!Balance(j)' < 0 /\ (j \in excused \/ (j = row.investor /\ I!Signed(row) > 0))}
    BY <1>1 DEF I!Excuse
  <2>4. PICK i : i = row.investor
    OBVIOUS
  <2>5. I!Balance(i)' = I!Balance(i) + n /\ \A j \in Investors \ {i} : I!Balance(j)' = I!Balance(j)
    BY <1>15, <1>16, <2>4
  <2>6. BalanceStep(i, n, I!Signed(row) > 0)
    BY <2>1, <2>2, <2>3, <2>4, <2>5 DEF BalanceStep
  <2> QED
    BY <2>4, <2>6
<1>25. \E i \in Investors : \E k \in Int : \E excuse : BalanceStep(i, k, excuse)
  <2>1. PICK excuse : excuse = (I!Signed(row) > 0)
    OBVIOUS
  <2>2. PICK i : i = row.investor
    OBVIOUS
  <2>3. BalanceStep(i, n, excuse)
    BY <1>24, <2>1, <2>2 DEF BalanceStep
  <2> QED
    BY <1>15, <1>23, <2>2, <2>3
<1> QED
  BY <1>21, <1>22, <1>25

\* An agreement that is written leaves what others rely on.
LEMMA AgreementWritten ==
    ASSUME I!Assumptions, InvestInv, NEW a \in Agreements, NEW row \in I!Term,
           agreement' = [agreement EXCEPT ![a] = row],
           UNCHANGED <<movement, profit, owed, booking, again>>,
           investing' \in [Clerks -> InvestRequest],
           NEW Ended, \A q \in Clerks \cap Ended : investing'[q].op \notin I!Operations,
           \A q \in Clerks \ Ended : ToldIn(q, {})
    PROVE  InvestInv'
<1>1. row # Nil /\ agreement \in [Agreements -> I!Term \cup {Nil}]
  BY DEF I!Assumptions, InvestInv, InvestTypes
<1>2. InvestTypes'
  BY <1>1 DEF InvestInv, InvestTypes, MoveTypes
<1>3. \A b \in Agreements : agreement[b] # Nil => agreement'[b] # Nil
  BY <1>1
<1> QED
  BY <1>2, <1>3, InvestFollows

\* What agreements do.
LEMMA AgreementSteps ==
    ASSUME I!Assumptions, InvestInv
    PROVE  /\ \A r \in Clerks, a \in Agreements, terms \in Terms :
                 I!BeginAgreement(r, a, terms) => InvestInv'
           /\ \A r \in Clerks : I!CommitAgreement(r) => InvestInv'
           /\ \A a \in Agreements, terms \in Terms : I!UpdateAgreement(a, terms) => InvestInv'
<1>0. Terms \subseteq I!Term /\ investing \in [Clerks -> InvestRequest]
  BY DEF I!Assumptions, InvestInv, InvestTypes
<1>1. ASSUME NEW r \in Clerks, NEW a \in Agreements, NEW terms \in Terms, I!BeginAgreement(r, a, terms)
      PROVE  InvestInv'
  <2> DEFINE x == [I!Idle EXCEPT !.op = "create", !.step = "commit", !.agreement = a, !.terms = terms]
  <2>1. investing' = [investing EXCEPT ![r] = x] /\ UNCHANGED <<I!rows, profit>>
    BY <1>1 DEF I!BeginAgreement, I!Begin
  <2>2. terms \in I!Term
    BY <1>0
  <2>3. /\ x \in InvestRequest /\ x.op = "create" /\ x.step = "commit" /\ x.agreement = a /\ x.terms = terms
    BY <2>2, InvestIdle DEF InvestRequest, I!Operations
  <2> HIDE DEF x
  <2>4. RequestKept(x)
    BY <2>2, <2>3 DEF RequestKept, CreateKept, PayoutKept, AllocateKept, CancelKept
  <2> QED
    BY <2>1, <2>3, <2>4, InvestBegins
<1>2. ASSUME NEW r \in Clerks, I!CommitAgreement(r) PROVE InvestInv'
  <2>0. PICK a, terms : a = investing[r].agreement /\ terms = investing[r].terms
    OBVIOUS
  <2>1. /\ investing[r].op = "create" /\ agreement' = [agreement EXCEPT ![a] = terms]
        /\ I!EndOvertaking(r, {}) /\ UNCHANGED <<movement, profit, owed, booking, again>>
    BY <1>2, <2>0 DEF I!CommitAgreement, I!At, I!End
  <2>2. a \in Agreements /\ terms \in I!Term
    BY <2>0, <2>1 DEF InvestInv, RequestKept, CreateKept
  <2>3. /\ investing' \in [Clerks -> InvestRequest] /\ \A q \in Clerks \cap {r} : investing'[q].op \notin I!Operations
        /\ \A q \in Clerks \ {r} : ToldIn(q, {})
    BY <2>1, InvestEnds
  <2> QED
    BY <2>1, <2>2, <2>3, AgreementWritten
<1>3. ASSUME NEW a \in Agreements, NEW terms \in Terms, I!UpdateAgreement(a, terms) PROVE InvestInv'
  <2>1. /\ agreement' = [agreement EXCEPT ![a] = terms] /\ terms \in I!Term /\ investing' = investing
        /\ UNCHANGED <<movement, profit, owed, booking, again>>
    BY <1>0, <1>3 DEF I!UpdateAgreement
  <2>2. /\ \A q \in Clerks \cap {} : investing'[q].op \notin I!Operations
        /\ \A q \in Clerks \ {} : ToldIn(q, {})
    BY <2>1 DEF ToldIn
  <2> QED
    BY <1>0, <2>1, <2>2, AgreementWritten
<1> QED
  BY <1>1, <1>2, <1>3

\* An entitlement is an integer.
LEMMA EntitlementIsInt ==
    ASSUME NEW n \in Int, NEW percent \in Nat, NEW losses
    PROVE  I!Entitlement(n, percent, losses) \in Int
<1>1. I!Abs(n) \in Nat
  BY DEF I!Abs
<1>2. PICK k : k = 2 * I!Abs(n) * percent + 100
  OBVIOUS
<1>3. k \in Nat
  <2>1. 2 * I!Abs(n) \in Nat
    BY <1>1
  <2>2. 2 * I!Abs(n) * percent \in Nat
    BY <2>1
  <2> QED
    BY <1>2, <2>2
<1>4. k \div 200 \in Int
  BY <1>3
<1>5. I!Pct(n, percent) \in Int
  BY <1>2, <1>4 DEF I!Pct
<1> QED
  BY <1>5 DEF I!Entitlement

\* The steps of other requests that write nothing.
LEMMA InvestReads ==
    ASSUME I!Assumptions, InvestInv
    PROVE  /\ \A r \in Clerks, i \in Investors, n \in Deposits : I!BeginPayout(r, i, n) => InvestInv'
           /\ \A r \in Clerks, a \in Agreements, p \in Periods, n \in Manual :
                 I!BeginAllocate(r, a, p, n) => InvestInv'
           /\ \A r \in Clerks : I!ReadProfit(r) \/ I!ReadTerms(r) \/ I!ReadBooked(r) => InvestInv'
           /\ \A r \in Clerks, m \in Movements : I!BeginCancel(r, m) => InvestInv'
<1>1. ASSUME NEW r \in Clerks, NEW i \in Investors, NEW n \in Deposits, I!BeginPayout(r, i, n)
      PROVE  InvestInv'
  <2> DEFINE x == [I!Idle EXCEPT !.op = "payout", !.step = "commit", !.investor = i, !.amount = n]
  <2>1. /\ n <= I!Balance(i)
        /\ investing' = [investing EXCEPT ![r] = x] /\ UNCHANGED <<I!rows, profit>>
    BY <1>1 DEF I!BeginPayout, I!Begin, I!Covered
  <2>2. n \in Nat /\ n \in Int
    BY DEF I!Assumptions
  <2>3. /\ x \in InvestRequest /\ x.op = "payout" /\ x.step = "commit" /\ x.investor = i /\ x.amount = n
    BY <2>2, InvestIdle DEF InvestRequest, I!Operations
  <2> HIDE DEF x
  <2>4. RequestKept(x)
    BY <2>1, <2>2, <2>3, BalancesAre DEF RequestKept, CreateKept, PayoutKept, AllocateKept, CancelKept
  <2> QED
    BY <2>1, <2>3, <2>4, InvestBegins
<1>2. ASSUME NEW r \in Clerks, NEW a \in Agreements, NEW p \in Periods, NEW n \in Manual,
             I!BeginAllocate(r, a, p, n)
      PROVE  InvestInv'
  <2>0. PICK i, manual, amount : /\ i = agreement[a].investor /\ manual = (n # Nil)
                                 /\ amount = IF n = Nil THEN 0 ELSE n
    OBVIOUS
  <2> DEFINE x == [I!Idle EXCEPT !.op = "allocate", !.step = "profit", !.agreement = a,
                                 !.investor = i, !.period = p, !.manual = manual, !.amount = amount]
  <2>1. /\ agreement[a] # Nil
        /\ investing' = [investing EXCEPT ![r] = x] /\ UNCHANGED <<I!rows, profit>>
    BY <1>2, <2>0 DEF I!BeginAllocate, I!Begin
  <2>2. i \in Investors /\ manual \in BOOLEAN /\ amount \in Int
    BY <2>0, <2>1 DEF I!Assumptions, InvestInv, InvestTypes, I!Term
  <2>3. /\ x \in InvestRequest /\ x.op = "allocate" /\ x.step = "profit" /\ x.agreement = a /\ x.investor = i
        /\ x.period = p
    BY <2>2, InvestIdle DEF InvestRequest, I!Operations
  <2> HIDE DEF x
  <2>4. RequestKept(x)
    BY <2>1, <2>2, <2>3 DEF RequestKept, CreateKept, PayoutKept, AllocateKept, CancelKept
  <2> QED
    BY <2>1, <2>3, <2>4, InvestBegins
<1>3. ASSUME NEW r \in Clerks, I!ReadProfit(r) \/ I!ReadTerms(r) \/ I!ReadBooked(r)
      PROVE  InvestInv'
  <2>1. investing[r].op = "allocate" /\ UNCHANGED <<I!rows, profit>>
    BY <1>3 DEF I!ReadProfit, I!ReadTerms, I!ReadBooked, I!At
  <2>2. /\ investing[r].agreement \in Agreements /\ agreement[investing[r].agreement] # Nil
        /\ investing[r].investor \in Investors /\ investing[r].period \in Periods /\ investing[r] \in InvestRequest
    BY <2>1 DEF InvestInv, InvestTypes, RequestKept, AllocateKept
  <2>3. ASSUME NEW x \in InvestRequest, investing' = [investing EXCEPT ![r] = x], x.op = "allocate",
               x.agreement = investing[r].agreement, x.investor = investing[r].investor, x.period = investing[r].period,
               x.step = "commit" /\ ~x.manual =>
                  x.amount = x.earned - BookedAt(movement, investing[r].agreement, investing[r].period)
        PROVE  InvestInv'
    <3>1. RequestKept(x)
      BY <2>2, <2>3 DEF RequestKept, CreateKept, PayoutKept, AllocateKept, CancelKept
    <3> QED
      BY <2>1, <2>3, <3>1, InvestBegins
  <2>4. CASE I!End(r)
    <3>1. I!EndOvertaking(r, {})
      BY <2>4 DEF I!End
    <3>2. /\ investing' \in [Clerks -> InvestRequest] /\ \A q \in Clerks \cap {r} : investing'[q].op \notin I!Operations
          /\ \A q \in Clerks \ {r} : ToldIn(q, {})
      BY <3>1, InvestEnds
    <3>3. UNCHANGED <<agreement, movement, profit, owed, booking, again>>
      BY <2>1 DEF I!rows
    <3>4. InvestTypes'
      BY <3>2, <3>3 DEF InvestInv, InvestTypes, MoveTypes
    <3> QED
      BY <3>2, <3>3, <3>4, InvestFollows
  <2>5. CASE I!ReadProfit(r)
    <3>1. PICK earned : earned = I!Earned(investing[r].period)
      OBVIOUS
    <3>2. earned \in Int
      BY <3>1, EarnedIsInt DEF InvestInv, InvestTypes
    <3>3. PICK x : x = [investing[r] EXCEPT !.step = "terms", !.earned = earned]
      OBVIOUS
    <3>4. /\ x \in InvestRequest /\ x.op = "allocate" /\ x.step = "terms" /\ x.agreement = investing[r].agreement
          /\ x.investor = investing[r].investor /\ x.period = investing[r].period
      BY <2>1, <2>2, <3>2, <3>3 DEF InvestRequest
    <3>5. investing' = [investing EXCEPT ![r] = x]
      BY <2>5, <3>1, <3>3 DEF I!ReadProfit, InvestInv, InvestTypes
    <3> QED
      BY <2>3, <3>4, <3>5
  <2>6. CASE I!ReadTerms(r)
    <3>1. PICK terms : terms = agreement[investing[r].agreement]
      OBVIOUS
    <3>2. PICK earned : earned = I!Entitlement(investing[r].earned, terms.percent, terms.losses)
      OBVIOUS
    <3>3. terms \in I!Term
      BY <2>2, <3>1 DEF InvestInv, InvestTypes
    <3>4. earned \in Int
      BY <2>2, <3>2, <3>3, EntitlementIsInt DEF I!Term, InvestRequest
    <3>5. PICK x : x = [investing[r] EXCEPT !.step = "booked", !.earned = earned]
      OBVIOUS
    <3>6. /\ x \in InvestRequest /\ x.op = "allocate" /\ x.step = "booked" /\ x.agreement = investing[r].agreement
          /\ x.investor = investing[r].investor /\ x.period = investing[r].period
      BY <2>1, <2>2, <3>4, <3>5 DEF InvestRequest
    <3>7. I!End(r) \/ investing' = [investing EXCEPT ![r] = x]
      BY <2>6, <3>1, <3>2, <3>5 DEF I!ReadTerms, InvestInv, InvestTypes
    <3> QED
      BY <2>3, <2>4, <3>6, <3>7
  <2>7. CASE I!ReadBooked(r)
    <3>1. PICK amount : amount = IF investing[r].manual THEN investing[r].amount
                                 ELSE investing[r].earned - I!Booked(investing[r].agreement, investing[r].period)
      OBVIOUS
    <3>2. I!Booked(investing[r].agreement, investing[r].period) \in Int
      BY NothingMoves, <2>1 DEF InvestInv, InvestTypes, I!rows
    <3>3. amount \in Int
      BY <2>2, <3>1, <3>2 DEF InvestRequest
    <3>4. PICK x : x = [investing[r] EXCEPT !.step = "commit", !.amount = amount]
      OBVIOUS
    <3>5. /\ x \in InvestRequest /\ x.op = "allocate" /\ x.agreement = investing[r].agreement
          /\ x.investor = investing[r].investor /\ x.period = investing[r].period /\ x.amount = amount
          /\ x.earned = investing[r].earned /\ x.manual = investing[r].manual
      BY <2>1, <2>2, <3>3, <3>4 DEF InvestRequest
    <3>6. I!End(r) \/ investing' = [investing EXCEPT ![r] = x]
      BY <2>7, <3>1, <3>4 DEF I!ReadBooked, InvestInv, InvestTypes
    <3>7. ~x.manual => x.amount = x.earned - BookedAt(movement, investing[r].agreement, investing[r].period)
      BY <3>1, <3>5, BalancesAre
    <3> QED
      BY <2>3, <2>4, <3>5, <3>6, <3>7
  <2> QED
    BY <1>3, <2>5, <2>6, <2>7
<1>4. ASSUME NEW r \in Clerks, NEW m \in Movements, I!BeginCancel(r, m) PROVE InvestInv'
  <2> DEFINE x == [I!Idle EXCEPT !.op = "cancel", !.step = "commit", !.movement = m]
  <2>1. /\ movement[m] # Nil
        /\ investing' = [investing EXCEPT ![r] = x] /\ UNCHANGED <<I!rows, profit>>
    BY <1>4 DEF I!BeginCancel, I!Begin, I!Posted
  <2>2. /\ x \in InvestRequest /\ x.op = "cancel" /\ x.step = "commit" /\ x.movement = m
    BY InvestIdle DEF InvestRequest, I!Operations
  <2> HIDE DEF x
  <2>3. RequestKept(x)
    BY <2>1, <2>2 DEF RequestKept, CreateKept, PayoutKept, AllocateKept, CancelKept
  <2> QED
    BY <2>1, <2>2, <2>3, InvestBegins
<1> QED
  BY <1>1, <1>2, <1>3, <1>4

\* It holds at first.
LEMMA InvestInit ==
    ASSUME I!Assumptions, I!Init
    PROVE  InvestInv /\ I!BookedOnce /\ I!BalanceIsOwed
<1>1. /\ agreement = [a \in Agreements |-> Nil] /\ movement = [m \in Movements |-> Nil]
      /\ profit \in [Days -> Profits] /\ owed = 0 /\ again = 0
      /\ booking = [a \in Agreements |-> [p \in Periods |-> 0]]
      /\ investing = [r \in Clerks |-> I!Idle]
  BY DEF I!Init, I!InitInvestors
<1>2. \A a \in Agreements : booking[a] \in [Periods -> Int \cup {Nil}]
  BY <1>1
<1>3. MoveTypes
  BY <1>1 DEF MoveTypes
<1>4. InvestTypes
  <2>1. profit \in [Days -> Int]
    BY <1>1 DEF I!Assumptions
  <2>2. booking \in [Agreements -> [Periods -> Int \cup {Nil}]]
    BY <1>1, <1>2
  <2>3. investing \in [Clerks -> InvestRequest]
    BY <1>1, InvestIdle
  <2>4. agreement \in [Agreements -> I!Term \cup {Nil}] /\ owed \in Int /\ again \in Int
    BY <1>1
  <2> QED
    BY <1>3, <2>1, <2>2, <2>3, <2>4 DEF InvestTypes
<1>5. \A r \in Clerks : investing[r].op \notin I!Operations
  BY <1>1, InvestIdle
<1>6. InvestInv
  BY <1>4, <1>5 DEF InvestInv, RequestKept, CreateKept, PayoutKept, AllocateKept, CancelKept, I!Operations
<1>7. /\ \A i : I!Balance(i) = 0
      /\ \A a, p : I!Booked(a, p) = 0
  <2>1. IsFiniteSet(Movements)
    BY SumsAreThere DEF I!Assumptions
  <2>2. PICK f : f = [m \in Movements |-> 0]
    OBVIOUS
  <2>3. SumOver(f) = 0
    <3>1. f \in [Movements -> Int] /\ \A m \in Movements : f[m] = 0
      BY <2>2
    <3> QED
      BY <2>1, <3>1, SumOfZeros
  <2>4. /\ \A i : [m \in Movements |-> Worth(movement[m], i)] = f
        /\ \A a, p : [m \in Movements |-> BookedBy(movement[m], a, p)] = f
    BY <1>1, <2>2 DEF Worth, BookedBy
  <2>5. movement \in [Movements -> I!Movement \cup {Nil}]
    BY <1>3 DEF MoveTypes
  <2>6. \A i : I!Balance(i) = 0
    BY <2>3, <2>4, <2>5, BalanceIsSum, BalancesAre
  <2>7. \A a, p : I!Booked(a, p) = 0
    BY <2>3, <2>4, <2>5, BookedIsSum, BalancesAre
  <2> QED
    BY <2>6, <2>7
<1>8. I!BookedOnce
  BY <1>1, <1>7 DEF I!BookedOnce
<1>9. I!BalanceIsOwed
  <2>1. PICK f : f = [i \in Investors |-> I!Balance(i)]
    OBVIOUS
  <2>2. f \in [Investors -> Int] /\ \A i \in Investors : f[i] = 0
    BY <1>7, <2>1
  <2>3. SumOver(f) = 0
    BY <2>2, SumOfZeros, SumsAreThere DEF I!Assumptions
  <2> QED
    BY <1>1, <1>7, <2>1, <2>3, SumsAreThere DEF I!BalanceIsOwed
<1> QED
  BY <1>6, <1>8, <1>9

\* A balance is an integer.
LEMMA BalanceIsInt ==
    ASSUME I!Assumptions, NEW t \in [Movements -> I!Movement \cup {Nil}], NEW i
    PROVE  BalanceAt(t, i) \in Int
<1> DEFINE f == [m \in Movements |-> Worth(t[m], i)]
<1>1. f \in [Movements -> Int] /\ IsFiniteSet(Movements)
  BY WorthIsInt, SumsAreThere DEF I!Assumptions
<1>2. SumOver(f) \in Int
  <2> HIDE DEF f
  <2> QED BY <1>1, SumIsInt
<1> QED
  BY <1>2, BalanceIsSum

\* What the balances of t add up to.
TotalAt(t) == SumOver([i \in Investors |-> BalanceAt(t, i)])

\* The promise, before and after a step.
LEMMA OwedIs ==
    /\ I!BalanceIsOwed <=> /\ \A i \in Investors : I!Balance(i) < 0 => i \in excused
                           /\ owed = TotalAt(movement) - again
    /\ I!BalanceIsOwed' <=> /\ \A i \in Investors : I!Balance(i)' < 0 => i \in excused'
                            /\ owed' = TotalAt(movement') - again'
<1>1. [i \in Investors |-> I!Balance(i)] = [i \in Investors |-> BalanceAt(movement, i)]
  BY BalancesAre
<1>2. [i \in Investors |-> I!Balance(i)'] = [i \in Investors |-> BalanceAt(movement', i)]
  BY BalancesAre
<1>3. I!SumOver([i \in Investors |-> I!Balance(i)]) = TotalAt(movement)
  BY <1>1, SumsAreThere DEF TotalAt
<1>4. I!SumOver([i \in Investors |-> I!Balance(i)'] ) = TotalAt(movement')
  BY <1>2, SumsAreThere DEF TotalAt
<1> QED
  BY <1>3, <1>4 DEF I!BalanceIsOwed

\* A balance that changes as it may keeps the promise.
LEMMA BalanceStepKeeps ==
    ASSUME I!Assumptions, MoveTypes, MoveTypes', owed \in Int, again \in Int, owed' \in Int, again' \in Int,
           I!BalanceIsOwed, NEW i \in Investors, NEW n \in Int, NEW excuse, BalanceStep(i, n, excuse)
    PROVE  I!BalanceIsOwed'
<1>1. /\ \A j \in Investors : I!Balance(j) < 0 => j \in excused
      /\ owed = TotalAt(movement) - again
  BY OwedIs
<1>2. /\ movement \in [Movements -> I!Movement \cup {Nil}]
      /\ movement' \in [Movements -> I!Movement \cup {Nil}]
  BY DEF MoveTypes
<1>3. \A j : I!Balance(j) \in Int /\ I!Balance(j)' \in Int
  BY <1>2, BalanceIsInt, BalancesAre
<1>4. \A j \in Investors : I!Balance(j)' < 0 => j \in excused'
  BY <1>1, <1>3 DEF BalanceStep
<1>5. PICK f, g : /\ f = [j \in Investors |-> BalanceAt(movement, j)]
                  /\ g = [j \in Investors |-> BalanceAt(movement', j)]
  OBVIOUS
<1>6. /\ f \in [Investors -> Int] /\ g \in [Investors -> Int]
      /\ \A j \in Investors : f[j] = I!Balance(j) /\ g[j] = I!Balance(j)'
  BY <1>2, <1>5, BalanceIsInt, BalancesAre
<1>7. /\ \A j \in Investors \ {i} : f[j] = g[j]
      /\ g[i] = f[i] + n
  BY <1>6 DEF BalanceStep
<1>8. IsFiniteSet(Investors)
  BY SumsAreThere DEF I!Assumptions
<1>9. SumOver(g) = SumOver(f) - f[i] + g[i] /\ SumOver(f) \in Int
  BY <1>6, <1>7, <1>8, SumChanges, SumIsInt
<1>10. TotalAt(movement') = SumOver(g) /\ TotalAt(movement) = SumOver(f)
  BY <1>5 DEF TotalAt
<1>11. f[i] \in Int
  BY <1>6
<1>12. TotalAt(movement') = TotalAt(movement) + n /\ TotalAt(movement) \in Int
  BY <1>7, <1>9, <1>10, <1>11
<1>13. owed' + again' = owed + again + n
  BY DEF BalanceStep
<1>14. owed' = TotalAt(movement') - again'
  BY <1>1, <1>12, <1>13
<1> QED
  BY <1>4, <1>14, OwedIs

\* A step that no balance changes keeps both.
LEMMA InvestStays ==
    ASSUME I!Assumptions, InvestInv, UNCHANGED <<movement, booking, owed, again, excused>>
    PROVE  (I!BookedOnce => I!BookedOnce') /\ (I!BalanceIsOwed => I!BalanceIsOwed')
<1>1. /\ \A i : I!Balance(i)' = I!Balance(i)
      /\ \A a, p : I!Booked(a, p)' = I!Booked(a, p)
  BY NothingMoves DEF InvestInv, InvestTypes
<1>2. I!BookedOnce => I!BookedOnce'
  BY <1>1, BookingStays DEF BookingStep
<1>3. I!BalanceIsOwed => I!BalanceIsOwed'
  BY <1>1, OwedIs
<1> QED
  BY <1>2, <1>3

\* Each step keeps the invariant and the two promises.
LEMMA InvestNext ==
    ASSUME I!Assumptions, InvestInv, [I!Next]_I!vars
    PROVE  /\ InvestInv'
           /\ I!BookedOnce => I!BookedOnce'
           /\ I!BalanceIsOwed => I!BalanceIsOwed'
<1> DEFINE Goal == /\ InvestInv'
                   /\ I!BookedOnce => I!BookedOnce'
                   /\ I!BalanceIsOwed => I!BalanceIsOwed'
<1>1. ASSUME InvestInv', UNCHANGED I!rows PROVE Goal
  <2>1. UNCHANGED <<movement, booking, owed, again, excused>>
    BY <1>1 DEF I!rows
  <2> QED
    BY <1>1, <2>1, InvestStays
<1>2. ASSUME InvestInv', BookingStep,
             \E i \in Investors : \E n \in Int : \E excuse : BalanceStep(i, n, excuse)
      PROVE  Goal
  <2>1. PICK i \in Investors : \E n \in Int : \E excuse : BalanceStep(i, n, excuse)
    BY <1>2
  <2>2. PICK n \in Int : \E excuse : BalanceStep(i, n, excuse)
    BY <2>1
  <2>3. PICK excuse : BalanceStep(i, n, excuse)
    BY <2>2
  <2>4. /\ MoveTypes /\ MoveTypes' /\ owed \in Int /\ again \in Int /\ owed' \in Int /\ again' \in Int
    BY <1>2 DEF InvestInv, InvestTypes
  <2>5. I!BalanceIsOwed => I!BalanceIsOwed'
    BY <2>3, <2>4, BalanceStepKeeps
  <2> QED
    BY <1>2, <2>5 DEF BookingStep
<1>3. CASE I!Agree(Agreements, Terms)
  <2>1. ASSUME NEW r \in Clerks, NEW a \in Agreements, NEW terms \in Terms, I!BeginAgreement(r, a, terms)
        PROVE  Goal
    BY <1>1, <2>1, AgreementSteps DEF I!BeginAgreement, I!rows
  <2>2. ASSUME NEW r \in Clerks, I!CommitAgreement(r) PROVE Goal
    BY <2>2, AgreementSteps, InvestStays DEF I!CommitAgreement
  <2>3. ASSUME NEW a \in Agreements, NEW terms \in Terms, I!UpdateAgreement(a, terms) PROVE Goal
    BY <2>3, AgreementSteps, InvestStays DEF I!UpdateAgreement
  <2> QED
    BY <1>3, <2>1, <2>2, <2>3 DEF I!Agree
<1>4. CASE I!Pay
  <2>1. ASSUME NEW m \in Movements, NEW i \in Investors, NEW n \in Deposits, I!Contribute(m, i, n) PROVE Goal
    <3>0. n \in Int
      BY DEF I!Assumptions
    <3>1. BalanceStep(i, n, FALSE) /\ InvestInv' /\ BookingStep
      BY <2>1, ContributionStep
    <3> QED
      BY <1>2, <3>0, <3>1
  <2>2. ASSUME NEW r \in Clerks, NEW i \in Investors, NEW n \in Deposits, I!BeginPayout(r, i, n) PROVE Goal
    BY <1>1, <2>2, InvestReads DEF I!BeginPayout, I!rows
  <2>3. ASSUME NEW r \in Clerks, NEW m \in Movements, I!CommitPayout(r, m) PROVE Goal
    BY <1>2, <2>3, PayoutStep
  <2> QED
    BY <1>4, <2>1, <2>2, <2>3 DEF I!Pay
<1>5. CASE I!Share(Periods, Manual, Movements)
  <2>1. ASSUME NEW r \in Clerks, NEW a \in Agreements, NEW p \in Periods, NEW n \in Manual,
               I!BeginAllocate(r, a, p, n)
        PROVE  Goal
    BY <1>1, <2>1, InvestReads DEF I!BeginAllocate, I!rows
  <2>2. ASSUME NEW r \in Clerks, I!ReadProfit(r) \/ I!ReadTerms(r) \/ I!ReadBooked(r) PROVE Goal
    BY <1>1, <2>2, InvestReads DEF I!ReadProfit, I!ReadTerms, I!ReadBooked, I!rows
  <2>3. ASSUME NEW r \in Clerks, NEW m \in Movements, I!CommitAllocate(r, m) PROVE Goal
    BY <1>2, <2>3, AllocateStep
  <2> QED
    BY <1>5, <2>1, <2>2, <2>3 DEF I!Share
<1>6. CASE I!Cancel
  <2>1. ASSUME NEW r \in Clerks, NEW m \in Movements, I!BeginCancel(r, m) PROVE Goal
    BY <1>1, <2>1, InvestReads DEF I!BeginCancel, I!rows
  <2>2. ASSUME NEW r \in Clerks, I!CommitCancel(r) PROVE Goal
    BY <1>2, <2>2, CancelStep
  <2> QED
    BY <1>6, <2>1, <2>2 DEF I!Cancel
<1>7. ASSUME NEW d \in Days, NEW n \in Profits, I!PostProject(d, n) PROVE Goal
  <2>1. /\ profit' = [profit EXCEPT ![d] = n] /\ UNCHANGED I!rows /\ investing' = investing
        /\ UNCHANGED <<agreement, movement, owed, booking, again>>
    BY <1>7 DEF I!PostProject, I!rows
  <2>2. InvestTypes'
    <3>1. n \in Int
      BY DEF I!Assumptions
    <3> QED
      BY <2>1, <3>1 DEF InvestInv, InvestTypes, MoveTypes
  <2>3. \A q \in Clerks : RequestKept(investing[q])'
    BY <2>1 DEF InvestInv, RequestKept, CreateKept, PayoutKept, AllocateKept, CancelKept
  <2> QED
    BY <1>1, <2>1, <2>2, <2>3 DEF InvestInv
<1>8. CASE UNCHANGED I!vars
  <2>1. /\ UNCHANGED I!rows /\ UNCHANGED <<agreement, movement, owed, booking, again, profit, investing>>
    BY <1>8 DEF I!vars, I!rows
  <2>2. InvestInv'
    BY <2>1 DEF InvestInv, InvestTypes, MoveTypes, RequestKept, CreateKept, PayoutKept, AllocateKept,
                CancelKept
  <2> QED
    BY <1>1, <2>1, <2>2
<1> QED
  BY <1>3, <1>4, <1>5, <1>6, <1>7, <1>8 DEF I!Next

\* Bookings can be repeated: what is booked within a period is what the last computed
\* booking of it was entitled to, and what was booked or cancelled since, unless one of
\* these overtook the computation: for any periods, profits and terms (allocateProfit,
\* cancelTransaction).
THEOREM SharesAreBookedOnce == VenturesSpec => []BookedOnce
<1>1. VenturesInit => InvestInv /\ BookedOnce
  BY VenturesAssumption, InvestInit DEF VenturesInit, BookedOnce
<1>2. (InvestInv /\ BookedOnce) /\ [VenturesNext]_ventures => (InvestInv /\ BookedOnce)'
  BY VenturesAssumption, InvestNext, StepsOfEach DEF BookedOnce
<1> QED
  BY <1>1, <1>2, PTL DEF VenturesSpec

\* Investors are paid out of their balance, but for a loss, a cancellation or a payout that
\* something overtook, and the ledger owes them what their balances say, but for what two
\* cancellations reversed: for any investors and amounts (transact, cancelTransaction).
THEOREM BalancesAreOwed == VenturesSpec => []BalanceIsOwed
<1>1. VenturesInit => InvestInv /\ BalanceIsOwed
  BY VenturesAssumption, InvestInit DEF VenturesInit, BalanceIsOwed
<1>2. (InvestInv /\ BalanceIsOwed) /\ [VenturesNext]_ventures => (InvestInv /\ BalanceIsOwed)'
  BY VenturesAssumption, InvestNext, StepsOfEach DEF BalanceIsOwed
<1> QED
  BY <1>1, <1>2, PTL DEF VenturesSpec

-------------------------------------------------------------------------------
(* Recruitment                                                             *)

\* Finite sets are counted there as they are here.
LEMMA CasesCounted ==
    \A S : (E!IsFiniteSet(S) <=> IsFiniteSet(S)) /\ E!Cardinality(S) = Cardinality(S)
<1>1. \A S : E!IsFiniteSet(S) <=> IsFiniteSet(S)
  BY DEF E!IsFiniteSet, IsFiniteSet
<1>2. \A S : E!Cardinality(S) = Cardinality(S)
  BY DEF E!Cardinality, Cardinality
<1> QED
  BY <1>1, <1>2

\* What a request may have read.
MayRead == {"job", "candidate", "stage"} \X (Jobs \cup Candidates \cup Cases \cup {Nil})

CaseRequest ==
    [step : {"idle", "job", "commit"}, op : E!Operations \cup {Nil}, job : Jobs \cup {Nil},
     case : Cases \cup {Nil}, candidate : Candidates \cup {Nil},
     to : JobEdits \cup Stages \cup {Nil}, seen : E!JobOrder \cup Nat \cup {Nil},
     late : SUBSET MayRead]

CaseTypes ==
    /\ job \in [Jobs -> E!JobOrder \cup {Nil}]
    /\ case \in [Cases -> E!Case \cup {Nil}]
    /\ recruiting \in [Clerks -> CaseRequest]

\* A case is of a job order that is there.
JobThere == \A k \in Cases : case[k] # Nil /\ case[k].job # Nil => job[case[k].job] # Nil

\* updateJobOrder has compared the positions with what is filled, unless that has changed.
EditKept(x) ==
    x.op = "job" =>
       /\ x.step = "commit" /\ x.job \in Jobs /\ job[x.job] # Nil /\ x.to \in JobEdits
       /\ <<"job", x.job>> \notin x.late /\ x.to.positions # Nil => job[x.job].filled <= x.to.positions

\* createCase has found the candidate without a live case and then the job order with a
\* vacancy, unless either has changed.
OpeningKept(x) ==
    x.op = "open" =>
       /\ x.step \in {"job", "commit"} /\ x.candidate \in Candidates
       /\ <<"candidate", x.candidate>> \notin x.late => E!LiveOf(x.candidate) \subseteq second
       /\ x.job # Nil => job[x.job] # Nil
       /\ x.step = "job" => x.job # Nil
       /\ x.step = "commit" /\ x.job # Nil =>
             /\ x.seen \in E!JobOrder
             /\ <<"job", x.job>> \notin x.late => x.seen = job[x.job] /\ x.seen.filled < x.seen.positions

\* advance has read the stage of the case, unless it has changed.
AdvanceKept(x) ==
    x.op = "advance" =>
       /\ x.step = "commit" /\ x.case \in Cases /\ case[x.case] # Nil
       /\ x.to \in Stages /\ x.seen \in Nat
       /\ <<"stage", x.case>> \notin x.late => x.seen = case[x.case].stage

CaseInv ==
    /\ CaseTypes /\ JobThere
    /\ \A r \in Clerks : EditKept(recruiting[r]) /\ OpeningKept(recruiting[r]) /\ AdvanceKept(recruiting[r])

\* What a request has read stays as it is, or it is told.
LEMMA CaseChangeTells ==
    ASSUME CaseTypes, NEW r \in Clerks, NEW changed \in SUBSET MayRead, E!EndChanging(r, changed)
    PROVE  /\ recruiting' \in [Clerks -> CaseRequest] /\ recruiting'[r] = E!Idle
           /\ \A q \in Clerks \ {r} :
                 /\ recruiting'[q].step = recruiting[q].step /\ recruiting'[q].op = recruiting[q].op
                 /\ recruiting'[q].job = recruiting[q].job
                 /\ recruiting'[q].case = recruiting[q].case /\ recruiting'[q].candidate = recruiting[q].candidate
                 /\ recruiting'[q].to = recruiting[q].to /\ recruiting'[q].seen = recruiting[q].seen
                 /\ recruiting'[q].late = recruiting[q].late \cup (E!Read(q) \cap changed)
<1>1. recruiting \in [Clerks -> CaseRequest]
  BY DEF CaseTypes
<1>2. /\ recruiting' = [q \in Clerks |-> IF q = r THEN E!Idle
                          ELSE [recruiting[q] EXCEPT !.late = recruiting[q].late \cup (E!Read(q) \cap changed)]]
  BY DEF E!EndChanging
<1>3. E!Idle \in CaseRequest
  BY DEF E!Idle, CaseRequest
<1>4. ASSUME NEW q \in Clerks \ {r}
      PROVE  /\ recruiting'[q] \in CaseRequest
             /\ recruiting'[q].step = recruiting[q].step /\ recruiting'[q].op = recruiting[q].op
             /\ recruiting'[q].job = recruiting[q].job
             /\ recruiting'[q].case = recruiting[q].case /\ recruiting'[q].candidate = recruiting[q].candidate
             /\ recruiting'[q].to = recruiting[q].to /\ recruiting'[q].seen = recruiting[q].seen
             /\ recruiting'[q].late = recruiting[q].late \cup (E!Read(q) \cap changed)
  <2> DEFINE more == recruiting[q].late \cup (E!Read(q) \cap changed)
  <2>1. recruiting[q] \in CaseRequest /\ recruiting'[q] = [recruiting[q] EXCEPT !.late = more]
    BY <1>1, <1>2
  <2>2. more \subseteq MayRead
    BY <2>1 DEF CaseRequest
  <2> HIDE DEF more
  <2>3. /\ recruiting'[q] \in CaseRequest
        /\ recruiting'[q].step = recruiting[q].step /\ recruiting'[q].op = recruiting[q].op
        /\ recruiting'[q].job = recruiting[q].job
        /\ recruiting'[q].case = recruiting[q].case /\ recruiting'[q].candidate = recruiting[q].candidate
        /\ recruiting'[q].to = recruiting[q].to /\ recruiting'[q].seen = recruiting[q].seen
        /\ recruiting'[q].late = more
    BY <2>1, <2>2 DEF CaseRequest
  <2> QED
    BY <2>3 DEF more
<1>5. \A q \in Clerks : recruiting'[q] \in CaseRequest
  BY <1>2, <1>3, <1>4
<1>6. recruiting'[r] = E!Idle
  BY <1>2
<1>7. recruiting' \in [Clerks -> CaseRequest]
  BY <1>2, <1>5
<1> QED
  BY <1>4, <1>6, <1>7

\* What each request that writes has read.
LEMMA CaseReads ==
    ASSUME NEW q
    PROVE  /\ E!At(q, "job", "commit") => E!Read(q) = {<<"job", recruiting[q].job>>}
           /\ E!At(q, "open", "job") => E!Read(q) = {<<"candidate", recruiting[q].candidate>>}
           /\ E!At(q, "open", "commit") =>
                 E!Read(q) = {<<"candidate", recruiting[q].candidate>>, <<"job", recruiting[q].job>>}
           /\ E!At(q, "advance", "commit") => E!Read(q) = {<<"stage", recruiting[q].case>>}
  BY DEF E!Read, E!At

\* A request that a change leaves as it is, but for what it is told.
Told(q, changed) ==
    /\ recruiting'[q].step = recruiting[q].step /\ recruiting'[q].op = recruiting[q].op
    /\ recruiting'[q].job = recruiting[q].job
    /\ recruiting'[q].case = recruiting[q].case /\ recruiting'[q].candidate = recruiting[q].candidate
    /\ recruiting'[q].to = recruiting[q].to /\ recruiting'[q].seen = recruiting[q].seen
    /\ recruiting'[q].late = recruiting[q].late \cup (E!Read(q) \cap changed)

\* A request keeps what it relies on when whatever else changes is told to it.
LEMMA CaseRequestKeeps ==
    ASSUME CaseInv, NEW q \in Clerks, NEW changed, Told(q, changed),
           \A j \in Jobs : job[j] # Nil => job'[j] # Nil,
           \A j \in Jobs : <<"job", j>> \notin changed /\ job[j] # Nil => job'[j] = job[j],
           \A c \in Candidates : <<"candidate", c>> \notin changed /\ E!LiveOf(c) \subseteq second
                                    => E!LiveOf(c)' \subseteq second',
           \A k \in Cases : case[k] # Nil => case'[k] # Nil,
           \A k \in Cases : <<"stage", k>> \notin changed /\ case[k] # Nil => case'[k].stage = case[k].stage
    PROVE  EditKept(recruiting[q])' /\ OpeningKept(recruiting[q])' /\ AdvanceKept(recruiting[q])'
<1>1. EditKept(recruiting[q]) /\ OpeningKept(recruiting[q]) /\ AdvanceKept(recruiting[q]) /\ recruiting[q] \in CaseRequest
  BY DEF CaseInv, CaseTypes
<1>2. EditKept(recruiting[q])'
  <2>1. SUFFICES ASSUME recruiting[q].op = "job" PROVE EditKept(recruiting[q])'
    BY DEF EditKept, Told
  <2>2. /\ recruiting[q].step = "commit" /\ recruiting[q].job \in Jobs /\ job[recruiting[q].job] # Nil
    BY <1>1, <2>1 DEF EditKept
  <2>3. E!Read(q) = {<<"job", recruiting[q].job>>}
    BY <2>1, <2>2, CaseReads DEF E!At
  <2> QED
    BY <1>1, <2>1, <2>2, <2>3 DEF EditKept, Told
<1>3. OpeningKept(recruiting[q])'
  <2>1. SUFFICES ASSUME recruiting[q].op = "open" PROVE OpeningKept(recruiting[q])'
    BY DEF OpeningKept, Told
  <2>2. /\ recruiting[q].step \in {"job", "commit"} /\ recruiting[q].candidate \in Candidates
        /\ recruiting[q].job # Nil => recruiting[q].job \in Jobs /\ job[recruiting[q].job] # Nil
    BY <1>1, <2>1 DEF OpeningKept, CaseRequest
  <2>3. <<"candidate", recruiting[q].candidate>> \in E!Read(q)
    BY <2>1, <2>2, CaseReads DEF E!At
  <2>4. recruiting[q].step = "commit" => <<"job", recruiting[q].job>> \in E!Read(q)
    BY <2>1, <2>2, CaseReads DEF E!At
  <2>5. /\ recruiting'[q].op = "open" /\ recruiting'[q].step = recruiting[q].step /\ recruiting'[q].candidate = recruiting[q].candidate
        /\ recruiting'[q].job = recruiting[q].job /\ recruiting'[q].seen = recruiting[q].seen
        /\ \A x \in E!Read(q) : x \notin recruiting'[q].late => x \notin recruiting[q].late /\ x \notin changed
    BY <2>1 DEF Told
  <2>6. <<"candidate", recruiting[q].candidate>> \notin recruiting'[q].late => E!LiveOf(recruiting[q].candidate)' \subseteq second'
    BY <1>1, <2>1, <2>2, <2>3, <2>5 DEF OpeningKept
  <2>7. PICK c : c = recruiting[q].candidate
    OBVIOUS
  <2>8. E!LiveOf(c)' = E!LiveOf(recruiting[q].candidate)'
    BY <2>5, <2>7
  <2>9. <<"candidate", recruiting'[q].candidate>> \notin recruiting'[q].late => E!LiveOf(c)' \subseteq second'
    BY <2>5, <2>6, <2>7, <2>8
  <2>10. /\ recruiting[q].job # Nil => job'[recruiting[q].job] # Nil
         /\ recruiting[q].step = "job" => recruiting[q].job # Nil
    BY <1>1, <2>1, <2>2 DEF OpeningKept
  <2>11. ASSUME recruiting[q].step = "commit", recruiting[q].job # Nil
         PROVE  /\ recruiting[q].seen \in E!JobOrder
                /\ <<"job", recruiting[q].job>> \notin recruiting'[q].late =>
                      recruiting[q].seen = job'[recruiting[q].job] /\ recruiting[q].seen.filled < recruiting[q].seen.positions
    BY <1>1, <2>1, <2>2, <2>4, <2>5, <2>11 DEF OpeningKept
  <2> QED
    BY <2>2, <2>5, <2>7, <2>9, <2>10, <2>11 DEF OpeningKept, E!LiveOf
<1>4. AdvanceKept(recruiting[q])'
  <2>1. SUFFICES ASSUME recruiting[q].op = "advance" PROVE AdvanceKept(recruiting[q])'
    BY DEF AdvanceKept, Told
  <2>2. /\ recruiting[q].step = "commit" /\ recruiting[q].case \in Cases /\ case[recruiting[q].case] # Nil
    BY <1>1, <2>1 DEF AdvanceKept
  <2>3. E!Read(q) = {<<"stage", recruiting[q].case>>}
    BY <2>1, <2>2, CaseReads DEF E!At
  <2> QED
    BY <1>1, <2>1, <2>2, <2>3 DEF AdvanceKept, Told
<1> QED
  BY <1>2, <1>3, <1>4

\* A request begins, or reads on, by what it finds.
LEMMA CaseBegins ==
    ASSUME CaseInv, UNCHANGED E!rows, NEW r \in Clerks, NEW x \in CaseRequest,
           recruiting' = [recruiting EXCEPT ![r] = x], EditKept(x), OpeningKept(x), AdvanceKept(x)
    PROVE  CaseInv'
<1>1. UNCHANGED <<job, case, lost, second>>
  BY DEF E!rows
<1>2. CaseTypes' /\ JobThere'
  BY <1>1 DEF CaseInv, CaseTypes, JobThere
<1>3. \A v : (EditKept(v)' <=> EditKept(v)) /\ (AdvanceKept(v)' <=> AdvanceKept(v))
  BY <1>1 DEF EditKept, AdvanceKept
<1>4. \A v : OpeningKept(v)' <=> OpeningKept(v)
  BY <1>1 DEF OpeningKept, E!LiveOf
<1>5. ASSUME NEW q \in Clerks
      PROVE  EditKept(recruiting[q])' /\ OpeningKept(recruiting[q])' /\ AdvanceKept(recruiting[q])'
  <2>1. PICK v : v = recruiting'[q]
    OBVIOUS
  <2>2. v = IF q = r THEN x ELSE recruiting[q]
    BY <2>1 DEF CaseInv, CaseTypes
  <2>3. EditKept(v)' /\ OpeningKept(v)' /\ AdvanceKept(v)'
    BY <1>3, <1>4, <2>2 DEF CaseInv
  <2> QED
    BY <2>1, <2>3 DEF EditKept, OpeningKept, AdvanceKept, E!LiveOf
<1> QED
  BY <1>2, <1>5 DEF CaseInv

\* Nobody relies on an idle request.
LEMMA CaseIdle ==
    ASSUME E!Assumptions
    PROVE  E!Idle \in CaseRequest /\ EditKept(E!Idle) /\ OpeningKept(E!Idle) /\ AdvanceKept(E!Idle)
<1>1. Nil \notin E!Operations
  BY DEF E!Assumptions
<1>2. E!Idle.op = Nil /\ E!Idle \in CaseRequest
  BY DEF E!Idle, CaseRequest
<1> QED
  BY <1>1, <1>2 DEF EditKept, OpeningKept, AdvanceKept, E!Operations

\* r ends with a change that is told to the others.
LEMMA CaseCommits ==
    ASSUME E!Assumptions, CaseInv, NEW r \in Clerks, NEW changed \in SUBSET MayRead, E!EndChanging(r, changed),
           job' \in [Jobs -> E!JobOrder \cup {Nil}], case' \in [Cases -> E!Case \cup {Nil}], JobThere',
           \A j \in Jobs : job[j] # Nil => job'[j] # Nil,
           \A j \in Jobs : <<"job", j>> \notin changed /\ job[j] # Nil => job'[j] = job[j],
           \A c \in Candidates : <<"candidate", c>> \notin changed /\ E!LiveOf(c) \subseteq second
                                    => E!LiveOf(c)' \subseteq second',
           \A k \in Cases : case[k] # Nil => case'[k] # Nil,
           \A k \in Cases : <<"stage", k>> \notin changed /\ case[k] # Nil => case'[k].stage = case[k].stage
    PROVE  CaseInv'
<1>1. /\ recruiting' \in [Clerks -> CaseRequest] /\ recruiting'[r] = E!Idle
      /\ \A q \in Clerks \ {r} : Told(q, changed)
  BY CaseChangeTells DEF CaseInv, Told
<1>2. ASSUME NEW q \in Clerks \ {r}
      PROVE  EditKept(recruiting[q])' /\ OpeningKept(recruiting[q])' /\ AdvanceKept(recruiting[q])'
  BY <1>1, CaseRequestKeeps
<1>3. recruiting'[r].op \notin E!Operations
  BY <1>1 DEF E!Idle, E!Assumptions
<1>4. EditKept(recruiting[r])' /\ OpeningKept(recruiting[r])' /\ AdvanceKept(recruiting[r])'
  BY <1>3 DEF EditKept, OpeningKept, AdvanceKept, E!Operations
<1>5. \A q \in Clerks : EditKept(recruiting[q])' /\ OpeningKept(recruiting[q])' /\ AdvanceKept(recruiting[q])'
  BY <1>2, <1>4
<1> QED
  BY <1>1, <1>5 DEF CaseInv, CaseTypes

\* A step of no request changes what a request may rely on only to its good.
LEMMA CaseWrites ==
    ASSUME CaseInv, recruiting' = recruiting,
           job' \in [Jobs -> E!JobOrder \cup {Nil}], case' \in [Cases -> E!Case \cup {Nil}], JobThere',
           \A j \in Jobs : job[j] # Nil => job'[j] = job[j],
           \A c \in Candidates : E!LiveOf(c) \subseteq second => E!LiveOf(c)' \subseteq second',
           \A k \in Cases : case[k] # Nil => case'[k] # Nil /\ case'[k].stage = case[k].stage
    PROVE  CaseInv'
<1>1. ASSUME NEW q \in Clerks
      PROVE  EditKept(recruiting[q])' /\ OpeningKept(recruiting[q])' /\ AdvanceKept(recruiting[q])'
  <2>1. Told(q, {})
    BY DEF Told
  <2> QED
    BY <2>1, CaseRequestKeeps
<1> QED
  BY <1>1 DEF CaseInv, CaseTypes

\* Each step but a commit.
LEMMA CaseStepsKeep ==
    ASSUME E!Assumptions, CaseInv
    PROVE  /\ \A r \in Clerks, j \in Jobs, edit \in JobEdits : E!BeginUpdateJob(r, j, edit) => CaseInv'
           /\ \A r \in Clerks, c \in Candidates, j \in Jobs \cup {Nil} : E!BeginCase(r, c, j) => CaseInv'
           /\ \A r \in Clerks : E!ReadJob(r) => CaseInv'
           /\ \A r \in Clerks, k \in Cases, stage \in Stages : E!BeginAdvance(r, k, stage) => CaseInv'
<1>1. ASSUME NEW r \in Clerks, NEW j \in Jobs, NEW edit \in JobEdits, E!BeginUpdateJob(r, j, edit)
      PROVE  CaseInv'
  <2> DEFINE x == [E!Idle EXCEPT !.op = "job", !.step = "commit", !.job = j, !.to = edit]
  <2>1. /\ job[j] # Nil /\ (edit.positions # Nil => edit.positions >= job[j].filled)
        /\ recruiting' = [recruiting EXCEPT ![r] = x] /\ UNCHANGED E!rows
    BY <1>1 DEF E!BeginUpdateJob, E!Begin
  <2>2. /\ x.op = "job" /\ x.step = "commit" /\ x.job = j /\ x.to = edit
        /\ x \in CaseRequest
    BY DEF CaseRequest, E!Operations, E!Idle
  <2> HIDE DEF x
  <2>3. job[j].filled \in Nat /\ (edit.positions # Nil => edit.positions \in Nat)
    BY <2>1 DEF CaseInv, CaseTypes, E!JobOrder, E!Assumptions, E!JobEdit
  <2>4. EditKept(x) /\ OpeningKept(x) /\ AdvanceKept(x)
    BY <2>1, <2>2, <2>3 DEF EditKept, OpeningKept, AdvanceKept
  <2> QED
    BY <2>1, <2>2, <2>4, CaseBegins
<1>2. ASSUME NEW r \in Clerks, NEW c \in Candidates, NEW j \in Jobs \cup {Nil}, E!BeginCase(r, c, j)
      PROVE  CaseInv'
  <2> DEFINE step == IF j = Nil THEN "commit" ELSE "job"
             x == [E!Idle EXCEPT !.op = "open", !.candidate = c, !.job = j, !.step = step]
  <2>1. /\ E!LiveOf(c) = {} /\ (j # Nil => job[j] # Nil)
        /\ recruiting' = [recruiting EXCEPT ![r] = x] /\ UNCHANGED E!rows
    BY <1>2 DEF E!BeginCase, E!Begin, E!Free
  <2>2. step \in {"job", "commit"} /\ (step = "job" <=> j # Nil)
    OBVIOUS
  <2> HIDE DEF step
  <2>3. /\ x.op = "open" /\ x.step = step /\ x.job = j /\ x.candidate = c
        /\ x \in CaseRequest
    BY <2>2 DEF CaseRequest, E!Operations, E!Idle
  <2> HIDE DEF x
  <2>4. E!LiveOf(x.candidate) \subseteq second
    BY <2>1, <2>3
  <2>5. OpeningKept(x)
    BY <2>1, <2>2, <2>3, <2>4 DEF OpeningKept
  <2>6. EditKept(x) /\ AdvanceKept(x)
    BY <2>3 DEF EditKept, AdvanceKept
  <2> QED
    BY <2>1, <2>3, <2>5, <2>6, CaseBegins
<1>3. ASSUME NEW r \in Clerks, E!ReadJob(r) PROVE CaseInv'
  <2> DEFINE row == job[recruiting[r].job]
  <2>1. recruiting[r].op = "open" /\ recruiting[r].step = "job" /\ UNCHANGED E!rows
    BY <1>3 DEF E!ReadJob, E!At
  <2>2. CASE recruiting' = [recruiting EXCEPT ![r] = E!Idle]
    BY <2>1, <2>2, CaseIdle, CaseBegins
  <2>3. CASE row.filled < row.positions /\ recruiting' = [recruiting EXCEPT ![r].step = "commit", ![r].seen = row]
    <3>1. recruiting[r] \in CaseRequest /\ OpeningKept(recruiting[r])
      BY DEF CaseInv, CaseTypes
    <3>2. recruiting[r].job \in Jobs /\ row \in E!JobOrder
      BY <2>1, <3>1 DEF OpeningKept, CaseRequest, CaseInv, CaseTypes
    <3>3. PICK x : x = [recruiting[r] EXCEPT !.step = "commit", !.seen = row]
      OBVIOUS
    <3>4. /\ x \in CaseRequest /\ x.op = "open" /\ x.step = "commit" /\ x.job = recruiting[r].job
          /\ x.candidate = recruiting[r].candidate /\ x.seen = row /\ x.late = recruiting[r].late
      BY <2>1, <3>1, <3>2, <3>3 DEF CaseRequest
    <3>5. recruiting' = [recruiting EXCEPT ![r] = x]
      BY <2>3, <3>3
    <3>6. E!LiveOf(x.candidate) = E!LiveOf(recruiting[r].candidate)
      BY <3>4
    <3>7. OpeningKept(x)
      BY <2>1, <2>3, <3>1, <3>2, <3>4, <3>6 DEF OpeningKept
    <3>8. EditKept(x) /\ AdvanceKept(x)
      BY <3>4 DEF EditKept, AdvanceKept
    <3> QED
      BY <2>1, <3>4, <3>5, <3>7, <3>8, CaseBegins
  <2>4. \/ row.filled < row.positions /\ recruiting' = [recruiting EXCEPT ![r].step = "commit", ![r].seen = row]
        \/ E!End(r)
    BY <1>3 DEF E!ReadJob
  <2> QED
    BY <2>2, <2>3, <2>4 DEF E!End
<1>4. ASSUME NEW r \in Clerks, NEW k \in Cases, NEW stage \in Stages, E!BeginAdvance(r, k, stage)
      PROVE  CaseInv'
  <2>1. PICK x : x = [E!Idle EXCEPT !.op = "advance", !.step = "commit", !.case = k, !.to = stage,
                                    !.seen = case[k].stage]
    OBVIOUS
  <2>2. case[k] # Nil /\ recruiting' = [recruiting EXCEPT ![r] = x] /\ UNCHANGED E!rows
    BY <1>4, <2>1 DEF E!BeginAdvance, E!Begin
  <2>3. case[k].stage \in Nat
    BY <2>2 DEF CaseInv, CaseTypes, E!Case
  <2>4. /\ x.op = "advance" /\ x.step = "commit" /\ x.case = k /\ x.to = stage /\ x.seen = case[k].stage
        /\ x \in CaseRequest
    BY <2>1, <2>3 DEF CaseRequest, E!Operations, E!Idle
  <2>5. EditKept(x) /\ OpeningKept(x) /\ AdvanceKept(x)
    BY <2>2, <2>3, <2>4 DEF EditKept, OpeningKept, AdvanceKept
  <2> QED
    BY <2>2, <2>4, <2>5, CaseBegins
<1> QED
  BY <1>1, <1>2, <1>3, <1>4

\* What CreateJob and UpdateCase write, which no request is told of.
LEMMA CaseWritesKeep ==
    ASSUME E!Assumptions, CaseInv
    PROVE  /\ \A j \in Jobs, n \in 1 .. MaxPositions : E!CreateJob(j, n, "open") => CaseInv'
           /\ \A k \in Cases, c \in Candidates, status \in CaseEdits : E!UpdateCase(k, c, status) =>
                 /\ CaseInv'
                 /\ \A l \in Cases : /\ case'[l] = Nil <=> case[l] = Nil
                                     /\ case'[l].stage = case[l].stage
                                     /\ case'[l].furthest = case[l].furthest
                                     /\ case'[l].job = case[l].job
                 /\ \A d \in Candidates : E!LiveOf(d)' \ second' \subseteq E!LiveOf(d) \ second
<1>1. ASSUME NEW j \in Jobs, NEW n \in 1 .. MaxPositions, E!CreateJob(j, n, "open") PROVE CaseInv'
  <2>1. /\ job[j] = Nil /\ job' = [job EXCEPT ![j] = [positions |-> n, filled |-> 0, status |-> "open"]]
        /\ UNCHANGED <<case, lost, second, behind, recruiting>>
    BY <1>1 DEF E!CreateJob
  <2>2. [positions |-> n, filled |-> 0, status |-> "open"] \in E!JobOrder
    BY DEF E!JobOrder, E!JobStatuses, E!Assumptions
  <2>3. job' \in [Jobs -> E!JobOrder \cup {Nil}] /\ \A i \in Jobs : job[i] # Nil => job'[i] = job[i]
    BY <2>1, <2>2 DEF CaseInv, CaseTypes
  <2>4. JobThere'
    BY <2>1, <2>3 DEF CaseInv, CaseTypes, JobThere, E!Case
  <2>5. \A c \in Candidates : E!LiveOf(c)' = E!LiveOf(c)
    BY <2>1 DEF E!LiveOf
  <2> QED
    BY <2>1, <2>3, <2>4, <2>5, CaseWrites DEF CaseInv, CaseTypes
<1>2. ASSUME NEW k \in Cases, NEW c \in Candidates, NEW status \in CaseEdits, E!UpdateCase(k, c, status)
      PROVE  /\ CaseInv'
             /\ \A l \in Cases : /\ case'[l] = Nil <=> case[l] = Nil
                                 /\ case'[l].stage = case[l].stage
                                 /\ case'[l].furthest = case[l].furthest
                                 /\ case'[l].job = case[l].job
             /\ \A d \in Candidates : E!LiveOf(d)' \ second' \subseteq E!LiveOf(d) \ second
  <2>1. /\ case[k] # Nil /\ case' = [case EXCEPT ![k].candidate = c, ![k].status = status]
        /\ second' = IF status \in E!Living /\ k \notin E!LiveOf(c) THEN second \cup {k} ELSE second
        /\ UNCHANGED <<job, lost, behind, recruiting>>
    BY <1>2 DEF E!UpdateCase
  <2>2. case \in [Cases -> E!Case \cup {Nil}] /\ case[k] \in E!Case
    BY <2>1 DEF CaseInv, CaseTypes
  <2>3. PICK row : row = [case[k] EXCEPT !.candidate = c, !.status = status]
    OBVIOUS
  <2>4. /\ row \in E!Case /\ row.stage = case[k].stage /\ row.furthest = case[k].furthest
        /\ row.job = case[k].job /\ row.candidate = c /\ row.status = status
    BY <2>2, <2>3 DEF E!Case
  <2>5. row # Nil
    BY <2>4 DEF E!Assumptions
  <2>6. case' = [case EXCEPT ![k] = row]
    BY <2>1, <2>3
  <2>7. case'[k] = row /\ \A l \in Cases \ {k} : case'[l] = case[l]
    BY <2>2, <2>6
  <2>8. case' \in [Cases -> E!Case \cup {Nil}]
    BY <2>2, <2>4, <2>6
  <2>9. \A l \in Cases : /\ case'[l] = Nil <=> case[l] = Nil
                         /\ case'[l].stage = case[l].stage
                         /\ case'[l].furthest = case[l].furthest
                         /\ case'[l].job = case[l].job
    BY <2>1, <2>4, <2>5, <2>7
  <2>10. JobThere'
    BY <2>1, <2>9 DEF CaseInv, JobThere
  <2>11. ASSUME NEW d \in Candidates PROVE E!LiveOf(d)' \ second' \subseteq E!LiveOf(d) \ second
    <3>1. ASSUME NEW l \in E!LiveOf(d)', l \notin second' PROVE l \in E!LiveOf(d) \ second
      <4>1. CASE l = k
        BY <2>1, <2>4, <2>7, <3>1, <4>1 DEF E!LiveOf
      <4>2. CASE l # k
        BY <2>1, <2>7, <3>1, <4>2 DEF E!LiveOf
      <4> QED
        BY <4>1, <4>2
    <3> QED
      BY <3>1
  <2>12. CaseInv'
    BY <2>1, <2>8, <2>9, <2>10, <2>11, CaseWrites DEF CaseInv, CaseTypes
  <2> QED
    BY <2>9, <2>11, <2>12
<1> QED
  BY <1>1, <1>2

\* updateJobOrder's write tells of the job order.
LEMMA JobIsEdited ==
    ASSUME E!Assumptions, CaseInv, NEW r \in Clerks, E!CommitUpdateJob(r)
    PROVE  /\ CaseInv' /\ UNCHANGED <<case, second, behind>>
           /\ recruiting[r].job \in Jobs /\ job[recruiting[r].job] # Nil /\ job'[recruiting[r].job] \in E!JobOrder
           /\ job'[recruiting[r].job].filled = job[recruiting[r].job].filled
           /\ \/ job'[recruiting[r].job].positions = job[recruiting[r].job].positions
              \/ recruiting[r].job \in lost'
              \/ job[recruiting[r].job].filled <= job'[recruiting[r].job].positions
           /\ \A j \in Jobs \ {recruiting[r].job} : job'[j] = job[j]
           /\ lost \subseteq lost'
<1> DEFINE j == recruiting[r].job
           edit == recruiting[r].to
           positions == IF edit.positions = Nil THEN job[j].positions ELSE edit.positions
           status == IF edit.status = Nil THEN job[j].status ELSE edit.status
<1>1. /\ E!At(r, "job", "commit")
      /\ job' = [job EXCEPT ![j].positions = positions, ![j].status = status]
      /\ lost' = IF <<"job", j>> \in recruiting[r].late THEN lost \cup {j} ELSE lost
      /\ E!EndChanging(r, {<<"job", j>>})
      /\ UNCHANGED <<case, second, behind>>
  BY DEF E!CommitUpdateJob, E!Late
<1>2. /\ EditKept(recruiting[r]) /\ recruiting[r].op = "job"
  BY <1>1 DEF CaseInv, E!At
<1>3. /\ j \in Jobs /\ job[j] # Nil /\ edit \in JobEdits
      /\ <<"job", j>> \notin recruiting[r].late /\ edit.positions # Nil => job[j].filled <= edit.positions
  BY <1>2 DEF EditKept
<1>4. edit \in E!JobEdit /\ job[j] \in E!JobOrder /\ job \in [Jobs -> E!JobOrder \cup {Nil}]
  BY <1>3 DEF E!Assumptions, CaseInv, CaseTypes
<1>5. positions \in Nat /\ status \in E!JobStatuses
  BY <1>4 DEF E!JobEdit, E!JobOrder
<1>6. \/ positions = job[j].positions
      \/ <<"job", j>> \in recruiting[r].late
      \/ job[j].filled <= positions
  BY <1>3
<1> HIDE DEF positions, status
<1>7. PICK row : row = [job[j] EXCEPT !.positions = positions, !.status = status]
  OBVIOUS
<1>8. row \in E!JobOrder /\ row.filled = job[j].filled /\ row.positions = positions
  BY <1>4, <1>5, <1>7 DEF E!JobOrder
<1>9. job' = [job EXCEPT ![j] = row]
  BY <1>1, <1>4, <1>7
<1>10. /\ job'[j] = row /\ \A i \in Jobs \ {j} : job'[i] = job[i]
       /\ job' \in [Jobs -> E!JobOrder \cup {Nil}]
  BY <1>3, <1>4, <1>8, <1>9
<1>11. row # Nil
  BY <1>8 DEF E!Assumptions
<1>12. {<<"job", j>>} \subseteq MayRead
  BY <1>3 DEF MayRead
<1>13. JobThere'
  BY <1>1, <1>10, <1>11 DEF CaseInv, CaseTypes, E!Case, JobThere
<1>14. \A c \in Candidates : E!LiveOf(c)' = E!LiveOf(c)
  BY <1>1 DEF E!LiveOf
<1>15. \A i \in Jobs : (job[i] # Nil => job'[i] # Nil) /\ (<<"job", i>> \notin {<<"job", j>>} => job'[i] = job[i])
  BY <1>10, <1>11
<1>16. CaseInv'
  <2>1. PICK changed : changed = {<<"job", j>>}
    OBVIOUS
  <2>2. changed \in SUBSET MayRead /\ E!EndChanging(r, changed)
    BY <1>1, <1>12, <2>1
  <2>3. /\ \A i \in Jobs : job[i] # Nil => job'[i] # Nil
        /\ \A i \in Jobs : <<"job", i>> \notin changed /\ job[i] # Nil => job'[i] = job[i]
    BY <1>15, <2>1
  <2>4. \A c \in Candidates : E!LiveOf(c) \subseteq second => E!LiveOf(c)' \subseteq second'
    BY <1>1, <1>14
  <2>5. case' \in [Cases -> E!Case \cup {Nil}] /\ case' = case
    BY <1>1 DEF CaseInv, CaseTypes
  <2> HIDE DEF j
  <2> QED
    BY <1>10, <1>13, <2>2, <2>3, <2>4, <2>5, CaseCommits
<1>17. j \in lost' \/ <<"job", j>> \notin recruiting[r].late
  BY <1>1
<1>18. lost \subseteq lost'
  BY <1>1
<1> QED
  BY <1>1, <1>3, <1>6, <1>8, <1>10, <1>16, <1>17, <1>18

\* createCase's write tells of the candidate and of the job order, which counts one more
\* than was read.
LEMMA CaseOpens ==
    ASSUME E!Assumptions, CaseInv, NEW r \in Clerks, NEW k \in Cases, E!CommitCase(r, k)
    PROVE  /\ CaseInv' /\ UNCHANGED behind
           /\ case[k] = Nil /\ case'[k] # Nil /\ case'[k].stage = 0 /\ case'[k].furthest = 0
           /\ case'[k].job = recruiting[r].job
           /\ \A l \in Cases \ {k} : case'[l] = case[l]
           /\ \A j \in Jobs \ {recruiting[r].job} : job'[j] = job[j]
           /\ recruiting[r].job \in Jobs => /\ job[recruiting[r].job] # Nil
                                            /\ \/ recruiting[r].job \in lost'
                                               \/ /\ job'[recruiting[r].job].filled = job[recruiting[r].job].filled + 1
                                                  /\ job[recruiting[r].job].filled < job[recruiting[r].job].positions
                                                  /\ job'[recruiting[r].job].positions = job[recruiting[r].job].positions
           /\ lost \subseteq lost'
           /\ \A d \in Candidates : \/ E!LiveOf(d)' \ second' \subseteq E!LiveOf(d) \ second
                                    \/ E!LiveOf(d)' \ second' \subseteq {k}
<1>0. PICK c : c = recruiting[r].candidate
  OBVIOUS
<1> DEFINE j == recruiting[r].job
           seen == recruiting[r].seen
           row == [candidate |-> c, job |-> j, status |-> "active", stage |-> 0, furthest |-> 0]
           told == IF j = Nil THEN {} ELSE {<<"job", j>>}
           opened == E!FilledBy(seen).filled
           status == E!FilledBy(seen).status
<1>1. /\ E!At(r, "open", "commit") /\ case[k] = Nil
      /\ job' = IF j = Nil THEN job ELSE [job EXCEPT ![j].filled = opened, ![j].status = status]
      /\ case' = [case EXCEPT ![k] = row]
      /\ lost' = IF <<"job", j>> \in recruiting[r].late THEN lost \cup {j} ELSE lost
      /\ second' = IF <<"candidate", c>> \in recruiting[r].late THEN second \cup {k} ELSE second
      /\ E!EndChanging(r, {<<"candidate", c>>} \cup told)
      /\ UNCHANGED behind
  BY <1>0 DEF E!CommitCase, E!Late
<1>2. /\ OpeningKept(recruiting[r]) /\ recruiting[r].op = "open" /\ recruiting[r].step = "commit" /\ recruiting[r] \in CaseRequest
  BY <1>1 DEF CaseInv, CaseTypes, E!At
<1>3. /\ c \in Candidates /\ (<<"candidate", c>> \notin recruiting[r].late => E!LiveOf(c) \subseteq second)
      /\ j \in Jobs \cup {Nil}
      /\ j # Nil => /\ job[j] # Nil /\ seen \in E!JobOrder
                    /\ <<"job", j>> \notin recruiting[r].late => seen = job[j] /\ seen.filled < seen.positions
  BY <1>0, <1>2 DEF OpeningKept, CaseRequest
<1>4. /\ case \in [Cases -> E!Case \cup {Nil}] /\ job \in [Jobs -> E!JobOrder \cup {Nil}]
      /\ Nil \notin Jobs
  BY DEF CaseInv, CaseTypes, E!Assumptions
<1>5. /\ row \in E!Case /\ row.job = j /\ row.candidate = c /\ row.status = "active"
      /\ row.stage = 0 /\ row.furthest = 0
  <2>1. "active" \in E!Living
    BY DEF E!Living
  <2> QED
    BY <1>3 DEF E!Case
<1>6. row # Nil
  BY <1>5 DEF E!Assumptions
<1> HIDE DEF row
<1>7. /\ case'[k] = row /\ case' \in [Cases -> E!Case \cup {Nil}]
      /\ \A l \in Cases \ {k} : case'[l] = case[l]
  BY <1>1, <1>4, <1>5
<1>8. ASSUME j # Nil
      PROVE  /\ job' \in [Jobs -> E!JobOrder \cup {Nil}] /\ job'[j] # Nil
             /\ \A i \in Jobs \ {j} : job'[i] = job[i]
             /\ job'[j].positions = job[j].positions /\ job'[j].filled = seen.filled + 1
  <2>1. opened = seen.filled + 1 /\ opened \in Nat /\ status \in E!JobStatuses
    BY <1>3, <1>8 DEF E!FilledBy, E!JobOrder, E!JobStatuses
  <2> HIDE DEF opened, status
  <2>2. PICK new : new = [job[j] EXCEPT !.filled = opened, !.status = status]
    OBVIOUS
  <2>3. j \in Jobs /\ job[j] \in E!JobOrder
    BY <1>3, <1>4, <1>8
  <2>4. new \in E!JobOrder /\ new.filled = opened /\ new.positions = job[j].positions
    BY <2>1, <2>2, <2>3 DEF E!JobOrder
  <2>5. job' = [job EXCEPT ![j] = new]
    BY <1>1, <1>8, <2>2, <2>3, <1>4
  <2>6. new # Nil
    BY <2>4 DEF E!Assumptions
  <2> QED
    BY <1>4, <2>1, <2>3, <2>4, <2>5, <2>6
<1>9. j = Nil => job' = job
  BY <1>1
<1>10. /\ job' \in [Jobs -> E!JobOrder \cup {Nil}]
       /\ \A i \in Jobs : (job[i] # Nil => job'[i] # Nil) /\ (i # j => job'[i] = job[i])
  BY <1>3, <1>4, <1>8, <1>9
<1> HIDE DEF opened, status
<1>11. \A i \in Jobs : <<"job", i>> \notin {<<"candidate", c>>} \cup told => i # j
  BY <1>4
<1>12. {<<"candidate", c>>} \cup told \subseteq MayRead
  BY <1>3 DEF MayRead
<1>13. JobThere'
  <2>1. \A l \in Cases \ {k} : case'[l] # Nil /\ case'[l].job # Nil =>
           job[case'[l].job] # Nil /\ case'[l].job \in Jobs
    BY <1>4, <1>7 DEF CaseInv, JobThere, E!Case
  <2>2. case'[k].job # Nil => job[case'[k].job] # Nil /\ case'[k].job \in Jobs
    BY <1>3, <1>5, <1>7
  <2> QED
    BY <1>10, <2>1, <2>2 DEF JobThere
<1>14. ASSUME NEW d \in Candidates, d # c PROVE E!LiveOf(d)' \ second' \subseteq E!LiveOf(d) \ second
  <2>1. E!LiveOf(d)' \subseteq E!LiveOf(d) /\ second \subseteq second'
    BY <1>1, <1>5, <1>7, <1>14 DEF E!LiveOf
  <2> QED
    BY <2>1
<1>15. E!LiveOf(c)' \ second' \subseteq E!LiveOf(c) \ second \/ E!LiveOf(c)' \ second' \subseteq {k}
  <2>1. E!LiveOf(c)' \subseteq E!LiveOf(c) \cup {k}
    <3>1. \A l \in Cases \ {k} : l \in E!LiveOf(c)' => l \in E!LiveOf(c)
      BY <1>7 DEF E!LiveOf
    <3>2. E!LiveOf(c)' \subseteq Cases
      BY DEF E!LiveOf
    <3> QED
      BY <3>1, <3>2
  <2>2. CASE <<"candidate", c>> \in recruiting[r].late
    BY <1>1, <2>1, <2>2
  <2>3. CASE <<"candidate", c>> \notin recruiting[r].late
    BY <1>1, <1>3, <2>1, <2>3
  <2> QED
    BY <2>2, <2>3
<1>16. \A d \in Candidates : <<"candidate", d>> \notin {<<"candidate", c>>} \cup told => d # c
  OBVIOUS
<1>17. \A d \in Candidates : <<"candidate", d>> \notin {<<"candidate", c>>} \cup told /\ E!LiveOf(d) \subseteq second
                                => E!LiveOf(d)' \subseteq second'
  BY <1>14, <1>16
<1>18. \A l \in Cases : case[l] # Nil => case'[l] # Nil /\ case'[l].stage = case[l].stage
  BY <1>1, <1>7
<1>19. CaseInv'
  <2>1. \A i \in Jobs : <<"job", i>> \notin {<<"candidate", c>>} \cup told /\ job[i] # Nil => job'[i] = job[i]
    BY <1>10, <1>11
  <2>2. PICK changed : changed = {<<"candidate", c>>} \cup told
    OBVIOUS
  <2>3. changed \in SUBSET MayRead /\ E!EndChanging(r, changed)
    BY <1>1, <1>12, <2>2
  <2>4. \A i \in Jobs : <<"job", i>> \notin changed /\ job[i] # Nil => job'[i] = job[i]
    BY <2>1, <2>2
  <2>5. \A d \in Candidates : <<"candidate", d>> \notin changed /\ E!LiveOf(d) \subseteq second
                                  => E!LiveOf(d)' \subseteq second'
    BY <1>17, <2>2
  <2>6. \A i \in Jobs : job[i] # Nil => job'[i] # Nil
    BY <1>10
  <2>7. /\ \A l \in Cases : case[l] # Nil => case'[l] # Nil
        /\ \A l \in Cases : <<"stage", l>> \notin changed /\ case[l] # Nil => case'[l].stage = case[l].stage
    BY <1>18
  <2>8. job' \in [Jobs -> E!JobOrder \cup {Nil}] /\ case' \in [Cases -> E!Case \cup {Nil}] /\ JobThere'
    BY <1>7, <1>10, <1>13
  <2> HIDE DEF told, j
  <2> QED
    BY <2>3, <2>4, <2>5, <2>6, <2>7, <2>8, CaseCommits
<1>20. ASSUME j \in Jobs
       PROVE  /\ job[j] # Nil
              /\ \/ j \in lost'
                 \/ /\ job'[j].filled = job[j].filled + 1 /\ job[j].filled < job[j].positions
                    /\ job'[j].positions = job[j].positions
  BY <1>1, <1>3, <1>4, <1>8, <1>20
<1>21. lost \subseteq lost'
  BY <1>1
<1>22. \A d \in Candidates : \/ E!LiveOf(d)' \ second' \subseteq E!LiveOf(d) \ second
                             \/ E!LiveOf(d)' \ second' \subseteq {k}
  BY <1>14, <1>15
<1> QED
  BY <1>1, <1>5, <1>6, <1>7, <1>10, <1>19, <1>20, <1>21, <1>22

\* advance's write tells of the stage: it is the furthest, unless the case was behind or
\* its stage has changed since it was read.
LEMMA CaseAdvances ==
    ASSUME E!Assumptions, CaseInv, NEW r \in Clerks, E!CommitAdvance(r)
    PROVE  \E k \in Cases :
           /\ CaseInv' /\ UNCHANGED <<job, lost, second>>
           /\ case[k] # Nil /\ case'[k] # Nil /\ case'[k].job = case[k].job
           /\ \A l \in Cases \ {k} : case'[l] = case[l]
           /\ case[k].stage = case[k].furthest =>
                 case'[k].stage = case'[k].furthest \/ k \in behind'
           /\ k \in behind => case'[k].stage = case'[k].furthest \/ k \in behind'
           /\ behind \ {k} \subseteq behind'
           /\ \A d \in Candidates : E!LiveOf(d)' \ second' \subseteq E!LiveOf(d) \ second
<1>0. PICK k : k = recruiting[r].case
  OBVIOUS
<1> DEFINE to == recruiting[r].to
           seen == recruiting[r].seen
           stage == IF E!Forward(to, seen) THEN to ELSE case[k].stage
           furthest == IF to > case[k].furthest THEN to ELSE case[k].furthest
           status == CASE to = Denied -> "denied" [] to = Departed -> "closed" [] OTHER -> case[k].status
           row == [case[k] EXCEPT !.stage = stage, !.furthest = furthest, !.status = status]
           told == IF row.stage = case[k].stage THEN {} ELSE {<<"stage", k>>}
<1>1. /\ E!At(r, "advance", "commit")
      /\ case' = [case EXCEPT ![k] = row]
      /\ behind' = IF row.stage = row.furthest THEN behind \ {k}
                   ELSE IF <<"stage", k>> \in recruiting[r].late THEN behind \cup {k} ELSE behind
      /\ E!EndChanging(r, told)
      /\ UNCHANGED <<job, lost, second>>
  BY <1>0 DEF E!CommitAdvance, E!Late
<1>2. AdvanceKept(recruiting[r]) /\ recruiting[r].op = "advance"
  BY <1>1 DEF CaseInv, E!At
<1>3. /\ k \in Cases /\ case[k] # Nil /\ to \in Stages /\ seen \in Nat
      /\ <<"stage", k>> \notin recruiting[r].late => seen = case[k].stage
  BY <1>0, <1>2 DEF AdvanceKept
<1>4. case[k] \in E!Case /\ case \in [Cases -> E!Case \cup {Nil}] /\ to \in Nat
  BY <1>3 DEF E!Assumptions, CaseInv, CaseTypes
<1>5. case[k].stage \in Nat /\ case[k].furthest \in Nat
  BY <1>4 DEF E!Case
<1>6. stage \in Nat /\ furthest \in Nat
  BY <1>4, <1>5
<1>7. status \in {"denied", "closed"} \/ status = case[k].status
  OBVIOUS
<1>8. seen = case[k].stage /\ case[k].stage = case[k].furthest => stage = furthest
  BY <1>4, <1>5 DEF E!Forward
<1> HIDE DEF stage, furthest, status
<1>9. /\ row \in E!Case /\ row.stage = stage /\ row.furthest = furthest /\ row.status = status
      /\ row.job = case[k].job /\ row.candidate = case[k].candidate
  BY <1>4, <1>6, <1>7 DEF E!Case
<1>10. row # Nil
  BY <1>9 DEF E!Assumptions
<1> HIDE DEF row
<1>11. /\ case'[k] = row /\ \A l \in Cases \ {k} : case'[l] = case[l]
       /\ case' \in [Cases -> E!Case \cup {Nil}]
  BY <1>1, <1>3, <1>4, <1>9
<1>12. JobThere'
  BY <1>1, <1>3, <1>9, <1>11 DEF CaseInv, JobThere
<1>13. ASSUME NEW d \in Candidates PROVE E!LiveOf(d)' \subseteq E!LiveOf(d)
  <2>1. ASSUME NEW l \in E!LiveOf(d)' PROVE l \in E!LiveOf(d)
    <3>1. CASE l = k
      BY <1>3, <1>7, <1>9, <1>11, <2>1, <3>1 DEF E!LiveOf, E!Living
    <3>2. CASE l # k
      BY <1>11, <2>1, <3>2 DEF E!LiveOf
    <3> QED
      BY <3>1, <3>2
  <2> QED
    BY <2>1
<1>14. told \subseteq MayRead
  BY <1>3 DEF MayRead
<1>15. \A l \in Cases : /\ case[l] # Nil => case'[l] # Nil
                        /\ <<"stage", l>> \notin told => case'[l].stage = case[l].stage
  BY <1>10, <1>11
<1> HIDE DEF told
<1>16. CaseInv'
  BY <1>1, <1>11, <1>12, <1>13, <1>14, <1>15, CaseCommits DEF CaseInv, CaseTypes
<1>17. case[k].stage = case[k].furthest => case'[k].stage = case'[k].furthest \/ k \in behind'
  BY <1>1, <1>3, <1>8, <1>9, <1>11
<1>18. k \in behind => case'[k].stage = case'[k].furthest \/ k \in behind'
  BY <1>1, <1>11
<1>19. behind \ {k} \subseteq behind'
  BY <1>1
<1>20. \A d \in Candidates : E!LiveOf(d)' \ second' \subseteq E!LiveOf(d) \ second
  BY <1>1, <1>13
<1> QED
  BY <1>1, <1>3, <1>9, <1>10, <1>11, <1>16, <1>17, <1>18, <1>19, <1>20

\* It holds at first.
LEMMA CaseInit ==
    ASSUME E!Assumptions, E!Init
    PROVE  CaseInv
<1>1. /\ job = [j \in Jobs |-> Nil] /\ case = [k \in Cases |-> Nil] /\ recruiting = [r \in Clerks |-> E!Idle]
  BY DEF E!Init, E!InitRecruitment
<1>2. \A r \in Clerks : recruiting[r] = E!Idle
  BY <1>1
<1>3. CaseTypes /\ JobThere
  BY <1>1, CaseIdle DEF CaseTypes, JobThere
<1> QED
  BY <1>2, <1>3, CaseIdle DEF CaseInv

\* The invariant behind both promises.
LEMMA CasesKeep ==
    ASSUME E!Assumptions, CaseInv, [E!Next]_E!vars
    PROVE  CaseInv'
<1>1. CASE \E j \in Jobs, n \in 1 .. MaxPositions : E!CreateJob(j, n, "open")
  BY <1>1, CaseWritesKeep
<1>2. CASE \E r \in Clerks, j \in Jobs, edit \in JobEdits : E!BeginUpdateJob(r, j, edit)
  BY <1>2, CaseStepsKeep
<1>3. CASE \E r \in Clerks, c \in Candidates, j \in Jobs \cup {Nil} : E!BeginCase(r, c, j)
  BY <1>3, CaseStepsKeep
<1>4. CASE \E r \in Clerks, k \in Cases, stage \in Stages : E!BeginAdvance(r, k, stage)
  BY <1>4, CaseStepsKeep
<1>5. CASE \E r \in Clerks, k \in Cases : E!CommitCase(r, k)
  BY <1>5, CaseOpens
<1>6. CASE \E r \in Clerks : E!CommitUpdateJob(r)
  BY <1>6, JobIsEdited
<1>7. CASE \E r \in Clerks : E!ReadJob(r)
  BY <1>7, CaseStepsKeep
<1>8. CASE \E r \in Clerks : E!CommitAdvance(r)
  BY <1>8, CaseAdvances
<1>9. CASE \E k \in Cases, c \in Candidates, status \in CaseEdits : E!UpdateCase(k, c, status)
  BY <1>9, CaseWritesKeep
<1>10. CASE UNCHANGED E!vars
  <2>1. /\ job' = job /\ case' = case /\ recruiting' = recruiting /\ second' = second
    BY <1>10 DEF E!vars, E!rows
  <2>2. \A d : E!LiveOf(d)' = E!LiveOf(d)
    BY <2>1 DEF E!LiveOf
  <2>3. JobThere'
    BY <2>1 DEF JobThere, CaseInv
  <2> QED
    BY <2>1, <2>2, <2>3, CaseWrites DEF CaseInv, CaseTypes
<1> QED
  BY <1>1, <1>2, <1>3, <1>4, <1>5, <1>6, <1>7, <1>8, <1>9, <1>10 DEF E!Next, E!Order, E!Open, E!Advance,
     E!Update

\* No step makes the stage of a case fall behind what its events have reached.
LEMMA StageKept ==
    ASSUME E!Assumptions, CaseInv, E!StageIsFurthest, [E!Next]_E!vars
    PROVE  E!StageIsFurthest'
<1>1. CASE UNCHANGED <<case, behind>>
  BY <1>1 DEF E!StageIsFurthest
<1>2. ASSUME NEW r \in Clerks, NEW k \in Cases, E!CommitCase(r, k) PROVE E!StageIsFurthest'
  BY <1>2, CaseOpens DEF E!StageIsFurthest
<1>3. ASSUME NEW r \in Clerks, E!CommitAdvance(r) PROVE E!StageIsFurthest'
  <2>1. PICK k \in Cases :
           /\ case[k] # Nil /\ \A l \in Cases \ {k} : case'[l] = case[l]
           /\ case[k].stage = case[k].furthest => case'[k].stage = case'[k].furthest \/ k \in behind'
           /\ k \in behind => case'[k].stage = case'[k].furthest \/ k \in behind'
           /\ behind \ {k} \subseteq behind'
    BY <1>3, CaseAdvances
  <2>2. case'[k].stage = case'[k].furthest \/ k \in behind'
    BY <2>1 DEF E!StageIsFurthest
  <2> QED
    BY <2>1, <2>2 DEF E!StageIsFurthest
<1>4. ASSUME NEW k \in Cases, NEW c \in Candidates, NEW status \in CaseEdits, E!UpdateCase(k, c, status)
      PROVE  E!StageIsFurthest'
  <2>1. behind' = behind
    BY <1>4 DEF E!UpdateCase
  <2>2. \A l \in Cases : /\ case'[l] = Nil <=> case[l] = Nil
                         /\ case'[l].stage = case[l].stage /\ case'[l].furthest = case[l].furthest
    BY <1>4, CaseWritesKeep
  <2> QED
    BY <2>1, <2>2 DEF E!StageIsFurthest
<1>5. \/ UNCHANGED <<case, behind>>
      \/ \E r \in Clerks, k \in Cases : E!CommitCase(r, k)
      \/ \E r \in Clerks : E!CommitAdvance(r)
      \/ \E k \in Cases, c \in Candidates, status \in CaseEdits : E!UpdateCase(k, c, status)
  BY DEF E!Next, E!Order, E!Open, E!Advance, E!Update, E!vars, E!rows,
         E!CreateJob, E!BeginUpdateJob, E!BeginCase, E!BeginAdvance,
         E!CommitUpdateJob, E!ReadJob
<1> QED
  BY <1>1, <1>2, <1>3, <1>4, <1>5

\* The stage of a case is the furthest its events have reached, unless a request whose
\* read another had overtaken has set it back: for any stages, cases and requests
\* (advance).
THEOREM StageKeepsUp == VenturesSpec => []StageIsFurthest
<1>1. VenturesInit => CaseInv /\ StageIsFurthest
  BY VenturesAssumption, CaseInit DEF VenturesInit, E!Init, E!InitRecruitment, StageIsFurthest,
                                      E!StageIsFurthest
<1>2. (CaseInv /\ StageIsFurthest) /\ [VenturesNext]_ventures => (CaseInv /\ StageIsFurthest)'
  BY VenturesAssumption, CasesKeep, StageKept, StepsOfEach DEF StageIsFurthest
<1> QED
  BY <1>1, <1>2, PTL DEF VenturesSpec

\* A job order that no overtaken request wrote counts the cases opened for it.
JobHonest(j) ==
    job[j] # Nil => /\ job[j].filled = Cardinality(E!Opened(j))
                    /\ job[j].filled <= job[j].positions

\* A candidate has one live case but for the second ones.
CandidateHonest(c) == Cardinality(E!LiveOf(c) \ second) <= 1

\* The promise is one of each job order and one of each candidate.
LEMMA HonestParts ==
    E!VacanciesHonest <=> /\ \A j \in Jobs \ lost : JobHonest(j)
                          /\ \A c \in Candidates : CandidateHonest(c)
  BY CasesCounted DEF E!VacanciesHonest, JobHonest, CandidateHonest

\* No step opens a second live case without a trace.
LEMMA CandidatesKept ==
    ASSUME E!Assumptions, CaseInv, [E!Next]_E!vars, NEW c \in Candidates, CandidateHonest(c)
    PROVE  CandidateHonest(c)'
<1>1. IsFiniteSet(Cases)
  BY CasesCounted DEF E!Assumptions
<1>2. CASE E!LiveOf(c)' \ second' \subseteq E!LiveOf(c) \ second
  <2>1. E!LiveOf(c) \ second \subseteq Cases
    BY DEF E!LiveOf
  <2>2. IsFiniteSet(E!LiveOf(c) \ second)
    BY <1>1, <2>1, FS_Subset
  <2>3. /\ Cardinality(E!LiveOf(c)' \ second') <= Cardinality(E!LiveOf(c) \ second)
        /\ IsFiniteSet(E!LiveOf(c)' \ second')
    BY <1>2, <2>2, FS_Subset
  <2>4. Cardinality(E!LiveOf(c)' \ second') \in Nat /\ Cardinality(E!LiveOf(c) \ second) \in Nat
    BY <2>2, <2>3, FS_CardinalityType
  <2> QED
    BY <2>3, <2>4 DEF CandidateHonest
<1>3. ASSUME NEW k, E!LiveOf(c)' \ second' \subseteq {k} PROVE CandidateHonest(c)'
  <2>1. IsFiniteSet({k}) /\ Cardinality({k}) = 1
    BY FS_Singleton
  <2>2. Cardinality(E!LiveOf(c)' \ second') <= 1
    BY <1>3, <2>1, FS_Subset
  <2> QED
    BY <2>2 DEF CandidateHonest
<1>4. CASE UNCHANGED <<case, second>>
  BY <1>2, <1>4 DEF E!LiveOf
<1>5. ASSUME NEW r \in Clerks, NEW k \in Cases, E!CommitCase(r, k) PROVE CandidateHonest(c)'
  BY <1>2, <1>3, <1>5, CaseOpens
<1>6. ASSUME NEW r \in Clerks, E!CommitAdvance(r) PROVE CandidateHonest(c)'
  BY <1>2, <1>6, CaseAdvances
<1>7. ASSUME NEW k \in Cases, NEW d \in Candidates, NEW status \in CaseEdits, E!UpdateCase(k, d, status)
      PROVE  CandidateHonest(c)'
  BY <1>2, <1>7, CaseWritesKeep
<1>8. \/ UNCHANGED <<case, second>>
      \/ \E r \in Clerks, k \in Cases : E!CommitCase(r, k)
      \/ \E r \in Clerks : E!CommitAdvance(r)
      \/ \E k \in Cases, d \in Candidates, status \in CaseEdits : E!UpdateCase(k, d, status)
  BY DEF E!Next, E!Order, E!Open, E!Advance, E!Update, E!vars, E!rows,
         E!CreateJob, E!BeginUpdateJob, E!BeginCase, E!BeginAdvance,
         E!CommitUpdateJob, E!ReadJob
<1> QED
  BY <1>4, <1>5, <1>6, <1>7, <1>8

\* Where no case is opened or moved, a job order counts as before.
LEMMA OpenedStays ==
    ASSUME NEW j \in Jobs, \A k \in Cases : /\ case'[k] = Nil <=> case[k] = Nil
                                            /\ case'[k].job = case[k].job
    PROVE  E!Opened(j)' = E!Opened(j)
  BY DEF E!Opened

\* No step miscounts a job order without a trace.
LEMMA JobsKept ==
    ASSUME E!Assumptions, CaseInv, [E!Next]_E!vars, NEW j \in Jobs, j \notin lost => JobHonest(j),
           j \notin lost'
    PROVE  JobHonest(j)'
<1>0. lost \subseteq lost' => JobHonest(j)
  OBVIOUS
<1>1. \A S \in SUBSET Cases : IsFiniteSet(S) /\ Cardinality(S) \in Nat
  BY CasesCounted, FS_Subset, FS_CardinalityType DEF E!Assumptions
<1>2. ASSUME UNCHANGED <<job, lost>>, \A k \in Cases : /\ case'[k] = Nil <=> case[k] = Nil
                                                       /\ case'[k].job = case[k].job
      PROVE  JobHonest(j)'
  BY <1>0, <1>2, OpenedStays DEF JobHonest
<1>3. CASE UNCHANGED <<job, case, lost>>
  BY <1>2, <1>3
<1>4. ASSUME NEW i \in Jobs, NEW n \in 1 .. MaxPositions, E!CreateJob(i, n, "open")
      PROVE  JobHonest(j)'
  <2>1. /\ job[i] = Nil /\ job' = [job EXCEPT ![i] = [positions |-> n, filled |-> 0, status |-> "open"]]
        /\ UNCHANGED <<case, lost>> /\ job \in [Jobs -> E!JobOrder \cup {Nil}]
    BY <1>4 DEF E!CreateJob, CaseInv, CaseTypes
  <2>2. E!Opened(j)' = E!Opened(j)
    BY <2>1 DEF E!Opened
  <2>3. CASE i = j
    <3>1. E!Opened(j) = {}
      BY <2>1, <2>3 DEF E!Opened, CaseInv, JobThere, E!Assumptions
    <3>2. job'[j].filled = 0 /\ job'[j].positions = n /\ 0 <= n
      BY <2>1, <2>3 DEF E!Assumptions
    <3> QED
      BY <2>2, <3>1, <3>2, FS_EmptySet DEF JobHonest
  <2>4. CASE i # j
    BY <1>0, <2>1, <2>2, <2>4 DEF JobHonest
  <2> QED
    BY <2>3, <2>4
<1>5. ASSUME NEW r \in Clerks, NEW k \in Cases, E!CommitCase(r, k) PROVE JobHonest(j)'
  <2>1. /\ case[k] = Nil /\ case'[k] # Nil /\ case'[k].job = recruiting[r].job
        /\ \A l \in Cases \ {k} : case'[l] = case[l]
        /\ \A i \in Jobs \ {recruiting[r].job} : job'[i] = job[i]
        /\ recruiting[r].job \in Jobs => /\ job[recruiting[r].job] # Nil
                                         /\ \/ recruiting[r].job \in lost'
                                            \/ /\ job'[recruiting[r].job].filled = job[recruiting[r].job].filled + 1
                                               /\ job[recruiting[r].job].filled < job[recruiting[r].job].positions
                                               /\ job'[recruiting[r].job].positions = job[recruiting[r].job].positions
        /\ lost \subseteq lost'
    BY <1>5, CaseOpens
  <2>2. CASE recruiting[r].job = j
    <3>1. E!Opened(j)' = E!Opened(j) \cup {k} /\ k \notin E!Opened(j) /\ E!Opened(j) \subseteq Cases
      BY <2>1, <2>2 DEF E!Opened
    <3>2. Cardinality(E!Opened(j) \cup {k}) = Cardinality(E!Opened(j)) + 1
      BY <1>1, <3>1, FS_AddElement
    <3>3. /\ job'[j].filled = job[j].filled + 1 /\ job[j].filled < job[j].positions
          /\ job'[j].positions = job[j].positions /\ job[j] # Nil
      BY <2>1, <2>2
    <3>4. job[j].filled \in Nat /\ job[j].positions \in Nat
      BY <3>3 DEF CaseInv, CaseTypes, E!JobOrder
    <3>5. job[j].filled = Cardinality(E!Opened(j))
      BY <1>0, <2>1, <3>3 DEF JobHonest
    <3> QED
      BY <3>1, <3>2, <3>3, <3>4, <3>5 DEF JobHonest
  <2>3. CASE recruiting[r].job # j
    <3>1. E!Opened(j)' = E!Opened(j)
      BY <2>1, <2>3 DEF E!Opened
    <3> QED
      BY <1>0, <2>1, <2>3, <3>1 DEF JobHonest
  <2> QED
    BY <2>2, <2>3
<1>6. ASSUME NEW r \in Clerks, E!CommitUpdateJob(r) PROVE JobHonest(j)'
  <2>1. PICK i \in Jobs :
           /\ job[i] # Nil /\ job'[i] \in E!JobOrder /\ job'[i].filled = job[i].filled
           /\ \/ job'[i].positions = job[i].positions
              \/ i \in lost'
              \/ job[i].filled <= job'[i].positions
           /\ \A l \in Jobs \ {i} : job'[l] = job[l]
           /\ lost \subseteq lost' /\ case' = case
    BY <1>6, JobIsEdited
  <2>2. E!Opened(j)' = E!Opened(j)
    BY <2>1 DEF E!Opened
  <2>3. CASE i = j
    BY <1>0, <2>1, <2>2, <2>3 DEF JobHonest
  <2>4. CASE i # j
    BY <1>0, <2>1, <2>2, <2>4 DEF JobHonest
  <2> QED
    BY <2>3, <2>4
<1>7. ASSUME NEW r \in Clerks, E!CommitAdvance(r) PROVE JobHonest(j)'
  <2>1. /\ UNCHANGED <<job, lost>>
        /\ \A l \in Cases : (case'[l] = Nil <=> case[l] = Nil) /\ case'[l].job = case[l].job
    BY <1>7, CaseAdvances
  <2> QED
    BY <1>2, <2>1
<1>8. ASSUME NEW k \in Cases, NEW c \in Candidates, NEW status \in CaseEdits, E!UpdateCase(k, c, status)
      PROVE  JobHonest(j)'
  <2>1. UNCHANGED <<job, lost>>
    BY <1>8 DEF E!UpdateCase
  <2>2. \A l \in Cases : (case'[l] = Nil <=> case[l] = Nil) /\ case'[l].job = case[l].job
    BY <1>8, CaseWritesKeep
  <2> QED
    BY <1>2, <2>1, <2>2
<1>9. \/ UNCHANGED <<job, case, lost>>
      \/ \E i \in Jobs, n \in 1 .. MaxPositions : E!CreateJob(i, n, "open")
      \/ \E r \in Clerks, k \in Cases : E!CommitCase(r, k)
      \/ \E r \in Clerks : E!CommitUpdateJob(r) \/ E!CommitAdvance(r)
      \/ \E k \in Cases, c \in Candidates, status \in CaseEdits : E!UpdateCase(k, c, status)
  BY DEF E!Next, E!Order, E!Open, E!Advance, E!Update, E!vars, E!rows,
         E!BeginUpdateJob, E!BeginCase, E!BeginAdvance, E!ReadJob
<1> QED
  BY <1>3, <1>4, <1>5, <1>6, <1>7, <1>8, <1>9

\* Vacancies stay honest: a job order counts as filled the cases opened for it, never more
\* than its positions, and a candidate has one live case, but for what an overtaken
\* request wrote or an update brought back: for any job orders, cases and requests
\* (createCase, updateJobOrder, updateCase).
THEOREM VacanciesAreHonest == VenturesSpec => []VacanciesHonest
<1>0. E!Assumptions
  BY VenturesAssumption
<1>1. VenturesInit => CaseInv /\ VacanciesHonest
  <2> SUFFICES ASSUME E!Init PROVE CaseInv /\ E!VacanciesHonest
    BY DEF VenturesInit, VacanciesHonest
  <2>1. job = [j \in Jobs |-> Nil] /\ case = [k \in Cases |-> Nil]
    BY DEF E!Init, E!InitRecruitment
  <2>2. \A c \in Candidates : E!LiveOf(c) \ second = {}
    BY <2>1 DEF E!LiveOf
  <2>3. \A c \in Candidates : CandidateHonest(c)
    BY <2>2, FS_EmptySet DEF CandidateHonest
  <2>4. \A j \in Jobs : JobHonest(j)
    BY <2>1 DEF JobHonest
  <2> QED
    BY <1>0, <2>3, <2>4, CaseInit, HonestParts
<1>2. (CaseInv /\ VacanciesHonest) /\ [VenturesNext]_ventures => (CaseInv /\ VacanciesHonest)'
  <2> SUFFICES ASSUME CaseInv, E!VacanciesHonest, [E!Next]_E!vars
               PROVE  CaseInv' /\ E!VacanciesHonest'
    BY StepsOfEach DEF VacanciesHonest
  <2>1. \A c \in Candidates : CandidateHonest(c)'
    BY <1>0, HonestParts, CandidatesKept
  <2>2. \A j \in Jobs \ lost' : JobHonest(j)'
    BY <1>0, HonestParts, JobsKept
  <2>3. E!VacanciesHonest'
    BY <2>1, <2>2, CasesCounted DEF E!VacanciesHonest, JobHonest, CandidateHonest
  <2> QED
    BY <1>0, <2>3, CasesKeep
<1> QED
  BY <1>1, <1>2, PTL DEF VenturesSpec

-------------------------------------------------------------------------------
(* Quotations                                                              *)

\* A request has read the quotation that it is about.
QuoteRequest ==
    [op : Q!Operations \cup {Nil}, quotation : Quotations \cup {Nil},
     to : Offers \cup Q!Statuses \cup Codes \cup {Nil}, seen : Offers \cup {Nil}, late : BOOLEAN]

QuoteTypes ==
    /\ quotation \in [Quotations -> Q!Quotation \cup {Nil}]
    /\ project \in [Codes -> Q!Project \cup {Nil}]
    /\ quoting \in [Clerks -> QuoteRequest]

\* What a request goes on to write is of the kind its operation writes, and what it has
\* read of the quotation is still so, unless the quotation was changed since.
Underway(x) ==
    /\ x.quotation \in Quotations /\ quotation[x.quotation] # Nil
    /\ x.op = "update" => x.to \in Offers
    /\ x.op = "status" => x.to \in Q!Statuses \ {"draft", "won"}
    /\ x.op = "win" => x.to \in Codes /\ x.seen \in Offers
    /\ ~x.late => /\ quotation[x.quotation].status # "won"
                  /\ x.op = "win" => x.seen = quotation[x.quotation].offer

QuoteRequests == \A r \in Clerks : quoting[r].op # Nil => Underway(quoting[r])

\* A project comes from a quotation that is there.
QuoteThere == \A c \in Codes : project[c] # Nil => quotation[project[c].from] # Nil

QuoteInv == QuoteTypes /\ QuoteRequests /\ QuoteThere /\ Q!WonIsOneProject

\* A request begins.
LEMMA QuoteBegins ==
    ASSUME Q!Assumptions, QuoteInv, NEW r \in Clerks, NEW op \in Q!Operations,
           NEW q \in Quotations, NEW to \in Offers \cup Q!Statuses \cup Codes, NEW seen \in Offers \cup {Nil},
           Q!Begin(r, op, q, to, seen), UNCHANGED Q!rows,
           quotation[q] # Nil, quotation[q].status # "won",
           op = "update" => to \in Offers,
           op = "status" => to \in Q!Statuses \ {"draft", "won"},
           op = "win" => to \in Codes /\ seen \in Offers /\ seen = quotation[q].offer
    PROVE  QuoteInv'
<1> USE DEF Q!rows
<1>1. QuoteTypes'
  BY DEF QuoteInv, QuoteTypes, QuoteRequest, Q!Begin
<1>2. QuoteRequests'
  BY DEF QuoteInv, QuoteTypes, QuoteRequests, Underway, Q!Begin
<1>3. Q!WonIsOneProject' /\ QuoteThere'
  BY DEF QuoteInv, QuoteThere, Q!WonIsOneProject, Q!WonFrom
<1> QED
  BY <1>1, <1>2, <1>3 DEF QuoteInv

\* What a write does to the requests: the one that writes ends, those on the same
\* quotation have read what has changed.
LEMMA QuoteWritesTell ==
    ASSUME Q!Assumptions, QuoteInv, NEW r \in Clerks, quoting[r].op # Nil,
           NEW row \in Q!Quotation, Q!Write(r, row)
    PROVE  /\ quotation' \in [Quotations -> Q!Quotation \cup {Nil}]
           /\ quoting' \in [Clerks -> QuoteRequest]
           /\ \A p \in Quotations : quotation'[p] = IF p = quoting[r].quotation THEN row ELSE quotation[p]
           /\ \A s \in Clerks : quoting'[s].op # Nil =>
                 /\ s # r /\ quoting[s].op # Nil
                 /\ quoting'[s].op = quoting[s].op /\ quoting'[s].quotation = quoting[s].quotation
                 /\ quoting'[s].to = quoting[s].to /\ quoting'[s].seen = quoting[s].seen
                 /\ quoting'[s].late = (quoting[s].late \/ quoting[s].quotation = quoting[r].quotation)
<1>1. quoting[r].quotation \in Quotations
  BY DEF QuoteInv, QuoteRequests, Underway
<1>2. quotation' = [quotation EXCEPT ![quoting[r].quotation] = row]
  BY DEF Q!Write
<1>3. quoting' = [s \in Clerks |-> IF s = r THEN Q!Idle
                    ELSE [quoting[s] EXCEPT !.late = @ \/ quoting[s].quotation = quoting[r].quotation]]
  BY DEF Q!Write
<1>4. quoting \in [Clerks -> QuoteRequest] /\ quotation \in [Quotations -> Q!Quotation \cup {Nil}]
  BY DEF QuoteInv, QuoteTypes
<1>5. Q!Idle \in QuoteRequest /\ Q!Idle.op = Nil
  BY DEF Q!Idle, QuoteRequest
<1>6. \A s \in Clerks, b \in BOOLEAN : [quoting[s] EXCEPT !.late = @ \/ b] \in QuoteRequest
  BY <1>4 DEF QuoteRequest
<1>7. quoting' \in [Clerks -> QuoteRequest]
  BY <1>3, <1>5, <1>6
<1>8. ASSUME NEW s \in Clerks, quoting'[s].op # Nil
      PROVE  /\ s # r /\ quoting[s].op # Nil
             /\ quoting'[s].op = quoting[s].op /\ quoting'[s].quotation = quoting[s].quotation
             /\ quoting'[s].to = quoting[s].to /\ quoting'[s].seen = quoting[s].seen
             /\ quoting'[s].late = (quoting[s].late \/ quoting[s].quotation = quoting[r].quotation)
  <2>1. s # r
    BY <1>3, <1>5, <1>8
  <2>2. quoting'[s] = [quoting[s] EXCEPT !.late = @ \/ quoting[s].quotation = quoting[r].quotation]
    BY <1>3, <2>1
  <2>3. quoting[s] \in QuoteRequest
    BY <1>4
  <2> QED
    BY <1>8, <2>1, <2>2, <2>3 DEF QuoteRequest
<1> QED
  BY <1>1, <1>2, <1>4, <1>7, <1>8

\* What the requests know after a write.
LEMMA QuoteWritesKeep ==
    ASSUME Q!Assumptions, QuoteInv, NEW r \in Clerks, quoting[r].op # Nil,
           NEW row \in Q!Quotation, Q!Write(r, row)
    PROVE  QuoteRequests'
<1> SUFFICES ASSUME NEW s \in Clerks, quoting'[s].op # Nil PROVE Underway(quoting[s])'
  BY DEF QuoteRequests
<1>1. /\ quoting[s].op # Nil
      /\ quoting'[s].op = quoting[s].op /\ quoting'[s].quotation = quoting[s].quotation
      /\ quoting'[s].to = quoting[s].to /\ quoting'[s].seen = quoting[s].seen
      /\ quoting'[s].late = (quoting[s].late \/ quoting[s].quotation = quoting[r].quotation)
  BY QuoteWritesTell
<1>2. Underway(quoting[s]) /\ Underway(quoting[r])
  BY <1>1 DEF QuoteInv, QuoteRequests
<1>3. \A p \in Quotations : quotation'[p] = IF p = quoting[r].quotation THEN row ELSE quotation[p]
  BY QuoteWritesTell
<1>4. row # Nil
  BY DEF Q!Assumptions
<1> QED
  BY <1>1, <1>2, <1>3, <1>4 DEF Underway

\* An update or a change of status: it leaves the projects alone, and a quotation that
\* it finds won is contested.
LEMMA QuoteCommits ==
    ASSUME Q!Assumptions, QuoteInv, NEW r \in Clerks, quoting[r].op # Nil,
           NEW row \in Q!Quotation, Q!Write(r, row), UNCHANGED project,
           row.status # "won" \/ quotation[quoting[r].quotation].status = "won"
    PROVE  QuoteInv'
<1> DEFINE q == quoting[r].quotation
<1>1. q \in Quotations /\ quotation[q] # Nil /\ (~quoting[r].late => quotation[q].status # "won")
  BY DEF QuoteInv, QuoteRequests, Underway
<1>2. row # Nil
  BY DEF Q!Assumptions
<1>3. QuoteTypes'
  BY QuoteWritesTell DEF QuoteInv, QuoteTypes
<1>4. QuoteRequests'
  BY QuoteWritesKeep
<1>5. /\ quoting[r].late /\ "won" \in {quotation[q].status, row.status} => contested' = contested \cup {q}
      /\ ~(quoting[r].late /\ "won" \in {quotation[q].status, row.status}) => contested' = contested
  BY DEF Q!Write
<1>6. Q!WonIsOneProject'
  <2> SUFFICES ASSUME NEW p \in Quotations, p \notin contested', quotation'[p] # Nil
               PROVE  /\ Q!WonFrom(p)' = IF quotation'[p].status = "won" THEN {quotation'[p].won} ELSE {}
                      /\ \A c \in Q!WonFrom(p)' : project'[c].boq = quotation'[p].offer
    BY DEF Q!WonIsOneProject
  <2>1. Q!WonFrom(p)' = Q!WonFrom(p) /\ project' = project
    BY DEF Q!WonFrom
  <2>2. p \notin contested
    BY <1>5
  <2>3. CASE p # q
    BY <2>1, <2>2, <2>3, QuoteWritesTell DEF QuoteInv, Q!WonIsOneProject
  <2>4. CASE p = q
    <3>1. quotation[p].status # "won"
      BY <1>1, <1>5, <2>4
    <3>2. row.status # "won" /\ quotation'[p] = row
      BY <3>1, <2>4, <1>1, QuoteWritesTell
    <3>3. Q!WonFrom(p) = {}
      BY <1>1, <2>2, <2>4, <3>1 DEF QuoteInv, Q!WonIsOneProject
    <3> QED
      BY <2>1, <3>2, <3>3
  <2> QED
    BY <2>3, <2>4
<1>7. QuoteThere'
  BY <1>2, QuoteWritesTell DEF QuoteInv, QuoteTypes, QuoteThere, Q!Project
<1> QED
  BY <1>3, <1>4, <1>6, <1>7 DEF QuoteInv

\* A quotation is won: the project made is its only one.
LEMMA QuoteWins ==
    ASSUME Q!Assumptions, QuoteInv, NEW r \in Clerks, Q!CommitWin(r)
    PROVE  QuoteInv'
<1> DEFINE q == quoting[r].quotation
           c == quoting[r].to
           row == [quotation[q] EXCEPT !.status = "won", !.won = c]
<1>1. quoting[r].op = "win" /\ quoting[r].op # Nil
  BY DEF Q!CommitWin, Q!Assumptions, Q!Operations
<1>2. /\ q \in Quotations /\ quotation[q] # Nil /\ c \in Codes /\ quoting[r].seen \in Offers
      /\ ~quoting[r].late => quotation[q].status # "won" /\ quoting[r].seen = quotation[q].offer
  BY <1>1 DEF QuoteInv, QuoteRequests, Underway
<1>3. CASE project[c] # Nil
  <2>1. quoting' = [quoting EXCEPT ![r] = Q!Idle] /\ UNCHANGED <<quotation, project, contested>>
    BY <1>3 DEF Q!CommitWin, Q!rows
  <2>2. QuoteTypes'
    BY <2>1 DEF QuoteInv, QuoteTypes, QuoteRequest, Q!Idle
  <2>3. QuoteRequests'
    BY <2>1 DEF QuoteInv, QuoteTypes, QuoteRequests, Underway, Q!Idle
  <2>4. Q!WonIsOneProject' /\ QuoteThere'
    BY <2>1 DEF QuoteInv, QuoteThere, Q!WonIsOneProject, Q!WonFrom
  <2> QED
    BY <2>2, <2>3, <2>4 DEF QuoteInv
<1>4. CASE project[c] = Nil
  <2>1. Q!Write(r, row) /\ project' = [project EXCEPT ![c] = [from |-> q, boq |-> quoting[r].seen]]
    BY <1>4 DEF Q!CommitWin
  <2>2. quotation[q] \in Q!Quotation
    BY <1>2 DEF QuoteInv, QuoteTypes
  <2>3. row \in Q!Quotation /\ row.status = "won" /\ row.won = c /\ row.offer = quotation[q].offer
    BY <1>2, <2>2 DEF Q!Quotation, Q!Statuses
  <2> HIDE DEF row
  <2>4. row # Nil /\ [from |-> q, boq |-> quoting[r].seen] \in Q!Project
    BY <1>2, <2>3 DEF Q!Assumptions, Q!Project
  <2>5. QuoteTypes'
    BY <1>1, <2>1, <2>3, <2>4, QuoteWritesTell DEF QuoteInv, QuoteTypes
  <2>6. contested' = IF quoting[r].late THEN contested \cup {q} ELSE contested
    BY <2>1, <2>3 DEF Q!Write
  <2>7. QuoteRequests'
    BY <1>1, <2>1, <2>3, QuoteWritesKeep
  <2>8. Q!WonIsOneProject'
    <3> SUFFICES ASSUME NEW p \in Quotations, p \notin contested', quotation'[p] # Nil
                 PROVE  /\ Q!WonFrom(p)' = IF quotation'[p].status = "won" THEN {quotation'[p].won} ELSE {}
                        /\ \A d \in Q!WonFrom(p)' : project'[d].boq = quotation'[p].offer
      BY DEF Q!WonIsOneProject
    <3>1. project \in [Codes -> Q!Project \cup {Nil}]
      BY DEF QuoteInv, QuoteTypes
    <3>2. \A d \in Codes : project'[d] = IF d = c THEN [from |-> q, boq |-> quoting[r].seen] ELSE project[d]
      BY <2>1, <3>1, <1>2
    <3>3. [from |-> q, boq |-> quoting[r].seen] # Nil
      BY <2>4 DEF Q!Assumptions
    <3>4. Q!WonFrom(p)' = IF p = q THEN Q!WonFrom(p) \cup {c} ELSE Q!WonFrom(p)
      BY <1>2, <1>4, <3>2, <3>3 DEF Q!WonFrom
    <3>5. c \notin Q!WonFrom(p) /\ Q!WonFrom(p) \subseteq Codes
      BY <1>4 DEF Q!WonFrom
    <3>6. p \notin contested
      BY <2>6
    <3>7. CASE p # q
      <4>1. quotation'[p] = quotation[p]
        BY <1>1, <2>1, <2>3, <3>7, QuoteWritesTell
      <4> QED
        BY <3>2, <3>4, <3>5, <3>6, <3>7, <4>1 DEF QuoteInv, Q!WonIsOneProject
    <3>8. CASE p = q
      <4>1. quotation'[p] = row
        BY <1>1, <2>1, <2>3, <3>8, QuoteWritesTell
      <4>2. quotation[q].status # "won" /\ quoting[r].seen = quotation[q].offer
        BY <1>2, <2>6, <3>8
      <4>3. Q!WonFrom(p) = {}
        BY <1>2, <3>6, <3>8, <4>2 DEF QuoteInv, Q!WonIsOneProject
      <4> QED
        BY <1>2, <2>3, <3>2, <3>4, <3>8, <4>1, <4>2, <4>3
    <3> QED
      BY <3>7, <3>8
  <2>9. QuoteThere'
    <3>1. /\ \A p \in Quotations : quotation'[p] = IF p = q THEN row ELSE quotation[p]
          /\ project \in [Codes -> Q!Project \cup {Nil}]
      BY <1>1, <2>1, <2>3, QuoteWritesTell DEF QuoteInv, QuoteTypes
    <3>2. \A d \in Codes : project'[d] = IF d = c THEN [from |-> q, boq |-> quoting[r].seen] ELSE project[d]
      BY <2>1, <3>1, <1>2
    <3>3. \A d \in Codes : project[d] # Nil => project[d].from \in Quotations
      BY <3>1 DEF Q!Project
    <3> QED
      BY <1>2, <2>4, <3>1, <3>2, <3>3 DEF QuoteInv, QuoteThere
  <2> QED
    BY <2>5, <2>7, <2>8, <2>9 DEF QuoteInv
<1> QED
  BY <1>3, <1>4

\* Winning a quotation makes one project with its lines and locks it, whatever requests
\* overlap, unless they overtook each other on it as it was won.
THEOREM QuotationWonOnce == VenturesSpec => []WonIsOneProject
<1> Q!Assumptions
  BY VenturesAssumption
<1>1. VenturesInit => QuoteInv
  <2> SUFFICES ASSUME Q!Init PROVE QuoteInv
    BY DEF VenturesInit
  <2> USE DEF Q!Init, Q!InitQuotations
  <2>1. QuoteTypes
    BY DEF QuoteTypes, QuoteRequest, Q!Idle
  <2>2. QuoteRequests
    BY DEF QuoteRequests, Q!Idle
  <2>3. Q!WonIsOneProject /\ QuoteThere
    BY DEF Q!WonIsOneProject, QuoteThere
  <2> QED
    BY <2>1, <2>2, <2>3 DEF QuoteInv
<1>2. QuoteInv /\ [VenturesNext]_ventures => QuoteInv'
  <2> SUFFICES ASSUME QuoteInv, [Q!Next]_Q!vars PROVE QuoteInv'
    BY StepsOfEach
  <2>1. ASSUME NEW q \in Quotations, NEW offer \in Offers, Q!Create(q, offer) PROVE QuoteInv'
    <3> DEFINE row == [status |-> "draft", offer |-> offer, won |-> Nil]
    <3>1. quotation[q] = Nil /\ quotation' = [quotation EXCEPT ![q] = row] /\ UNCHANGED <<project, contested, quoting>>
      BY <2>1 DEF Q!Create
    <3>2. row \in Q!Quotation /\ row.status # "won"
      BY DEF Q!Quotation, Q!Statuses
    <3> HIDE DEF row
    <3>3. QuoteTypes'
      BY <3>1, <3>2 DEF QuoteInv, QuoteTypes
    <3>4. QuoteRequests'
      BY <3>1 DEF QuoteInv, QuoteTypes, QuoteRequests, Underway
    <3>5. row # Nil /\ \A p \in Quotations : quotation'[p] = IF p = q THEN row ELSE quotation[p]
      BY <3>1, <3>2 DEF QuoteInv, QuoteTypes, Q!Assumptions
    <3>6. QuoteThere'
      BY <3>1, <3>5 DEF QuoteInv, QuoteTypes, QuoteThere, Q!Project
    <3>7. \A p \in Quotations : Q!WonFrom(p)' = Q!WonFrom(p)
      BY <3>1 DEF Q!WonFrom
    <3>8. Q!WonFrom(q) = {}
      BY <3>1 DEF QuoteInv, QuoteThere, Q!WonFrom
    <3>9. Q!WonIsOneProject'
      BY <3>1, <3>2, <3>5, <3>7, <3>8 DEF QuoteInv, Q!WonIsOneProject
    <3> QED
      BY <3>3, <3>4, <3>6, <3>9 DEF QuoteInv
  <2>2. ASSUME NEW r \in Clerks, NEW q \in Quotations, NEW offer \in Offers, Q!BeginUpdate(r, q, offer)
        PROVE  QuoteInv'
    BY <2>2, QuoteBegins DEF Q!BeginUpdate, Q!Editable, Q!Operations
  <2>3. ASSUME NEW r \in Clerks, NEW q \in Quotations, NEW status \in Q!Statuses \ {"draft", "won"},
               Q!BeginSetStatus(r, q, status)
        PROVE  QuoteInv'
    BY <2>3, QuoteBegins DEF Q!BeginSetStatus, Q!Editable, Q!Operations
  <2>4. ASSUME NEW r \in Clerks, NEW q \in Quotations, NEW code \in Codes, Q!BeginWin(r, q, code)
        PROVE  QuoteInv'
    BY <2>4, QuoteBegins DEF Q!BeginWin, Q!Editable, Q!Operations, Q!Assumptions
  <2>5. ASSUME NEW r \in Clerks, Q!CommitUpdate(r) PROVE QuoteInv'
    <3> DEFINE q == quoting[r].quotation
               row == [quotation[q] EXCEPT !.offer = quoting[r].to]
    <3>1. quoting[r].op = "update" /\ quoting[r].op # Nil /\ Q!Write(r, row) /\ UNCHANGED project
      BY <2>5 DEF Q!CommitUpdate, Q!Assumptions, Q!Operations
    <3>2. q \in Quotations /\ quotation[q] # Nil /\ quoting[r].to \in Offers
      BY <3>1 DEF QuoteInv, QuoteRequests, Underway
    <3>3. row \in Q!Quotation /\ row.status = quotation[q].status
      BY <3>2 DEF QuoteInv, QuoteTypes, Q!Quotation
    <3> QED
      BY <3>1, <3>3, QuoteCommits
  <2>6. ASSUME NEW r \in Clerks, Q!CommitSetStatus(r) PROVE QuoteInv'
    <3> DEFINE q == quoting[r].quotation
               row == [quotation[q] EXCEPT !.status = quoting[r].to]
    <3>1. quoting[r].op = "status" /\ quoting[r].op # Nil /\ Q!Write(r, row) /\ UNCHANGED project
      BY <2>6 DEF Q!CommitSetStatus, Q!Assumptions, Q!Operations
    <3>2. q \in Quotations /\ quotation[q] # Nil /\ quoting[r].to \in Q!Statuses \ {"draft", "won"}
      BY <3>1 DEF QuoteInv, QuoteRequests, Underway
    <3>3. row \in Q!Quotation /\ row.status # "won"
      BY <3>2 DEF QuoteInv, QuoteTypes, Q!Quotation
    <3> QED
      BY <3>1, <3>3, QuoteCommits
  <2>7. CASE UNCHANGED Q!vars
    BY <2>7 DEF Q!vars, Q!rows, QuoteInv, QuoteTypes, QuoteRequests, Underway, QuoteThere,
                Q!WonIsOneProject, Q!WonFrom
  <2> QED
    BY <2>1, <2>2, <2>3, <2>4, <2>5, <2>6, <2>7, QuoteWins DEF Q!Next
<1>3. QuoteInv => WonIsOneProject
  BY DEF QuoteInv, WonIsOneProject
<1> QED
  BY <1>1, <1>2, <1>3, PTL DEF VenturesSpec

===============================================================================
