------------------------------ MODULE StockProofs ------------------------------
(***************************************************************************)
(* Proofs about Stock, for every set of items, warehouses, documents and   *)
(* requests and every quantity and cost.  The arithmetic of the weighted   *)
(* average comes first: what is issued is never worth more than what there *)
(* is.  The invariant then says of a running request that it holds the row *)
(* of every balance it changes, and that what it is about to write there   *)
(* is the committed balance and its own movements.                         *)
(***************************************************************************)
EXTENDS Stock, SumTheorems

Sound(b) == b.qty = 0 => b.value = 0

\* A body that a request may create or post.
Posts(body) == body \in AllBodies /\ WellFormed(body) /\ Valid(body)

HoldsWhatItChanges(r) ==
    \A k \in Keys :
        IF k \in tx[r].held
        THEN /\ BalanceRow(k) \in locks[r]
             /\ tx[r].wrote[k].qty = balance[k].qty + tx[r].net[k].qty
             /\ tx[r].wrote[k].value = balance[k].value + tx[r].net[k].value
             /\ Sound(tx[r].wrote[k])
        ELSE tx[r].net[k] = Empty

\* Where a request is, and what its body and its status are there.
Runs(r) ==
    /\ req[r].op \in {"create", "post", "remove"} => req[r].doc \in Docs
    /\ req[r].op = None => req[r] = Idle
    /\ req[r].op \in {"remove", "decide"} => req[r].step = "commit"
    /\ req[r].op = "decide" => req[r].status \in SiteReqStatus
    /\ req[r].op = "create" => req[r].step \notin {"idle", "document"}
    /\ req[r].op = "post" => req[r].step \notin {"idle", "number"}
    /\ req[r].op \in {"create", "post"} =>
          /\ req[r].step # "document" => Posts(req[r].body)
          /\ req[r].step = "number" => req[r].line = 1 /\ req[r].leg = 1
          /\ req[r].step = "lines" =>
                /\ req[r].line \in 1..Len(req[r].body.lines)
                /\ req[r].leg = 2 => Legs(req[r].body) = 2
          /\ req[r].step = "commit" /\ (req[r].op = "post" \/ req[r].andPost) /\ req[r].body.siteReq =>
                req[r].status \in SiteReqStatus

DocumentsPost == \A d \in Docs : doc[d].status \in {"draft", "posted"} => Posts(doc[d].body)

IInv ==
    /\ TypeOK
    /\ L!LocksExclusive
    /\ \A r \in Requests : HoldsWhatItChanges(r) /\ Runs(r)
    /\ DocumentsPost
    /\ BalanceIsMovements
    /\ NoResidue

-------------------------------------------------------------------------------
(* The weighted average                                                    *)

\* What a movement books is an integer, and its size a natural number.
LEMMA BookedIsInt ==
    ASSUME NEW type, NEW x \in Int
    PROVE  Booked(type, x) \in Int /\ Abs(x) \in Nat
BY DEF Booked, Abs

\* A quotient is a natural number, and bounded by what the dividend is.
LEMMA Quotient ==
    ASSUME NEW x \in Nat, NEW y \in Nat \ {0}
    PROVE  x \div y \in Nat /\ y * (x \div y) <= x
  BY SMT

\* The rounded average cost is a whole number of paisa.
LEMMA RoundIsNat ==
    ASSUME NEW n \in Nat, NEW d \in Nat \ {0}
    PROVE  Round(n, d) \in Nat
<1>1. 2 * n + d \in Nat /\ 2 * d \in Nat \ {0}
  OBVIOUS
<1> QED
  BY <1>1, Quotient DEF Round

\* Less than d times v rounds to v at most.
LEMMA RoundIsBounded ==
    ASSUME NEW n \in Nat, NEW d \in Nat \ {0}, NEW v \in Nat, n <= d * v
    PROVE  Round(n, d) <= v
<1> DEFINE c == (2 * n + d) \div (2 * d)
<1>0. 2 * n + d \in Nat /\ 2 * d \in Nat \ {0}
  OBVIOUS
<1>1. c \in Nat /\ (2 * d) * c <= 2 * n + d
  BY <1>0, Quotient
<1>2. SUFFICES ASSUME c >= v + 1 PROVE FALSE
  BY <1>1 DEF Round
<1> HIDE DEF c
<1>3. d * c >= d * (v + 1)
  BY <1>1, <1>2, SMT
<1>4. d * (v + 1) = d * v + d
  BY SMT
<1>5. (2 * d) * c = 2 * (d * c) /\ d * c \in Nat /\ d * v \in Nat
  BY <1>1, SMT
<1> QED
  BY <1>1, <1>3, <1>4, <1>5

\* An issue takes at most the value there is.
LEMMA IssueIsBounded ==
    ASSUME NEW b \in Balance, NEW q \in Nat \ {0}, q < b.qty
    PROVE  Round(q * b.value, b.qty) \in 0..b.value
<1>1. b.qty \in Nat \ {0} /\ b.value \in Nat
  BY DEF Balance
<1>2. q * b.value \in Nat /\ q * b.value <= b.qty * b.value
  BY <1>1, SMT
<1> QED
  BY <1>1, <1>2, RoundIsNat, RoundIsBounded

\* A move leaves a balance that is sound and not negative.
LEMMA AfterIsSound ==
    ASSUME NEW b \in Balance, NEW body, Posts(body),
           NEW l \in 1..Len(body.lines), NEW leg \in {1, 2}, leg = 2 => Legs(body) = 2,
           ~(body.type = "issue" /\ leg = 2), NEW out \in Nat,
           Enough(b, body.type, body.lines[l], leg)
    PROVE  /\ After(b, body.type, body.lines[l], leg, out) \in Balance
           /\ Sound(After(b, body.type, body.lines[l], leg, out))
<1> DEFINE line == body.lines[l]
<1>1. /\ body.type \in Types /\ line \in Lines /\ line.qty # 0 /\ line.qty \in Int
      /\ line.cost \in Costs \cup {None}
      /\ body.type # "adjustment" => line.qty > 0
      /\ body.type = "opening" => line.cost # None
  <2>1. body.type \in Types /\ body.lines \in Seq(Lines)
    BY DEF Posts, AllBodies
  <2>2. l \in DOMAIN body.lines /\ line \in Lines
    BY <2>1
  <2>3. /\ line.qty # 0
        /\ body.type # "adjustment" => line.qty > 0
        /\ body.type = "opening" => line.cost # None
    BY <2>2 DEF Posts, WellFormed, Valid
  <2>4. line.qty \in Int /\ line.cost \in Costs \cup {None}
    BY <2>2 DEF Lines
  <2> QED
    BY <2>1, <2>2, <2>3, <2>4
<1>2. b.qty \in Nat /\ b.value \in Nat
  BY DEF Balance
<1> HIDE DEF line
<1>3. CASE Inbound(body.type, line, leg)
  <2>1. line.qty \in Nat \ {0}
    BY <1>1, <1>3 DEF Inbound
  <2>2. UnitCost(b, body.type, line, out) \in Costs
    BY <1>1, <1>2, <2>1 DEF UnitCost, Average, Costs
  <2> DEFINE cost == UnitCost(b, body.type, line, out)
  <2> HIDE DEF cost
  <2>3. cost.num \in Nat /\ cost.den \in Nat \ {0}
    BY <2>2 DEF cost, Costs
  <2>4. line.qty * cost.num \in Nat
    BY <2>1, <2>3, SMT
  <2>5. Round(line.qty * cost.num, cost.den) \in Nat
    BY <2>3, <2>4, RoundIsNat
  <2>6. Receipt(b, line.qty, cost) \in Balance /\ Sound(Receipt(b, line.qty, cost))
    BY <1>2, <2>1, <2>5 DEF Receipt, Balance, Sound
  <2> QED
    BY <1>3, <2>6 DEF After, cost, line
<1>4. CASE ~Inbound(body.type, line, leg)
  <2> DEFINE q == Abs(line.qty)
  <2>1. q \in Nat \ {0} /\ q <= b.qty
    BY <1>1, <1>4 DEF Enough, Abs, line
  <2> HIDE DEF q
  <2>2. Issue(b, q) \in Balance /\ Sound(Issue(b, q))
    <3>1. CASE q = b.qty
      BY <1>2, <3>1 DEF Issue, Balance, Sound
    <3>2. CASE q < b.qty
      <4>1. Round(q * b.value, b.qty) \in 0..b.value
        BY <2>1, <3>2, IssueIsBounded
      <4> QED
        BY <1>2, <2>1, <3>2, <4>1 DEF Issue, Balance, Sound
    <3> QED
      BY <1>2, <2>1, <3>1, <3>2
  <2> QED
    BY <1>4, <2>2 DEF After, q, line
<1> QED
  BY <1>3, <1>4

-------------------------------------------------------------------------------
(* Row locks                                                               *)

\* Two balances are two rows, and are locked apart.
LEMMA BalanceRows ==
    ASSUME NEW k \in Keys, NEW l \in Keys, BalanceRow(k) = BalanceRow(l)
    PROVE  k = l
  BY DEF Keys, BalanceRow

\* The row a request locks was nobody else's.
LEMMA LockKeeps ==
    ASSUME TypeOK, L!LocksExclusive, NEW r \in Requests, NEW row \in AllRows, L!Lock(r, row)
    PROVE  /\ L!LocksTypeOK' /\ L!LocksExclusive'
           /\ locks'[r] = locks[r] \cup {row}
           /\ \A q \in Requests \ {r} : locks'[q] = locks[q]
  BY DEF TypeOK, L!LocksTypeOK, L!LocksExclusive, L!Lock, L!Available

\* The end of a transaction gives its locks back and takes none from the others.
LEMMA EndKeeps ==
    ASSUME TypeOK, L!LocksExclusive, NEW r \in Requests, L!EndTransaction(r)
    PROVE  /\ L!LocksTypeOK' /\ L!LocksExclusive'
           /\ \A q \in Requests \ {r} : locks'[q] = locks[q]
  BY DEF TypeOK, L!LocksTypeOK, L!LocksExclusive, L!EndTransaction

-------------------------------------------------------------------------------
(* The requests that take no part in a step                                *)

\* A step that leaves a request its record, its locks and the balances it holds, leaves what
\* it knows true.
LEMMA Bystander ==
    ASSUME NEW q \in Requests, HoldsWhatItChanges(q), Runs(q),
           req'[q] = req[q], tx'[q] = tx[q], locks[q] \subseteq locks'[q],
           \A k \in tx[q].held : balance'[k] = balance[k]
    PROVE  HoldsWhatItChanges(q)' /\ Runs(q)'
<1>1. HoldsWhatItChanges(q)'
  BY DEF HoldsWhatItChanges
<1>2. Runs(q)'
  BY DEF Runs
<1> QED
  BY <1>1, <1>2

\* A step of r that writes nothing to the tables.
LEMMA WorkStep ==
    ASSUME IInv, NEW r \in Requests, UNCHANGED rows,
           req' = [req EXCEPT ![r] = req'[r]], req'[r] \in Request, Runs(r)',
           tx' = [tx EXCEPT ![r] = tx'[r]], tx'[r] \in Transaction, HoldsWhatItChanges(r)',
           L!LocksTypeOK', L!LocksExclusive',
           \A q \in Requests \ {r} : locks'[q] = locks[q]
    PROVE  IInv'
<1>1. TypeOK'
  <2>1. req' \in [Requests -> Request] /\ tx' \in [Requests -> Transaction]
    BY DEF IInv, TypeOK
  <2> QED
    BY <2>1 DEF IInv, TypeOK, rows
<1>2. ASSUME NEW q \in Requests \ {r} PROVE HoldsWhatItChanges(q)' /\ Runs(q)'
  <2>1. req'[q] = req[q] /\ tx'[q] = tx[q]
    BY <1>2 DEF IInv, TypeOK
  <2> QED
    BY <1>2, <2>1, Bystander DEF IInv, rows
<1>3. DocumentsPost' /\ BalanceIsMovements' /\ NoResidue'
  BY DEF IInv, DocumentsPost, BalanceIsMovements, NoResidue, rows
<1> QED
  BY <1>1, <1>2, <1>3 DEF IInv

\* A step of r that writes nothing, in its transaction either.
LEMMA QuietStep ==
    ASSUME IInv, NEW r \in Requests, UNCHANGED <<rows, tx>>,
           req' = [req EXCEPT ![r] = req'[r]], req'[r] \in Request, Runs(r)',
           L!LocksTypeOK', L!LocksExclusive', locks[r] \subseteq locks'[r],
           \A q \in Requests \ {r} : locks'[q] = locks[q]
    PROVE  IInv'
<1>1. tx' = [tx EXCEPT ![r] = tx'[r]] /\ tx'[r] \in Transaction
  BY DEF IInv, TypeOK
<1>2. HoldsWhatItChanges(r)'
  BY DEF IInv, HoldsWhatItChanges, rows
<1> QED
  BY <1>1, <1>2, WorkStep

\* A request that begins locks nothing yet.
LEMMA BeginKeeps ==
    ASSUME IInv, NEW r \in Requests, NEW step, NEW op, NEW d, NEW body, NEW andPost,
           NEW status, NEW was, Begin(r, step, op, d, body, andPost, status, was),
           req'[r] \in Request, Runs(r)'
    PROVE  IInv'
<1>1. L!LocksTypeOK' /\ L!LocksExclusive' /\ \A q \in Requests : locks'[q] = locks[q]
  BY DEF Begin, IInv, TypeOK, L!LocksTypeOK, L!LocksExclusive
<1>2. req' = [req EXCEPT ![r] = req'[r]]
  BY DEF Begin, IInv, TypeOK
<1> QED
  BY <1>1, <1>2, QuietStep DEF Begin

\* The end of a request, with whatever it writes to the tables.
LEMMA EndKeepsIInv ==
    ASSUME IInv, NEW r \in Requests, End(r),
           doc' \in [Docs -> Document], balance' \in [Keys -> Balance],
           moved' \in [Keys -> Change], ledger' \in [Items -> Int],
           issued' \in [Items -> Nat], siteReq' \in SiteReqStatus,
           overtaken' \subseteq Docs \cup {"siteReq"},
           \A q \in Requests \ {r} : \A k \in tx[q].held : balance'[k] = balance[k],
           DocumentsPost', BalanceIsMovements', NoResidue'
    PROVE  IInv'
<1>1. L!LocksTypeOK' /\ L!LocksExclusive' /\ \A q \in Requests \ {r} : locks'[q] = locks[q]
  BY EndKeeps DEF IInv, End
<1>2. Idle \in Request /\ NoTransaction \in Transaction
  BY DEF Idle, Request, Steps, NoTransaction, Transaction, Balance, Change, Empty
<1>3. /\ req' \in [Requests -> Request] /\ tx' \in [Requests -> Transaction]
      /\ req'[r] = Idle /\ tx'[r] = NoTransaction
      /\ \A q \in Requests \ {r} : req'[q] = req[q] /\ tx'[q] = tx[q]
  BY <1>2 DEF End, IInv, TypeOK
<1>4. TypeOK'
  BY <1>1, <1>3 DEF TypeOK
<1>5. HoldsWhatItChanges(r)'
  BY <1>3 DEF HoldsWhatItChanges, NoTransaction
<1>6. Runs(r)'
  BY <1>3, NoneAssumption DEF Runs, Idle, Operations
<1>7. ASSUME NEW q \in Requests \ {r} PROVE HoldsWhatItChanges(q)' /\ Runs(q)'
  BY <1>1, <1>3, <1>7, Bystander DEF IInv
<1> QED
  BY <1>1, <1>4, <1>5, <1>6, <1>7 DEF IInv

-------------------------------------------------------------------------------
(* Every action keeps the invariant                                        *)

\* A request that begins keeps the invariant.
LEMMA BeginsKeep ==
    ASSUME IInv, NEW r \in Requests, Start(r)
    PROVE  IInv'
<1>0. None \notin Operations /\ req \in [Requests -> Request] /\ doc \in [Docs -> Document]
      /\ siteReq \in SiteReqStatus
  BY NoneAssumption DEF IInv, TypeOK
<1>1. ASSUME NEW d \in Docs, NEW body \in Bodies, NEW andPost \in BOOLEAN,
             BeginCreate(r, d, body, andPost)
      PROVE  IInv'
  <2>1. body \in AllBodies /\ Posts(body)
    BY <1>1, BodiesAssumption DEF BeginCreate, Posts
  <2>2. req'[r] = [step |-> "number", op |-> "create", doc |-> d, body |-> body,
                   andPost |-> andPost, line |-> 1, leg |-> 1, status |-> None, was |-> None]
    BY <1>0, <1>1 DEF BeginCreate, Begin
  <2>3. req'[r] \in Request
    BY <2>1, <2>2 DEF Request, Steps, Operations
  <2>4. Runs(r)'
    BY <1>0, <2>1, <2>2 DEF Runs, Operations
  <2> QED
    BY <1>1, <2>3, <2>4, BeginKeeps DEF BeginCreate
<1>2. ASSUME NEW d \in Docs, BeginPost(r, d) PROVE IInv'
  <2>1. req'[r] = [step |-> "document", op |-> "post", doc |-> d, body |-> None,
                   andPost |-> FALSE, line |-> 1, leg |-> 1, status |-> None, was |-> None]
    BY <1>0, <1>2 DEF BeginPost, Begin
  <2>2. req'[r] \in Request
    BY <2>1 DEF Request, Steps, Operations
  <2>3. Runs(r)'
    BY <1>0, <2>1 DEF Runs, Operations
  <2> QED
    BY <1>2, <2>2, <2>3, BeginKeeps DEF BeginPost
<1>3. ASSUME NEW d \in Docs, BeginRemove(r, d) PROVE IInv'
  <2>1. req'[r] = [step |-> "commit", op |-> "remove", doc |-> d, body |-> None,
                   andPost |-> FALSE, line |-> 1, leg |-> 1, status |-> None, was |-> "draft"]
    BY <1>0, <1>3 DEF BeginRemove, Begin
  <2>2. req'[r] \in Request
    BY <2>1 DEF Request, Steps, Operations, SiteReqStatus
  <2>3. Runs(r)'
    BY <1>0, <2>1 DEF Runs, Operations
  <2> QED
    BY <1>3, <2>2, <2>3, BeginKeeps DEF BeginRemove
<1>4. ASSUME NEW to \in DOMAIN From, BeginDecide(r, to) PROVE IInv'
  <2>1. to \in SiteReqStatus
    BY DEF From, SiteReqStatus
  <2>2. req'[r] = [step |-> "commit", op |-> "decide", doc |-> None, body |-> None,
                   andPost |-> FALSE, line |-> 1, leg |-> 1, status |-> to, was |-> siteReq]
    BY <1>0, <1>4 DEF BeginDecide, Begin
  <2>3. req'[r] \in Request
    BY <1>0, <2>1, <2>2 DEF Request, Steps, Operations
  <2>4. Runs(r)'
    BY <1>0, <2>1, <2>2 DEF Runs, Operations
  <2> QED
    BY <1>4, <2>3, <2>4, BeginKeeps DEF BeginDecide
<1> QED
  BY <1>1, <1>2, <1>3, <1>4 DEF Start

\* What a request's row looks like after Advance and Goto.
LEMMA Advanced ==
    ASSUME TypeOK, NEW r \in Requests, NEW step \in Steps, NEW body \in AllBodies \cup {None},
           NEW line \in Nat, NEW leg \in {1, 2}, NEW status \in SiteReqStatus \cup {None},
           Advance(r, step, body, line, leg, status)
    PROVE  /\ req'[r] = [step |-> step, op |-> req[r].op, doc |-> req[r].doc, body |-> body,
                         andPost |-> req[r].andPost, line |-> line, leg |-> leg,
                         status |-> status, was |-> req[r].was]
           /\ req'[r] \in Request
           /\ req' = [req EXCEPT ![r] = req'[r]]
<1>1. req[r] \in Request
  BY DEF TypeOK
<1>2. req'[r] = [step |-> step, op |-> req[r].op, doc |-> req[r].doc, body |-> body,
                 andPost |-> req[r].andPost, line |-> line, leg |-> leg,
                 status |-> status, was |-> req[r].was]
  BY DEF TypeOK, Advance
<1>3. req'[r] \in Request
  BY <1>1, <1>2 DEF Request
<1> QED
  BY <1>2, <1>3 DEF TypeOK, Advance

\* A request that goes on to its next step changes nothing else of its record.
LEMMA Gone ==
    ASSUME TypeOK, NEW r \in Requests, NEW step \in Steps, Goto(r, step)
    PROVE  /\ req'[r].step = step /\ req'[r].op = req[r].op /\ req'[r].doc = req[r].doc
           /\ req'[r].body = req[r].body /\ req'[r].andPost = req[r].andPost
           /\ req'[r].line = req[r].line /\ req'[r].leg = req[r].leg
           /\ req'[r].status = req[r].status
           /\ req'[r] \in Request
           /\ req' = [req EXCEPT ![r] = req'[r]]
  BY DEF TypeOK, Goto, Request

\* The operation of a request that is at one of these steps.
LEMMA WhoIsAt ==
    ASSUME IInv, NEW r \in Requests
    PROVE  /\ req[r] \in Request
           /\ req[r].step = "number" => req[r].op = "create"
           /\ req[r].step = "document" => req[r].op = "post"
           /\ req[r].step \in {"lines", "journal", "requisition"} => req[r].op \in {"create", "post"}
  BY NoneAssumption DEF IInv, TypeOK, Request, Runs, Operations, Idle

\* A document that can be posted has a first line.
LEMMA FirstLine ==
    ASSUME NEW body, Posts(body)
    PROVE  1 \in 1..Len(body.lines)
<1>1. body.lines \in Seq(Lines) /\ body.lines # <<>>
  BY DEF Posts, AllBodies, WellFormed
<1> QED
  BY <1>1

\* TakeNumber keeps the invariant.
LEMMA TakeNumberKeeps ==
    ASSUME IInv, NEW r \in Requests, TakeNumber(r)
    PROVE  IInv'
<1>1. req[r] \in Request /\ req[r].op = "create" /\ Posts(req[r].body)
  BY WhoIsAt DEF TakeNumber, IInv, Runs
<1>2. Sequence(req[r].body.type, req[r].body.year) \in AllRows
  BY <1>1 DEF AllRows, Sequence, Posts, AllBodies
<1>3. /\ L!LocksTypeOK' /\ L!LocksExclusive' /\ locks[r] \subseteq locks'[r]
      /\ \A q \in Requests \ {r} : locks'[q] = locks[q]
  BY <1>2, LockKeeps DEF IInv, TakeNumber
<1> DEFINE step == IF req[r].andPost THEN "lines" ELSE "commit"
<1>4. step \in Steps /\ Goto(r, step)
  BY DEF TakeNumber, Steps
<1>5. req' = [req EXCEPT ![r] = req'[r]] /\ req'[r] \in Request
  BY <1>4, Gone DEF IInv
<1>6. Runs(r)'
  <2>1. /\ req'[r].step = step /\ req'[r].op = "create" /\ req'[r].doc = req[r].doc
        /\ req'[r].body = req[r].body /\ req'[r].andPost = req[r].andPost
        /\ req'[r].line = req[r].line /\ req'[r].leg = req[r].leg
    BY <1>1, <1>4, Gone DEF IInv
  <2>2. req[r].doc \in Docs /\ req[r].line = 1 /\ req[r].leg = 1 /\ req[r].andPost \in BOOLEAN
    BY <1>1 DEF IInv, Runs, TakeNumber, Request
  <2>3. 1 \in 1..Len(req[r].body.lines)
    BY <1>1, FirstLine
  <2> QED
    BY <1>1, <2>1, <2>2, <2>3, NoneAssumption DEF Runs, Operations
<1> QED
  BY <1>3, <1>5, <1>6, QuietStep DEF TakeNumber

\* LockDocument keeps the invariant.
LEMMA LockDocumentKeeps ==
    ASSUME IInv, NEW r \in Requests, LockDocument(r)
    PROVE  IInv'
<1> DEFINE d == req[r].doc
<1>1. req[r] \in Request /\ req[r].op = "post" /\ d \in Docs
  BY WhoIsAt DEF LockDocument, IInv, Runs
<1>2. Posts(doc[d].body) /\ doc[d].body \in AllBodies
  BY <1>1 DEF LockDocument, IInv, DocumentsPost, Posts
<1>3. /\ L!LocksTypeOK' /\ L!LocksExclusive' /\ locks[r] \subseteq locks'[r]
      /\ \A q \in Requests \ {r} : locks'[q] = locks[q]
  <2>1. DocRow(d) \in AllRows
    BY <1>1 DEF AllRows
  <2> QED
    BY <2>1, LockKeeps DEF IInv, LockDocument
<1>4. /\ req'[r] = [step |-> "lines", op |-> req[r].op, doc |-> req[r].doc, body |-> doc[d].body,
                    andPost |-> req[r].andPost, line |-> 1, leg |-> 1, status |-> None,
                    was |-> req[r].was]
      /\ req'[r] \in Request /\ req' = [req EXCEPT ![r] = req'[r]]
  BY <1>2, Advanced DEF IInv, LockDocument, Steps
<1>5. Runs(r)'
  <2>1. 1 \in 1..Len(doc[d].body.lines)
    BY <1>2, FirstLine
  <2> HIDE DEF d
  <2> QED
    BY <1>1, <1>2, <1>4, <2>1, NoneAssumption DEF Runs, Operations, d
<1> QED
  BY <1>3, <1>4, <1>5, QuietStep DEF LockDocument

\* TakeJournalNumber keeps the invariant.
LEMMA TakeJournalNumberKeeps ==
    ASSUME IInv, NEW r \in Requests, TakeJournalNumber(r)
    PROVE  IInv'
<1>1. req[r] \in Request /\ req[r].op \in {"create", "post"} /\ Posts(req[r].body)
  BY WhoIsAt DEF TakeJournalNumber, IInv, Runs
<1>2. /\ L!LocksTypeOK' /\ L!LocksExclusive' /\ locks[r] \subseteq locks'[r]
      /\ \A q \in Requests \ {r} : locks'[q] = locks[q]
  <2>1. Journal(req[r].body.year) \in AllRows
    BY <1>1 DEF AllRows, Journal, Sequence, Posts, AllBodies
  <2> QED
    BY <2>1, LockKeeps DEF IInv, TakeJournalNumber
<1> DEFINE step == IF req[r].body.siteReq THEN "requisition" ELSE "commit"
<1>3. step \in Steps /\ Goto(r, step)
  BY DEF TakeJournalNumber, Steps
<1>4. /\ req'[r].step = step /\ req'[r].op = req[r].op /\ req'[r].doc = req[r].doc
      /\ req'[r].body = req[r].body /\ req'[r].andPost = req[r].andPost
      /\ req' = [req EXCEPT ![r] = req'[r]] /\ req'[r] \in Request
  BY <1>3, Gone DEF IInv
<1>5. Runs(r)'
  <2>1. req[r].doc \in Docs
    BY <1>1 DEF IInv, Runs
  <2> QED
    BY <1>1, <1>4, <2>1, NoneAssumption DEF Runs, Operations
<1> QED
  BY <1>2, <1>4, <1>5, QuietStep DEF TakeJournalNumber

\* ReadSiteReq keeps the invariant.
LEMMA ReadSiteReqKeeps ==
    ASSUME IInv, NEW r \in Requests, ReadSiteReq(r)
    PROVE  IInv'
<1> DEFINE status == IF Full(tx[r].gave) THEN "fulfilled" ELSE "partially_fulfilled"
<1>1. req[r] \in Request /\ req[r].op \in {"create", "post"} /\ Posts(req[r].body)
  BY WhoIsAt DEF ReadSiteReq, IInv, Runs
<1>2. req[r].doc \in Docs /\ status \in SiteReqStatus /\ req[r].body \in AllBodies
  BY <1>1 DEF IInv, Runs, SiteReqStatus, Posts
<1>3. Advance(r, "commit", req[r].body, 1, 1, status)
  BY DEF ReadSiteReq
<1> HIDE DEF status
<1>4. /\ req'[r] = [step |-> "commit", op |-> req[r].op, doc |-> req[r].doc, body |-> req[r].body,
                    andPost |-> req[r].andPost, line |-> 1, leg |-> 1, status |-> status,
                    was |-> req[r].was]
      /\ req'[r] \in Request /\ req' = [req EXCEPT ![r] = req'[r]]
  BY <1>2, <1>3, Advanced DEF IInv, Steps
<1>5. Runs(r)'
  BY <1>1, <1>2, <1>4, NoneAssumption DEF Runs, Operations
<1>6. L!LocksTypeOK' /\ L!LocksExclusive' /\ \A q \in Requests : locks'[q] = locks[q]
  BY DEF ReadSiteReq, IInv, TypeOK, L!LocksTypeOK, L!LocksExclusive
<1> QED
  BY <1>4, <1>5, <1>6, QuietStep DEF ReadSiteReq

\* Going on to the next leg, line or step leaves the request where it may be.
LEMMA NextMoveKeeps ==
    ASSUME IInv, NEW r \in Requests, req[r].step = "lines", NEW books \in BOOLEAN,
           NextMove(r, books)
    PROVE  /\ req' = [req EXCEPT ![r] = req'[r]] /\ req'[r] \in Request
           /\ Runs(r)'
<1> DEFINE body == req[r].body
           line == req[r].line
<1>1. /\ req[r] \in Request /\ req[r].op \in {"create", "post"} /\ Posts(body)
      /\ req[r].doc \in Docs /\ line \in 1..Len(body.lines) /\ req[r].leg \in {1, 2}
  BY WhoIsAt DEF IInv, Runs, Request
<1>2. /\ body \in AllBodies /\ Len(body.lines) \in Nat /\ line \in Nat /\ line + 1 \in Nat
      /\ Legs(body) \in {1, 2}
  BY <1>1 DEF Posts, AllBodies, Legs
<1> DEFINE Row(step, l, leg) ==
             [step |-> step, op |-> req[r].op, doc |-> req[r].doc, body |-> body,
              andPost |-> req[r].andPost, line |-> l, leg |-> leg, status |-> None,
              was |-> req[r].was]
           Done(step, l, leg) ==
             /\ req'[r] = Row(step, l, leg)
             /\ req'[r] \in Request /\ req' = [req EXCEPT ![r] = req'[r]]
<1>3. CASE req[r].leg < Legs(body)
  <2>1. Done("lines", line, 2)
    BY <1>2, <1>3, Advanced DEF IInv, NextMove, Steps
  <2>2. Legs(body) = 2
    BY <1>1, <1>2, <1>3
  <2> QED
    BY <1>1, <2>1, <2>2, NoneAssumption DEF Runs, Operations
<1>4. CASE ~(req[r].leg < Legs(body)) /\ line < Len(body.lines)
  <2>1. Done("lines", line + 1, 1)
    BY <1>2, <1>4, Advanced DEF IInv, NextMove, Steps
  <2>2. line + 1 \in 1..Len(body.lines)
    BY <1>1, <1>2, <1>4
  <2> QED
    BY <1>1, <2>1, <2>2, NoneAssumption DEF Runs, Operations
<1>5. CASE ~(req[r].leg < Legs(body)) /\ ~(line < Len(body.lines))
  <2> DEFINE step == AfterLines(r, books)
  <2>1. /\ step \in {"journal", "requisition", "commit"} /\ step \in Steps
        /\ step = "commit" => ~body.siteReq
    BY DEF AfterLines, Steps
  <2>2. Advance(r, step, body, 1, 1, None)
    BY <1>5 DEF NextMove
  <2> HIDE DEF step
  <2>3. Done(step, 1, 1)
    BY <1>2, <2>1, <2>2, Advanced DEF IInv
  <2> QED
    BY <1>1, <2>1, <2>3, NoneAssumption DEF Runs, Operations
<1> QED
  BY <1>3, <1>4, <1>5

\* A leg moves its balance and appends its movement together: the invariant is kept, with
\* neither a negative balance nor a value without a quantity.
LEMMA MoveKeeps ==
    ASSUME IInv, NEW r \in Requests, Move(r)
    PROVE  IInv'
<1> DEFINE body == req[r].body
           line == body.lines[req[r].line]
           leg  == req[r].leg
           k    == Key(body, line, leg)
           b    == Current(r, k)
           a    == After(b, body.type, line, leg, tx[r].out)
           change == [qty |-> a.qty - b.qty, value |-> a.value - b.value]
           books  == tx[r].books \/ (body.type # "transfer" /\ change.value # 0)
           net(m) == IF m = k THEN Sum(tx[r].net[k], change) ELSE tx[r].net[m]
<1>1. /\ req[r] \in Request /\ req[r].op \in {"create", "post"} /\ Posts(body)
      /\ req[r].line \in 1..Len(body.lines) /\ leg \in {1, 2} /\ (leg = 2 => Legs(body) = 2)
  BY WhoIsAt DEF IInv, Runs, Request, Move
<1>2. line.item \in Items /\ k \in Keys
  <2>1. body.lines \in Seq(Lines) /\ body.from \in Warehouses /\ body.to \in Warehouses
    BY <1>1 DEF Posts, AllBodies
  <2>2. line \in Lines
    BY <1>1, <2>1
  <2> QED
    BY <2>1, <2>2 DEF Lines, Key, Keys
<1>3. tx[r] \in Transaction /\ HoldsWhatItChanges(r)
  BY DEF IInv, TypeOK
<1>4. b \in Balance /\ Sound(b)
  BY <1>2, <1>3 DEF Current, Transaction, HoldsWhatItChanges, IInv, TypeOK, NoResidue, Sound
<1>5. a \in Balance /\ Sound(a)
  BY <1>1, <1>3, <1>4, AfterIsSound DEF Move, Transaction
<1>6. /\ a.qty \in Nat /\ a.value \in Nat /\ b.qty \in Nat /\ b.value \in Nat
      /\ change.qty = a.qty - b.qty /\ change.value = a.value - b.value
      /\ change.qty \in Int /\ change.value \in Int
  <2> HIDE DEF a, b
  <2> QED
    BY <1>4, <1>5 DEF Balance
<1> USE DEF LockBalance
<1>7. L!Lock(r, BalanceRow(k)) /\ UNCHANGED rows /\ NextMove(r, books) /\ req[r].step = "lines"
  BY DEF Move
<1>8. /\ tx'[r].held = tx[r].held \cup {k}
      /\ tx'[r].wrote = [tx[r].wrote EXCEPT ![k] = a]
      /\ tx'[r].net = [m \in Keys |-> net(m)]
      /\ tx'[r] \in Transaction
      /\ tx' = [tx EXCEPT ![r] = tx'[r]]
  <2>2. /\ tx[r].held \in SUBSET Keys /\ tx[r].wrote \in [Keys -> Balance]
        /\ tx[r].net \in [Keys -> Change] /\ tx[r].gl \in [Items -> Int]
        /\ tx[r].books \in BOOLEAN /\ tx[r].gave \in [Items -> Nat]
    BY <1>3 DEF Transaction
  <2>3. Booked(body.type, change.value) \in Int /\ Abs(change.value) \in Nat /\ books \in BOOLEAN
    <3>1. books \in BOOLEAN
      BY <2>2
    <3> HIDE DEF change, books, body
    <3> QED
      BY <1>6, <3>1, BookedIsInt
  <2>4. tx[r].net[k] \in Change /\ Sum(tx[r].net[k], change) \in Change
    <3> HIDE DEF k, change
    <3>1. tx[r].net[k] \in Change
      BY <1>2, <2>2
    <3> QED
      BY <1>6, <3>1 DEF Change, Sum
  <2> DEFINE row ==
          [held  |-> tx[r].held \cup {k},
           wrote |-> [tx[r].wrote EXCEPT ![k] = a],
           net   |-> [tx[r].net EXCEPT ![k] = Sum(tx[r].net[k], change)],
           gl    |-> [tx[r].gl EXCEPT ![line.item] = tx[r].gl[line.item] + Booked(body.type, change.value)],
           books |-> books,
           out   |-> IF body.type = "transfer" /\ leg = 1 THEN Abs(change.value) ELSE 0,
           gave  |-> tx[r].gave]
  <2>1. tx' = [tx EXCEPT ![r] = row]
    BY DEF Move
  <2>5. tx'[r] = row
    <3> HIDE DEF row
    <3> QED
      BY <2>1 DEF IInv, TypeOK
  <2> HIDE DEF line, k, a, b, change, books, body, leg
  <2>6. tx'[r].net = [m \in Keys |-> net(m)]
    BY <1>2, <2>2, <2>5
  <2>7. [tx[r].wrote EXCEPT ![k] = a] \in [Keys -> Balance]
    BY <1>2, <1>5, <2>2
  <2>8. [tx[r].gl EXCEPT ![line.item] = tx[r].gl[line.item] + Booked(body.type, change.value)]
           \in [Items -> Int]
    BY <1>2, <2>2, <2>3
  <2>9. [m \in Keys |-> net(m)] \in [Keys -> Change]
    BY <2>2, <2>4
  <2>10. tx'[r] \in Transaction
    BY <1>2, <2>2, <2>3, <2>5, <2>6, <2>7, <2>8, <2>9 DEF Transaction
  <2> QED
    BY <2>1, <2>5, <2>6, <2>10 DEF IInv, TypeOK
<1>9. /\ L!LocksTypeOK' /\ L!LocksExclusive' /\ locks'[r] = locks[r] \cup {BalanceRow(k)}
      /\ \A q \in Requests \ {r} : locks'[q] = locks[q]
  <2>1. BalanceRow(k) \in AllRows
    BY <1>2 DEF AllRows
  <2> QED
    BY <1>7, <2>1, LockKeeps DEF IInv
<1>10. HoldsWhatItChanges(r)'
  <2> SUFFICES ASSUME NEW m \in Keys
               PROVE  IF m \in tx'[r].held
                      THEN /\ BalanceRow(m) \in locks'[r]
                           /\ tx'[r].wrote[m].qty = balance[m].qty + tx'[r].net[m].qty
                           /\ tx'[r].wrote[m].value = balance[m].value + tx'[r].net[m].value
                           /\ Sound(tx'[r].wrote[m])
                      ELSE tx'[r].net[m] = Empty
    BY <1>7 DEF HoldsWhatItChanges, rows
  <2>1. /\ tx[r].wrote \in [Keys -> Balance] /\ tx[r].net \in [Keys -> Change]
        /\ balance[m] \in Balance
    BY <1>3 DEF Transaction, IInv, TypeOK
  <2> HIDE DEF a, b, k, change
  <2>2. CASE m = k
    <3>1. /\ b.qty = balance[k].qty + tx[r].net[k].qty
          /\ b.value = balance[k].value + tx[r].net[k].value
      <4>1. CASE k \in tx[r].held
        BY <1>2, <1>3, <4>1 DEF HoldsWhatItChanges, Current, b
      <4>2. CASE k \notin tx[r].held
        <5>1. b = balance[k] /\ tx[r].net[k] = Empty
          BY <1>2, <1>3, <4>2 DEF HoldsWhatItChanges, Current, b
        <5> QED
          BY <1>6, <5>1 DEF Empty
      <4> QED
        BY <4>1, <4>2
    <3>2. /\ tx'[r].wrote[m] = a /\ m \in tx'[r].held /\ BalanceRow(m) \in locks'[r]
          /\ tx'[r].net[m].qty = tx[r].net[k].qty + change.qty
          /\ tx'[r].net[m].value = tx[r].net[k].value + change.value
      BY <1>8, <1>9, <2>1, <2>2 DEF Sum
    <3>3. /\ tx[r].net[k].qty \in Int /\ tx[r].net[k].value \in Int
          /\ balance[k].qty \in Nat /\ balance[k].value \in Nat
      BY <2>1, <2>2 DEF Change, Balance
    <3> QED
      BY <1>5, <1>6, <2>2, <3>1, <3>2, <3>3
  <2>3. CASE m # k
    <3>1. /\ tx'[r].wrote[m] = tx[r].wrote[m] /\ tx'[r].net[m] = tx[r].net[m]
          /\ (m \in tx'[r].held <=> m \in tx[r].held)
      BY <1>8, <2>1, <2>3
    <3> QED
      BY <1>3, <1>9, <3>1 DEF HoldsWhatItChanges
  <2> QED
    BY <2>2, <2>3
<1>11. books \in BOOLEAN
  BY <1>3 DEF Transaction
<1>12. req' = [req EXCEPT ![r] = req'[r]] /\ req'[r] \in Request /\ Runs(r)'
  BY <1>7, <1>11, NextMoveKeeps
<1> QED
  BY <1>7, <1>8, <1>9, <1>10, <1>12, WorkStep

\* The receiving leg of an issue books at the site and moves no balance.
LEMMA IssueToSiteKeeps ==
    ASSUME IInv, NEW r \in Requests, IssueToSite(r)
    PROVE  IInv'
<1> DEFINE body == req[r].body
           line == body.lines[req[r].line]
           i    == line.item
<1>1. /\ req[r] \in Request /\ Posts(body) /\ req[r].line \in 1..Len(body.lines)
      /\ tx[r] \in Transaction /\ HoldsWhatItChanges(r)
  BY WhoIsAt DEF IInv, TypeOK, Runs, IssueToSite
<1>2. i \in Items /\ line.qty \in Nat
  <2>0. body.lines \in Seq(Lines) /\ body.type = "issue"
    BY <1>1 DEF Posts, AllBodies, IssueToSite
  <2>1. req[r].line \in DOMAIN body.lines
    BY <1>1, <2>0
  <2>2. line \in Lines /\ line.qty > 0
    BY <1>1, <2>0, <2>1 DEF Posts, Valid
  <2> QED
    BY <2>2 DEF Lines
<1>3. /\ req[r].step = "lines" /\ NextMove(r, tx[r].books) /\ UNCHANGED rows
      /\ tx[r].books \in BOOLEAN
  BY <1>1 DEF IssueToSite, Transaction
<1>4. req' = [req EXCEPT ![r] = req'[r]] /\ req'[r] \in Request /\ Runs(r)'
  BY <1>3, NextMoveKeeps
<1>5. CASE Wanted[i] = {}
  <2>1. UNCHANGED <<tx, locks>>
    BY <1>5 DEF IssueToSite
  <2>2. L!LocksTypeOK' /\ L!LocksExclusive' /\ \A q \in Requests : locks'[q] = locks[q]
    BY <2>1 DEF IInv, TypeOK, L!LocksTypeOK, L!LocksExclusive
  <2> QED
    BY <1>3, <1>4, <2>1, <2>2, QuietStep
<1>6. CASE Wanted[i] # {}
  <2>1. L!Lock(r, LineRow(i)) /\ LineRow(i) \in AllRows
    BY <1>2, <1>6 DEF IssueToSite, AllRows
  <2>2. /\ L!LocksTypeOK' /\ L!LocksExclusive' /\ locks[r] \subseteq locks'[r]
        /\ \A q \in Requests \ {r} : locks'[q] = locks[q]
    BY <2>1, LockKeeps DEF IInv
  <2> DEFINE gave == [tx[r].gave EXCEPT ![i] = tx[r].gave[i] + line.qty]
  <2>3. tx' = [tx EXCEPT ![r] = [held |-> tx[r].held, wrote |-> tx[r].wrote, net |-> tx[r].net,
                                 gl |-> tx[r].gl, books |-> tx[r].books, out |-> tx[r].out,
                                 gave |-> gave]]
    BY <1>6 DEF IssueToSite
  <2>4. gave \in [Items -> Nat]
    <3> HIDE DEF i, line
    <3> QED
      BY <1>1, <1>2 DEF Transaction
  <2> HIDE DEF gave
  <2>5. /\ tx'[r] = [held |-> tx[r].held, wrote |-> tx[r].wrote, net |-> tx[r].net,
                     gl |-> tx[r].gl, books |-> tx[r].books, out |-> tx[r].out, gave |-> gave]
        /\ tx' = [tx EXCEPT ![r] = tx'[r]]
    BY <2>3 DEF IInv, TypeOK
  <2>6. tx'[r] \in Transaction
    BY <1>1, <2>4, <2>5 DEF Transaction
  <2>7. HoldsWhatItChanges(r)'
    BY <1>1, <1>3, <2>2, <2>5 DEF HoldsWhatItChanges, rows
  <2> QED
    BY <1>3, <1>4, <2>2, <2>5, <2>6, <2>7, WorkStep
<1> QED
  BY <1>5, <1>6

\* Rollback keeps the invariant.
LEMMA RollbackKeeps ==
    ASSUME IInv, NEW r \in Requests, Rollback(r)
    PROVE  IInv'
<1>1. UNCHANGED rows /\ End(r)
  BY DEF Rollback
<1>2. DocumentsPost' /\ BalanceIsMovements' /\ NoResidue'
  BY <1>1 DEF IInv, DocumentsPost, BalanceIsMovements, NoResidue, rows
<1> QED
  BY <1>1, <1>2, EndKeepsIInv DEF IInv, TypeOK, rows

\* CommitDraft keeps the invariant.
LEMMA CommitDraftKeeps ==
    ASSUME IInv, NEW r \in Requests, CommitDraft(r)
    PROVE  IInv'
<1>1. /\ End(r) /\ req[r].doc \in Docs /\ Posts(req[r].body)
      /\ doc' = [doc EXCEPT ![req[r].doc] = [status |-> "draft", body |-> req[r].body]]
      /\ UNCHANGED <<balance, moved, ledger, issued, siteReq, overtaken>>
  BY DEF CommitDraft, At, IInv, Runs
<1>2. [status |-> "draft", body |-> req[r].body] \in Document
  BY <1>1 DEF Document, Posts
<1>3. doc' \in [Docs -> Document]
  BY <1>1, <1>2 DEF IInv, TypeOK
<1>4. DocumentsPost'
  BY <1>1 DEF IInv, TypeOK, DocumentsPost
<1>5. BalanceIsMovements' /\ NoResidue'
  BY <1>1 DEF IInv, BalanceIsMovements, NoResidue
<1> QED
  BY <1>1, <1>3, <1>4, <1>5, EndKeepsIInv DEF IInv, TypeOK

\* CommitRemove keeps the invariant.
LEMMA CommitRemoveKeeps ==
    ASSUME IInv, NEW r \in Requests, CommitRemove(r)
    PROVE  IInv'
<1> DEFINE d == req[r].doc
<1>1. /\ End(r) /\ d \in Docs
      /\ doc' = [doc EXCEPT ![d].status = "deleted"]
      /\ UNCHANGED <<balance, moved, ledger, issued, siteReq>>
      /\ overtaken' = overtaken \/ overtaken' = overtaken \cup {d}
  BY DEF CommitRemove, At, IInv, Runs
<1> HIDE DEF d
<1>2. /\ doc' \in [Docs -> Document]
      /\ doc'[d].status = "deleted"
      /\ \A e \in Docs \ {d} : doc'[e] = doc[e]
  BY <1>1 DEF IInv, TypeOK, Document
<1>3. DocumentsPost'
  BY <1>1, <1>2 DEF IInv, DocumentsPost
<1>4. BalanceIsMovements' /\ NoResidue'
  BY <1>1 DEF IInv, BalanceIsMovements, NoResidue
<1> QED
  BY <1>1, <1>2, <1>3, <1>4, EndKeepsIInv DEF IInv, TypeOK

\* CommitDecide keeps the invariant.
LEMMA CommitDecideKeeps ==
    ASSUME IInv, NEW r \in Requests, CommitDecide(r)
    PROVE  IInv'
<1>1. /\ End(r) /\ siteReq' \in SiteReqStatus
      /\ UNCHANGED <<doc, balance, moved, ledger, issued>>
      /\ overtaken' = overtaken \/ overtaken' = overtaken \cup {"siteReq"}
  BY DEF CommitDecide, At, IInv, Runs
<1>2. DocumentsPost' /\ BalanceIsMovements' /\ NoResidue'
  BY <1>1 DEF IInv, DocumentsPost, BalanceIsMovements, NoResidue
<1> QED
  BY <1>1, <1>2, EndKeepsIInv DEF IInv, TypeOK

\* The one step that writes balances: r holds the row of each of them, so no
\* other request has read one that it is about to change itself.
LEMMA CommitPostedKeeps ==
    ASSUME IInv, NEW r \in Requests, CommitPosted(r)
    PROVE  IInv'
<1> DEFINE d == req[r].doc
<1>1. /\ End(r) /\ d \in Docs /\ Posts(req[r].body)
      /\ doc' = [doc EXCEPT ![d] = [status |-> "posted", body |-> req[r].body]]
      /\ balance' = [k \in Keys |-> IF k \in tx[r].held THEN tx[r].wrote[k] ELSE balance[k]]
      /\ moved' = [k \in Keys |-> Sum(moved[k], tx[r].net[k])]
      /\ ledger' = [i \in Items |-> ledger[i] + tx[r].gl[i]]
      /\ issued' = [i \in Items |-> issued[i] + tx[r].gave[i]]
  BY DEF CommitPosted, At, Posting, IInv, Runs
<1> HIDE DEF d
<1>2. tx[r] \in Transaction /\ HoldsWhatItChanges(r)
  BY DEF IInv, TypeOK
<1>3. /\ tx[r].wrote \in [Keys -> Balance] /\ tx[r].net \in [Keys -> Change]
      /\ tx[r].gl \in [Items -> Int] /\ tx[r].gave \in [Items -> Nat]
  BY <1>2 DEF Transaction
<1>4. doc' \in [Docs -> Document] /\ DocumentsPost'
  <2>1. [status |-> "posted", body |-> req[r].body] \in Document
    BY <1>1 DEF Document, Posts
  <2> QED
    BY <1>1, <2>1 DEF IInv, TypeOK, DocumentsPost
<1>5. balance' \in [Keys -> Balance] /\ ledger' \in [Items -> Int] /\ issued' \in [Items -> Nat]
  BY <1>1, <1>3 DEF IInv, TypeOK
<1>6. moved' \in [Keys -> Change]
  BY <1>1, <1>3 DEF IInv, TypeOK, Sum, Change
<1>7. siteReq' \in SiteReqStatus /\ overtaken' \subseteq Docs \cup {"siteReq"}
  BY DEF CommitPosted, At, Posting, IInv, TypeOK, Runs
<1>8. BalanceIsMovements'
  <2> SUFFICES ASSUME NEW k \in Keys PROVE moved'[k] = balance'[k]
    BY DEF BalanceIsMovements
  <2>1. moved[k] = balance[k] /\ balance[k] \in Balance /\ tx[r].wrote[k] \in Balance
    BY <1>3 DEF IInv, TypeOK, BalanceIsMovements
  <2>2. moved'[k] = Sum(balance[k], tx[r].net[k])
    BY <1>1, <2>1
  <2>3. CASE k \in tx[r].held
    BY <1>1, <1>2, <2>1, <2>2, <2>3 DEF HoldsWhatItChanges, Sum, Balance
  <2>4. CASE k \notin tx[r].held
    BY <1>1, <1>2, <2>1, <2>2, <2>4 DEF HoldsWhatItChanges, Sum, Balance, Empty
  <2> QED
    BY <2>3, <2>4
<1>9. NoResidue'
  BY <1>1, <1>2 DEF IInv, NoResidue, HoldsWhatItChanges, Sound
<1>10. ASSUME NEW q \in Requests \ {r}, NEW k \in tx[q].held PROVE balance'[k] = balance[k]
  <2>1. k \in Keys /\ BalanceRow(k) \in locks[q]
    BY <1>10 DEF IInv, TypeOK, Transaction, HoldsWhatItChanges
  <2>2. k \notin tx[r].held
    BY <1>2, <1>10, <2>1 DEF IInv, L!LocksExclusive, HoldsWhatItChanges
  <2> QED
    BY <1>1, <2>1, <2>2
<1> QED
  BY <1>1, <1>4, <1>5, <1>6, <1>7, <1>8, <1>9, <1>10, EndKeepsIInv

-------------------------------------------------------------------------------
(* The theorems                                                            *)

\* The empty tables satisfy the invariant.
THEOREM InitEstablishes == Init => IInv
<1> SUFFICES ASSUME Init PROVE IInv
  OBVIOUS
<1>1. Idle \in Request /\ NoTransaction \in Transaction /\ NoDocument \in Document
  BY DEF Idle, Request, Steps, NoTransaction, Transaction, Balance, Change, Empty,
         NoDocument, Document
<1>2. Empty \in Balance /\ Empty \in Change
  BY DEF Empty, Balance, Change
<1>3. TypeOK
  BY <1>1, <1>2 DEF Init, TypeOK, SiteReqStatus, L!NoLocks, L!LocksTypeOK
<1>4. L!LocksExclusive
  BY DEF Init, L!NoLocks, L!LocksExclusive
<1>5. ASSUME NEW r \in Requests PROVE HoldsWhatItChanges(r) /\ Runs(r)
  <2>1. HoldsWhatItChanges(r)
    BY DEF Init, HoldsWhatItChanges, NoTransaction
  <2>2. Runs(r)
    BY NoneAssumption DEF Init, Runs, Idle, Operations
  <2> QED
    BY <2>1, <2>2
<1>6. DocumentsPost /\ BalanceIsMovements /\ NoResidue
  BY DEF Init, DocumentsPost, NoDocument, BalanceIsMovements, NoResidue, Empty
<1> QED
  BY <1>3, <1>4, <1>5, <1>6 DEF IInv

\* Every step preserves it, one action at a time.
THEOREM NextPreserves == IInv /\ [Next]_vars => IInv'
<1> SUFFICES ASSUME IInv, [Next]_vars PROVE IInv'
  OBVIOUS
<1>1. ASSUME NEW r \in Requests, Start(r) PROVE IInv'
  BY <1>1, BeginsKeep
<1>2. ASSUME NEW r \in Requests, Proceed(r) PROVE IInv'
  BY <1>2, TakeNumberKeeps, LockDocumentKeeps, MoveKeeps, IssueToSiteKeeps,
     TakeJournalNumberKeeps, ReadSiteReqKeeps, CommitDraftKeeps, CommitPostedKeeps,
     CommitRemoveKeeps, CommitDecideKeeps, RollbackKeeps
     DEF Proceed, Refuse
<1>3. ASSUME NEW r \in Requests, Fail(r) PROVE IInv'
  BY <1>3, RollbackKeeps DEF Fail
<1>4. CASE UNCHANGED vars
  <2>1. TypeOK' /\ L!LocksExclusive'
    BY <1>4 DEF vars, rows, IInv, TypeOK, L!LocksTypeOK, L!LocksExclusive
  <2>2. ASSUME NEW r \in Requests PROVE HoldsWhatItChanges(r)' /\ Runs(r)'
    BY <1>4, Bystander DEF vars, rows, IInv
  <2>3. DocumentsPost' /\ BalanceIsMovements' /\ NoResidue'
    BY <1>4 DEF vars, rows, IInv, DocumentsPost, BalanceIsMovements, NoResidue
  <2> QED
    BY <2>1, <2>2, <2>3 DEF IInv
<1> QED
  BY <1>1, <1>2, <1>3, <1>4 DEF Next

\* In every reachable state each balance is what its movements add up to, a request holds
\* the balances it changes, and what is posted could be posted: the inductive invariant.
THEOREM Invariance == Spec => []IInv
  BY InitEstablishes, NextPreserves, PTL DEF Spec

\* No balance is ever negative, in quantity or in value.
THEOREM TypeCorrect == Spec => []TypeOK
<1>1. IInv => TypeOK
  BY DEF IInv
<1> QED
  BY <1>1, Invariance, PTL

\* A balance is the sum of its movements, whatever postings interleave.
THEOREM NothingLost == Spec => []BalanceIsMovements
<1>1. IInv => BalanceIsMovements
  BY DEF IInv
<1> QED
  BY <1>1, Invariance, PTL

\* Stock that is gone leaves no value behind.
THEOREM NothingLeft == Spec => []NoResidue
<1>1. IInv => NoResidue
  BY DEF IInv
<1> QED
  BY <1>1, Invariance, PTL

-------------------------------------------------------------------------------
(* What a step of one request does                                         *)

\* A step of r leaves the other requests where they are.
OthersWait(r) ==
    \A q \in Requests \ {r} : req'[q] = req[q] /\ tx'[q] = tx[q] /\ locks'[q] = locks[q]

\* A request's row when it begins.
LEMMA StartDoes ==
    ASSUME IInv, NEW r \in Requests, Start(r)
    PROVE  /\ OthersWait(r) /\ UNCHANGED <<rows, tx, locks>> /\ req[r] = Idle
           /\ \/ /\ req'[r].op = "create" /\ req'[r].step = "number" /\ req'[r].doc \in Docs
                 /\ doc[req'[r].doc] = NoDocument /\ \A q \in Requests : req[q].doc # req'[r].doc
              \/ /\ req'[r].op = "post" /\ req'[r].step = "document" /\ req'[r].doc \in Docs
                 /\ doc[req'[r].doc].status \in {"draft", "posted"}
              \/ /\ req'[r].op = "remove" /\ req'[r].step = "commit" /\ req'[r].doc \in Docs
                 /\ doc[req'[r].doc].status = "draft" /\ req'[r].was = "draft"
              \/ /\ req'[r].op = "decide" /\ req'[r].step = "commit" /\ req'[r].doc = None
                 /\ req'[r].was # "fulfilled" /\ req'[r].status # "fulfilled"
<1>0. req \in [Requests -> Request]
  BY DEF IInv, TypeOK
<1>1. ASSUME NEW d \in Docs, NEW body \in Bodies, NEW andPost \in BOOLEAN,
             BeginCreate(r, d, body, andPost)
      PROVE  /\ OthersWait(r) /\ UNCHANGED <<rows, tx, locks>> /\ req[r] = Idle
             /\ req'[r].op = "create" /\ req'[r].step = "number" /\ req'[r].doc \in Docs
             /\ doc[req'[r].doc] = NoDocument /\ \A q \in Requests : req[q].doc # req'[r].doc
  BY <1>0, <1>1 DEF BeginCreate, Begin, OthersWait
<1>2. ASSUME NEW d \in Docs, BeginPost(r, d)
      PROVE  /\ OthersWait(r) /\ UNCHANGED <<rows, tx, locks>> /\ req[r] = Idle
             /\ req'[r].op = "post" /\ req'[r].step = "document" /\ req'[r].doc \in Docs
             /\ doc[req'[r].doc].status \in {"draft", "posted"}
  BY <1>0, <1>2 DEF BeginPost, Begin, OthersWait
<1>3. ASSUME NEW d \in Docs, BeginRemove(r, d)
      PROVE  /\ OthersWait(r) /\ UNCHANGED <<rows, tx, locks>> /\ req[r] = Idle
             /\ req'[r].op = "remove" /\ req'[r].step = "commit" /\ req'[r].doc \in Docs
             /\ doc[req'[r].doc].status = "draft" /\ req'[r].was = "draft"
  BY <1>0, <1>3 DEF BeginRemove, Begin, OthersWait
<1>4. ASSUME NEW to \in DOMAIN From, BeginDecide(r, to)
      PROVE  /\ OthersWait(r) /\ UNCHANGED <<rows, tx, locks>> /\ req[r] = Idle
             /\ req'[r].op = "decide" /\ req'[r].step = "commit" /\ req'[r].doc = None
             /\ req'[r].was # "fulfilled" /\ req'[r].status # "fulfilled"
  <2>1. to # "fulfilled" /\ siteReq # "fulfilled"
    BY <1>4 DEF BeginDecide, From
  <2> QED
    BY <1>0, <1>4, <2>1 DEF BeginDecide, Begin, OthersWait
<1> QED
  BY <1>1, <1>2, <1>3, <1>4 DEF Start

\* A request's row, its transaction and its locks when it ends.
LEMMA EndDoes ==
    ASSUME IInv, NEW r \in Requests, End(r)
    PROVE  OthersWait(r) /\ req'[r] = Idle /\ tx'[r] = NoTransaction
<1>1. \A q \in Requests \ {r} : locks'[q] = locks[q]
  BY EndKeeps DEF IInv, End
<1> QED
  BY <1>1 DEF End, OthersWait, IInv, TypeOK

\* The three ways on from a line.
LEMMA NextMoveDoes ==
    ASSUME IInv, NEW r \in Requests, req[r].step = "lines", NEW books \in BOOLEAN,
           NextMove(r, books)
    PROVE  /\ \A q \in Requests \ {r} : req'[q] = req[q]
           /\ req'[r].op = req[r].op /\ req'[r].doc = req[r].doc /\ req'[r].body = req[r].body
           /\ req'[r].andPost = req[r].andPost /\ req'[r].was = req[r].was
           /\ \/ /\ req[r].leg < Legs(req[r].body)
                 /\ req'[r].step = "lines" /\ req'[r].line = req[r].line /\ req'[r].leg = 2
              \/ /\ req[r].leg >= Legs(req[r].body) /\ req[r].line < Len(req[r].body.lines)
                 /\ req'[r].step = "lines" /\ req'[r].line = req[r].line + 1 /\ req'[r].leg = 1
              \/ /\ req[r].leg >= Legs(req[r].body) /\ req[r].line = Len(req[r].body.lines)
                 /\ req'[r].step = AfterLines(r, books)
<1> DEFINE body == req[r].body
           line == req[r].line
<1>1. /\ req[r] \in Request /\ Posts(body) /\ line \in 1..Len(body.lines) /\ req[r].leg \in {1, 2}
  BY WhoIsAt DEF IInv, Runs, Request
<1>2. /\ body \in AllBodies /\ Len(body.lines) \in Nat /\ line \in Nat /\ line + 1 \in Nat
      /\ Legs(body) \in {1, 2}
  BY <1>1 DEF Posts, AllBodies, Legs
<1> DEFINE Row(step, l, leg) ==
             [step |-> step, op |-> req[r].op, doc |-> req[r].doc, body |-> body,
              andPost |-> req[r].andPost, line |-> l, leg |-> leg, status |-> None,
              was |-> req[r].was]
           Done(step, l, leg) == req'[r] = Row(step, l, leg) /\ req' = [req EXCEPT ![r] = req'[r]]
<1>3. CASE req[r].leg < Legs(body)
  <2>1. Done("lines", line, 2)
    BY <1>2, <1>3, Advanced DEF IInv, NextMove, Steps
  <2> QED
    BY <1>3, <2>1 DEF IInv, TypeOK
<1>4. CASE ~(req[r].leg < Legs(body)) /\ line < Len(body.lines)
  <2>1. Done("lines", line + 1, 1)
    BY <1>2, <1>4, Advanced DEF IInv, NextMove, Steps
  <2> QED
    BY <1>1, <1>2, <1>4, <2>1 DEF IInv, TypeOK
<1>5. CASE ~(req[r].leg < Legs(body)) /\ ~(line < Len(body.lines))
  <2> DEFINE step == AfterLines(r, books)
  <2>1. step \in Steps /\ Advance(r, step, body, 1, 1, None)
    BY <1>5 DEF NextMove, AfterLines, Steps
  <2>2. TypeOK /\ body \in AllBodies \cup {None} /\ None \in SiteReqStatus \cup {None}
    BY <1>2 DEF IInv
  <2> HIDE DEF step, body
  <2>3. Done(step, 1, 1)
    BY <2>1, <2>2, Advanced DEF body
  <2> QED
    BY <1>1, <1>2, <1>5, <2>3 DEF IInv, TypeOK, step, body
<1> QED
  BY <1>3, <1>4, <1>5

\* A request at a line posts a well-formed body, and holds what its document is.
LEMMA LineOf ==
    ASSUME IInv, NEW r \in Requests, req[r].step = "lines"
    PROVE  /\ req[r].op \in {"create", "post"} /\ Posts(req[r].body)
           /\ req[r].line \in 1..Len(req[r].body.lines) /\ req[r].leg \in {1, 2}
           /\ req[r].leg = 2 => Legs(req[r].body) = 2
           /\ req[r].body.lines[req[r].line] \in Lines
           /\ req[r].body.from \in Warehouses /\ req[r].body.to \in Warehouses
<1>1. /\ req[r].op \in {"create", "post"} /\ Posts(req[r].body)
      /\ req[r].line \in 1..Len(req[r].body.lines) /\ req[r].leg \in {1, 2}
      /\ req[r].leg = 2 => Legs(req[r].body) = 2
  BY WhoIsAt DEF IInv, Runs, Request
<1>2. /\ req[r].body.lines \in Seq(Lines) /\ req[r].body.from \in Warehouses
      /\ req[r].body.to \in Warehouses
  BY <1>1 DEF Posts, AllBodies
<1> QED
  BY <1>1, <1>2

\* What a move writes to the transaction.
MoveDone(r, k, b, a) ==
    LET body == req[r].body  line == body.lines[req[r].line]  change == a.value - b.value IN
    /\ k = Key(body, line, req[r].leg)
    /\ Enough(b, body.type, line, req[r].leg)
    /\ a = After(b, body.type, line, req[r].leg, tx[r].out)
    /\ tx'[r].net = [tx[r].net EXCEPT ![k] =
                        [qty |-> tx[r].net[k].qty + (a.qty - b.qty), value |-> tx[r].net[k].value + change]]
    /\ tx'[r].gl = [tx[r].gl EXCEPT ![line.item] = tx[r].gl[line.item] + Booked(body.type, change)]
    /\ tx'[r].out = IF body.type = "transfer" /\ req[r].leg = 1 THEN Abs(change) ELSE 0

\* What a leg writes: one balance, its movement, and the value it moves.
LEMMA MoveDoes ==
    ASSUME IInv, NEW r \in Requests, Move(r)
    PROVE  /\ OthersWait(r) /\ UNCHANGED rows
           /\ req[r].step = "lines" /\ ~(req[r].body.type = "issue" /\ req[r].leg = 2)
           /\ tx'[r].gave = tx[r].gave /\ tx'[r].books \in BOOLEAN
           /\ NextMove(r, tx'[r].books)
           /\ \E k \in Keys, b \in Balance, a \in Balance : Sound(b) /\ MoveDone(r, k, b, a)
<1> DEFINE body == req[r].body
           line == body.lines[req[r].line]
           leg  == req[r].leg
           k    == Key(body, line, leg)
           b    == Current(r, k)
           a    == After(b, body.type, line, leg, tx[r].out)
           change == [qty |-> a.qty - b.qty, value |-> a.value - b.value]
           books  == tx[r].books \/ (body.type # "transfer" /\ change.value # 0)
<1>1. /\ Posts(body) /\ req[r].line \in 1..Len(body.lines) /\ leg \in {1, 2} /\ (leg = 2 => Legs(body) = 2)
      /\ line \in Lines /\ body.from \in Warehouses /\ body.to \in Warehouses
  BY LineOf DEF Move
<1>2. line.item \in Items /\ k \in Keys
  BY <1>1 DEF Lines, Key, Keys
<1>3. tx[r] \in Transaction /\ HoldsWhatItChanges(r)
  BY DEF IInv, TypeOK
<1>4. b \in Balance /\ Sound(b)
  BY <1>2, <1>3 DEF Current, Transaction, HoldsWhatItChanges, IInv, TypeOK, NoResidue, Sound
<1>5. a \in Balance
  BY <1>1, <1>3, <1>4, AfterIsSound DEF Move, Transaction
<1>6. OthersWait(r) /\ UNCHANGED rows /\ NextMove(r, books) /\ req[r].step = "lines"
  <2>1. BalanceRow(k) \in AllRows
    BY <1>2 DEF AllRows
  <2>2. \A q \in Requests \ {r} : locks'[q] = locks[q]
    BY <2>1, LockKeeps DEF IInv, Move, LockBalance
  <2>3. \A q \in Requests \ {r} : tx'[q] = tx[q]
    BY DEF Move, IInv, TypeOK
  <2>4. NextMove(r, books) /\ req[r].step = "lines" /\ UNCHANGED rows
    BY DEF Move
  <2>5. books \in BOOLEAN
    BY <1>3 DEF Transaction
  <2> HIDE DEF books
  <2> QED
    BY <2>2, <2>3, <2>4, <2>5, NextMoveDoes DEF OthersWait
<1> DEFINE row ==
        [held  |-> tx[r].held \cup {k},
         wrote |-> [tx[r].wrote EXCEPT ![k] = a],
         net   |-> [tx[r].net EXCEPT ![k] = Sum(tx[r].net[k], change)],
         gl    |-> [tx[r].gl EXCEPT ![line.item] = tx[r].gl[line.item] + Booked(body.type, change.value)],
         books |-> books,
         out   |-> IF body.type = "transfer" /\ leg = 1 THEN Abs(change.value) ELSE 0,
         gave  |-> tx[r].gave]
<1>7. tx' = [tx EXCEPT ![r] = row]
  BY DEF Move
<1>8. tx'[r] = row
  <2> HIDE DEF row
  <2> QED
    BY <1>7 DEF IInv, TypeOK
<1>9. tx'[r].books = books /\ books \in BOOLEAN /\ tx'[r].gave = tx[r].gave
  <2>1. books \in BOOLEAN
    BY <1>3 DEF Transaction
  <2> HIDE DEF k, a, b, change, books, body, line, leg
  <2>2. tx'[r].gave = tx[r].gave
    BY <1>8
  <2>3. tx'[r].books = books
    BY <1>8
  <2> QED
    BY <2>1, <2>2, <2>3
<1>10. MoveDone(r, k, b, a)
  <2>1. Enough(b, body.type, line, leg)
    BY DEF Move
  <2>2. /\ tx'[r].net = [tx[r].net EXCEPT ![k] = Sum(tx[r].net[k], change)]
        /\ tx'[r].gl = [tx[r].gl EXCEPT ![line.item] = tx[r].gl[line.item] + Booked(body.type, change.value)]
        /\ tx'[r].out = IF body.type = "transfer" /\ leg = 1 THEN Abs(change.value) ELSE 0
    <3> HIDE DEF change, k, a, body, line, leg
    <3> QED
      BY <1>8
  <2>3. Sum(tx[r].net[k], change) = [qty   |-> tx[r].net[k].qty + (a.qty - b.qty),
                                     value |-> tx[r].net[k].value + (a.value - b.value)]
    <3> HIDE DEF k, a, b
    <3> QED
      BY DEF Sum
  <2>4. change.value = a.value - b.value
    <3> HIDE DEF a, b
    <3> QED
      OBVIOUS
  <2> DEFINE v == a.value - b.value
  <2>5. k = Key(body, line, leg) /\ a = After(b, body.type, line, leg, tx[r].out)
    OBVIOUS
  <2> HIDE DEF change, k, a, b
  <2> QED
    BY <2>1, <2>2, <2>3, <2>4, <2>5 DEF MoveDone
<1>11. ~(req[r].body.type = "issue" /\ req[r].leg = 2)
  BY DEF Move
<1> HIDE DEF books, row, a, b, k
<1> QED
  BY <1>2, <1>4, <1>5, <1>6, <1>9, <1>10, <1>11

\* What issuing a line to the requisition writes.
LEMMA IssueDoes ==
    ASSUME IInv, NEW r \in Requests, IssueToSite(r)
    PROVE  /\ OthersWait(r) /\ UNCHANGED rows
           /\ req[r].step = "lines" /\ req[r].body.type = "issue" /\ req[r].leg = 2
           /\ req[r].body.siteReq
           /\ tx'[r].net = tx[r].net /\ tx'[r].gl = tx[r].gl /\ tx'[r].books = tx[r].books
           /\ NextMove(r, tx[r].books) /\ tx[r].books \in BOOLEAN
<1> DEFINE line == req[r].body.lines[req[r].line]
<1>1. /\ req[r].step = "lines" /\ req[r].body.type = "issue" /\ req[r].leg = 2
      /\ NextMove(r, tx[r].books) /\ tx[r].books \in BOOLEAN /\ UNCHANGED rows
  BY DEF IssueToSite, IInv, TypeOK, Transaction
<1>2. req[r].body.siteReq /\ line.item \in Items
  BY <1>1, LineOf DEF Legs, Lines, Posts, AllBodies
<1>3. /\ tx'[r].net = tx[r].net /\ tx'[r].gl = tx[r].gl /\ tx'[r].books = tx[r].books
      /\ \A q \in Requests \ {r} : tx'[q] = tx[q] /\ locks'[q] = locks[q]
  <2>1. CASE Wanted[line.item] = {}
    BY <2>1 DEF IssueToSite
  <2>2. CASE Wanted[line.item] # {}
    <3>1. LineRow(line.item) \in AllRows
      BY <1>2 DEF AllRows
    <3>2. \A q \in Requests \ {r} : locks'[q] = locks[q]
      BY <2>2, <3>1, LockKeeps DEF IInv, IssueToSite
    <3>3. tx' = [tx EXCEPT ![r] = [held |-> tx[r].held, wrote |-> tx[r].wrote, net |-> tx[r].net,
                                   gl |-> tx[r].gl, books |-> tx[r].books, out |-> tx[r].out,
                                   gave |-> tx'[r].gave]]
      BY <2>2 DEF IssueToSite, IInv, TypeOK
    <3> QED
      BY <3>2, <3>3 DEF IInv, TypeOK
  <2> QED
    BY <2>1, <2>2
<1> QED
  BY <1>1, <1>2, <1>3, NextMoveDoes DEF OthersWait

\* What Goto and Advance do, the lock they are taken with included.
LEMMA OthersOfGoto ==
    ASSUME IInv, NEW r \in Requests, NEW step, Goto(r, step), NEW row \in AllRows, L!Lock(r, row), tx' = tx
    PROVE  OthersWait(r) /\ locks'[r] = locks[r] \cup {row} /\ L!LocksExclusive'
<1>1. \A q \in Requests \ {r} : req'[q] = req[q]
  BY DEF Goto, IInv, TypeOK
<1> QED
  BY <1>1, LockKeeps DEF OthersWait, IInv

\* What taking a number does.
LEMMA TakeNumberDoes ==
    ASSUME IInv, NEW r \in Requests, TakeNumber(r)
    PROVE  /\ OthersWait(r) /\ UNCHANGED <<rows, tx>> /\ req[r].op = "create" /\ req[r].step = "number"
           /\ req[r].line = 1 /\ req[r].leg = 1 /\ Posts(req[r].body)
           /\ req'[r].op = req[r].op /\ req'[r].doc = req[r].doc /\ req'[r].body = req[r].body
           /\ req'[r].andPost = req[r].andPost /\ req'[r].line = req[r].line /\ req'[r].leg = req[r].leg
           /\ req'[r].step = IF req[r].andPost THEN "lines" ELSE "commit"
<1>1. req[r] \in Request /\ req[r].op = "create" /\ Posts(req[r].body) /\ req[r].line = 1 /\ req[r].leg = 1
  BY WhoIsAt DEF TakeNumber, IInv, Runs
<1>2. Sequence(req[r].body.type, req[r].body.year) \in AllRows
  BY <1>1 DEF AllRows, Sequence, Posts, AllBodies
<1> DEFINE step == IF req[r].andPost THEN "lines" ELSE "commit"
<1>3. step \in Steps /\ Goto(r, step)
  BY DEF TakeNumber, Steps
<1> HIDE DEF step
<1>4. OthersWait(r)
  BY <1>2, <1>3, OthersOfGoto DEF TakeNumber
<1> QED
  BY <1>1, <1>3, <1>4, Gone DEF IInv, TakeNumber, step

\* What locking the document does.
LEMMA LockDocumentDoes ==
    ASSUME IInv, NEW r \in Requests, LockDocument(r)
    PROVE  /\ OthersWait(r) /\ UNCHANGED <<rows, tx>>
           /\ req[r].op = "post" /\ req[r].step = "document" /\ req[r].doc \in Docs
           /\ doc[req[r].doc].status = "draft" /\ Posts(doc[req[r].doc].body)
           /\ locks'[r] = locks[r] \cup {DocRow(req[r].doc)}
           /\ req'[r].step = "lines" /\ req'[r].op = "post" /\ req'[r].doc = req[r].doc
           /\ req'[r].body = doc[req[r].doc].body /\ req'[r].line = 1 /\ req'[r].leg = 1
<1> DEFINE d == req[r].doc
<1>1. req[r] \in Request /\ req[r].op = "post" /\ d \in Docs
  BY WhoIsAt DEF LockDocument, IInv, Runs
<1>2. Posts(doc[d].body) /\ doc[d].body \in AllBodies
  BY <1>1 DEF LockDocument, IInv, DocumentsPost, Posts
<1>3. DocRow(d) \in AllRows
  BY <1>1 DEF AllRows
<1>4. locks'[r] = locks[r] \cup {DocRow(d)} /\ \A q \in Requests \ {r} : locks'[q] = locks[q]
  BY <1>3, LockKeeps DEF IInv, LockDocument
<1>5. /\ req'[r] = [step |-> "lines", op |-> req[r].op, doc |-> req[r].doc, body |-> doc[d].body,
                    andPost |-> req[r].andPost, line |-> 1, leg |-> 1, status |-> None,
                    was |-> req[r].was]
      /\ req' = [req EXCEPT ![r] = req'[r]]
  BY <1>2, Advanced DEF IInv, LockDocument, Steps
<1>6. OthersWait(r)
  BY <1>4, <1>5 DEF OthersWait, IInv, TypeOK, LockDocument
<1> QED
  BY <1>1, <1>2, <1>4, <1>5, <1>6 DEF LockDocument

\* What taking the journal's number does.
LEMMA TakeJournalNumberDoes ==
    ASSUME IInv, NEW r \in Requests, TakeJournalNumber(r)
    PROVE  /\ OthersWait(r) /\ UNCHANGED <<rows, tx>> /\ req[r].op \in {"create", "post"}
           /\ req[r].step = "journal"
           /\ Posts(req[r].body)
           /\ Journal(req[r].body.year) \in locks'[r] /\ locks[r] \subseteq locks'[r]
           /\ req'[r].op = req[r].op /\ req'[r].doc = req[r].doc /\ req'[r].body = req[r].body
           /\ req'[r].andPost = req[r].andPost
           /\ req'[r].step = IF req[r].body.siteReq THEN "requisition" ELSE "commit"
<1> DEFINE step == IF req[r].body.siteReq THEN "requisition" ELSE "commit"
<1>1. step \in Steps /\ Goto(r, step)
  BY DEF TakeJournalNumber, Steps
<1>5. Posts(req[r].body)
  BY WhoIsAt DEF TakeJournalNumber, IInv, Runs
<1>2. Journal(req[r].body.year) \in AllRows
  BY <1>5 DEF AllRows, Journal, Sequence, Posts, AllBodies
<1> HIDE DEF step
<1>3. OthersWait(r) /\ locks'[r] = locks[r] \cup {Journal(req[r].body.year)}
  BY <1>1, <1>2, OthersOfGoto DEF TakeJournalNumber
<1>4. req[r].op \in {"create", "post"}
  BY WhoIsAt DEF TakeJournalNumber
<1> QED
  BY <1>1, <1>3, <1>4, <1>5, Gone DEF IInv, TakeJournalNumber, step

\* What reading the requisition does.
LEMMA ReadSiteReqDoes ==
    ASSUME IInv, NEW r \in Requests, ReadSiteReq(r)
    PROVE  /\ OthersWait(r) /\ UNCHANGED <<rows, tx, locks>> /\ req[r].op \in {"create", "post"}
           /\ req[r].step = "requisition"
           /\ req'[r].op = req[r].op /\ req'[r].doc = req[r].doc /\ req'[r].body = req[r].body
           /\ req'[r].andPost = req[r].andPost /\ req'[r].step = "commit"
           /\ req'[r].status = IF Full(tx[r].gave) THEN "fulfilled" ELSE "partially_fulfilled"
<1> DEFINE status == IF Full(tx[r].gave) THEN "fulfilled" ELSE "partially_fulfilled"
<1>1. /\ Posts(req[r].body) /\ req[r].op \in {"create", "post"}
      /\ req[r].body \in AllBodies /\ status \in SiteReqStatus
  BY WhoIsAt DEF ReadSiteReq, IInv, Runs, Posts, SiteReqStatus
<1>2. Advance(r, "commit", req[r].body, 1, 1, status)
  BY DEF ReadSiteReq
<1> HIDE DEF status
<1>3. /\ req'[r] = [step |-> "commit", op |-> req[r].op, doc |-> req[r].doc, body |-> req[r].body,
                    andPost |-> req[r].andPost, line |-> 1, leg |-> 1, status |-> status,
                    was |-> req[r].was]
      /\ req' = [req EXCEPT ![r] = req'[r]]
  BY <1>1, <1>2, Advanced DEF IInv, Steps
<1>4. OthersWait(r)
  BY <1>3 DEF OthersWait, IInv, TypeOK, ReadSiteReq
<1> QED
  BY <1>1, <1>3, <1>4 DEF ReadSiteReq, status

-------------------------------------------------------------------------------
(* The site requisition                                                    *)

\* A posting that books an entry holds the journal's sequence row of its year
\* from before it reads the requisition to its commit, so what it read is still
\* so, unless a posting that this row does not keep apart came between and
\* overtaken tells so.
TellsSite(r) ==
    /\ req[r].step \in {"lines", "journal", "requisition"} => Posting(r)
    /\ \A i \in Items : tx[r].gave[i] # 0 =>
          Posting(r) /\ req[r].step \notin {"number", "document"} /\ req[r].body.siteReq
    /\ req[r].op = "decide" => req[r].was # "fulfilled" /\ req[r].status # "fulfilled"
    /\ Posting(r) =>
          /\ req[r].step \in {"requisition", "commit"} /\ tx[r].books =>
                Journal(req[r].body.year) \in locks[r]
          /\ req[r].step = "commit" /\ req[r].body.siteReq =>
                /\ req[r].status = "fulfilled" => Full(tx[r].gave)
                /\ Full(tx[r].gave) /\ "siteReq" \notin overtaken => req[r].status = "fulfilled"

SiteInv == SiteReqTellsIssued /\ \A r \in Requests : TellsSite(r)

\* A request that has not reached its document's lines issues nothing.
LEMMA NothingGiven ==
    ASSUME IInv, SiteInv, NEW r \in Requests,
           req[r] = Idle \/ req[r].step \in {"number", "document"} \/ ~Posting(r)
           \/ ~req[r].body.siteReq
    PROVE  \A i \in Items : tx[r].gave[i] = 0
<1> SUFFICES ASSUME NEW i \in Items, tx[r].gave[i] # 0 PROVE FALSE
  OBVIOUS
<1>1. Posting(r) /\ req[r].step \notin {"number", "document"} /\ req[r].body.siteReq
  BY DEF SiteInv, TellsSite
<1>2. req[r] # Idle
  BY <1>1, NoneAssumption DEF Posting, Idle, Operations
<1> QED
  BY <1>1, <1>2

\* A step that writes no table keeps what the others rely on.
LEMMA SiteWorkStep ==
    ASSUME SiteInv, NEW r \in Requests, OthersWait(r), UNCHANGED rows, TellsSite(r)'
    PROVE  SiteInv'
<1>1. SiteReqTellsIssued'
  BY DEF SiteInv, SiteReqTellsIssued, rows
<1>2. ASSUME NEW q \in Requests \ {r} PROVE TellsSite(q)'
  BY <1>2 DEF SiteInv, TellsSite, Posting, OthersWait, Full, rows
<1> QED
  BY <1>1, <1>2 DEF SiteInv

\* A request that begins has read nothing of the requisition, or a status that
\* may still be decided.
LEMMA SiteBegins ==
    ASSUME IInv, SiteInv, NEW r \in Requests, Start(r)
    PROVE  SiteInv'
<1>1. TellsSite(r)'
  BY StartDoes, NothingGiven DEF TellsSite, Posting
<1> QED
  BY <1>1, StartDoes, SiteWorkStep

\* The way on from a line: one that skips the journal books nothing.
LEMMA SiteNextMove ==
    ASSUME IInv, NEW r \in Requests, OthersWait(r), UNCHANGED rows, SiteInv,
           req[r].step = "lines", tx'[r].books \in BOOLEAN, NextMove(r, tx'[r].books),
           \A i \in Items : tx'[r].gave[i] # 0 => req[r].body.siteReq
    PROVE  SiteInv'
<1>1. /\ req'[r].op = req[r].op /\ req'[r].body = req[r].body /\ req'[r].andPost = req[r].andPost
      /\ req'[r].step = "lines" \/ req'[r].step = AfterLines(r, tx'[r].books)
  BY NextMoveDoes
<1>2. Posting(r)'
  BY <1>1 DEF Posting, SiteInv, TellsSite
<1>3. req'[r].step \notin {"number", "document"}
  BY <1>1 DEF AfterLines
<1>4. /\ req'[r].step \in {"requisition", "commit"} => ~tx'[r].books
      /\ req'[r].step = "commit" => ~req[r].body.siteReq
  BY <1>1 DEF AfterLines
<1>5. req'[r].op # "decide"
  BY <1>2 DEF Posting
<1>6. TellsSite(r)'
  BY <1>1, <1>2, <1>3, <1>4, <1>5 DEF TellsSite
<1> QED
  BY <1>6, SiteWorkStep

\* The requisition's status is what its lines say, when r commits.
LEMMA SiteCommits ==
    ASSUME IInv, SiteInv, NEW r \in Requests, CommitPosted(r)
    PROVE  SiteInv'
<1>1. /\ OthersWait(r) /\ req'[r] = Idle /\ tx'[r] = NoTransaction /\ Posting(r) /\ req[r].step = "commit"
      /\ issued' = [i \in Items |-> issued[i] + tx[r].gave[i]]
      /\ overtaken \subseteq overtaken'
  BY EndDoes DEF CommitPosted, At, Posting
<1>2. TellsSite(r)'
  BY <1>1, NoneAssumption DEF TellsSite, Idle, NoTransaction, Posting, Operations
<1>3. \A i \in Items : issued[i] \in Nat /\ tx[r].gave[i] \in Nat /\ Wanted[i] \subseteq Nat
                       /\ issued'[i] = issued[i] + tx[r].gave[i]
  BY <1>1, WantedAssumption DEF IInv, TypeOK, Transaction
<1>4. Full(tx[r].gave) <=> \A i \in Items : \A wanted \in Wanted[i] : issued'[i] >= wanted
  BY <1>3 DEF Full
<1>5. \/ req[r].body.siteReq /\ siteReq' = req[r].status
         /\ (tx[r].books => Journal(req[r].body.year) \in locks[r])
      \/ ~req[r].body.siteReq /\ siteReq' = siteReq /\ overtaken' = overtaken /\ issued' = issued
  <2>1. CASE req[r].body.siteReq
    BY <1>1, <2>1 DEF CommitPosted, SiteInv, TellsSite
  <2>2. CASE ~req[r].body.siteReq
    <3>1. \A i \in Items : tx[r].gave[i] = 0
      BY <2>2, NothingGiven
    <3>2. issued \in [Items -> Nat] /\ issued' = [i \in Items |-> issued[i]]
      BY <1>1, <1>3, <3>1 DEF IInv, TypeOK
    <3> QED
      BY <2>2, <3>2 DEF CommitPosted
  <2> QED
    BY <2>1, <2>2
<1>6. SiteReqTellsIssued'
  <2>1. CASE req[r].body.siteReq
    BY <1>1, <1>4, <1>5, <2>1 DEF SiteReqTellsIssued, SiteInv, TellsSite
  <2>2. CASE ~req[r].body.siteReq
    BY <1>5, <2>2 DEF SiteReqTellsIssued, SiteInv
  <2> QED
    BY <2>1, <2>2
<1>7. ASSUME NEW q \in Requests \ {r} PROVE TellsSite(q)'
  <2>1. /\ req'[q] = req[q] /\ tx'[q] = tx[q] /\ locks'[q] = locks[q] /\ TellsSite(q)
        /\ \A i \in Items : tx[q].gave[i] \in Nat
    BY <1>1 DEF OthersWait, SiteInv, IInv, TypeOK, Transaction
  <2>2. Posting(q)' <=> Posting(q)
    BY <2>1 DEF Posting
  <2>3. Full(tx[q].gave) => Full(tx[q].gave)'
    BY <1>3, <2>1 DEF Full
  <2>4. ASSUME Posting(q), req[q].step = "commit", req[q].body.siteReq,
               Full(tx[q].gave)', "siteReq" \notin overtaken'
        PROVE  req[q].status = "fulfilled"
    <3>1. "siteReq" \notin overtaken
      BY <1>1, <2>4
    <3>2. issued' # issued => ~ReadsBeside(r, q) /\ (tx[r].books => Journal(req[r].body.year) \in locks[r])
      <4>1. issued' # issued => req[r].body.siteReq
        BY <1>5
      <4>2. req[r].body.siteReq => (tx[r].books => Journal(req[r].body.year) \in locks[r])
        BY <1>5
      <4>3. req[r].body.siteReq => ~ReadsBeside(r, q)
        BY <1>7, <2>4 DEF CommitPosted
      <4> QED
        BY <4>1, <4>2, <4>3
    <3>3. issued' = issued
      <4> SUFFICES ASSUME issued' # issued PROVE FALSE
        OBVIOUS
      <4>1. tx[r].books /\ tx[q].books /\ req[r].body.year = req[q].body.year
        BY <2>4, <3>2 DEF ReadsBeside
      <4>2. Journal(req[q].body.year) \in locks[q] /\ Journal(req[q].body.year) \in locks[r]
        BY <2>1, <2>4, <3>2, <4>1 DEF TellsSite
      <4> QED
        BY <4>2 DEF IInv, L!LocksExclusive
    <3>4. Full(tx[q].gave)
      BY <2>1, <2>4, <3>3 DEF Full
    <3> QED
      BY <2>1, <2>4, <3>1, <3>4 DEF TellsSite
  <2> QED
    BY <2>1, <2>2, <2>3, <2>4 DEF TellsSite
<1> QED
  BY <1>2, <1>6, <1>7 DEF SiteInv

\* A request that ends without issuing: only a decision writes the status.
LEMMA SiteEnds ==
    ASSUME IInv, SiteInv, NEW r \in Requests, End(r), issued' = issued,
           overtaken \subseteq overtaken',
           \/ siteReq' = siteReq
           \/ /\ siteReq' # "fulfilled"
              /\ siteReq = "fulfilled" => "siteReq" \in overtaken'
    PROVE  SiteInv'
<1>1. OthersWait(r) /\ req'[r] = Idle /\ tx'[r] = NoTransaction
  BY EndDoes
<1>2. TellsSite(r)'
  BY <1>1, NoneAssumption DEF TellsSite, Idle, NoTransaction, Posting, Operations
<1>3. SiteReqTellsIssued'
  BY DEF SiteReqTellsIssued, SiteInv
<1>4. ASSUME NEW q \in Requests \ {r} PROVE TellsSite(q)'
  BY <1>1, <1>4 DEF SiteInv, TellsSite, Posting, OthersWait, Full
<1> QED
  BY <1>2, <1>3, <1>4 DEF SiteInv

\* A request that goes on keeps what site requisitions are told.
LEMMA SiteProceeds ==
    ASSUME IInv, SiteInv, NEW r \in Requests, Proceed(r) \/ Fail(r)
    PROVE  SiteInv'
<1>1. CASE TakeNumber(r)
  <2>1. TellsSite(r)'
    BY <1>1, TakeNumberDoes, NothingGiven DEF TellsSite, Posting
  <2> QED
    BY <1>1, <2>1, TakeNumberDoes, SiteWorkStep
<1>2. CASE LockDocument(r)
  <2>1. /\ OthersWait(r) /\ UNCHANGED <<rows, tx>> /\ req[r].step = "document"
        /\ req'[r].op = "post" /\ req'[r].step = "lines"
    BY <1>2, LockDocumentDoes
  <2>2. TellsSite(r)'
    BY <2>1, NothingGiven DEF TellsSite, Posting
  <2> QED
    BY <2>1, <2>2, SiteWorkStep
<1>3. CASE Move(r)
  <2>1. /\ OthersWait(r) /\ UNCHANGED rows /\ req[r].step = "lines"
        /\ tx'[r].gave = tx[r].gave /\ tx'[r].books \in BOOLEAN /\ NextMove(r, tx'[r].books)
    BY <1>3, MoveDoes
  <2>2. \A i \in Items : tx'[r].gave[i] # 0 => req[r].body.siteReq
    BY <2>1 DEF SiteInv, TellsSite
  <2> QED
    BY <2>1, <2>2, SiteNextMove
<1>4. CASE IssueToSite(r)
  <2>1. /\ OthersWait(r) /\ UNCHANGED rows /\ req[r].step = "lines" /\ req[r].body.siteReq
        /\ tx'[r].books \in BOOLEAN /\ NextMove(r, tx'[r].books)
    BY <1>4, IssueDoes
  <2> QED
    BY <2>1, SiteNextMove
<1>5. CASE TakeJournalNumber(r)
  <2>1. Posting(r)
    BY <1>5, TakeJournalNumberDoes DEF SiteInv, TellsSite
  <2>2. TellsSite(r)'
    BY <1>5, <2>1, TakeJournalNumberDoes DEF SiteInv, TellsSite, Posting
  <2> QED
    BY <1>5, <2>2, TakeJournalNumberDoes, SiteWorkStep
<1>6. CASE ReadSiteReq(r)
  <2>1. Posting(r)
    BY <1>6, ReadSiteReqDoes DEF SiteInv, TellsSite
  <2>2. TellsSite(r)'
    BY <1>6, <2>1, ReadSiteReqDoes DEF SiteInv, TellsSite, Posting, Full, rows
  <2> QED
    BY <1>6, <2>2, ReadSiteReqDoes, SiteWorkStep
<1>7. CASE CommitDraft(r)
  BY <1>7, SiteEnds DEF CommitDraft
<1>8. CASE CommitPosted(r)
  BY <1>8, SiteCommits
<1>9. CASE CommitRemove(r)
  <2>1. End(r) /\ UNCHANGED <<issued, siteReq>> /\ overtaken \subseteq overtaken'
    BY <1>9 DEF CommitRemove
  <2> QED
    BY <2>1, SiteEnds
<1>10. CASE CommitDecide(r)
  <2>1. End(r) /\ issued' = issued /\ siteReq' = req[r].status /\ overtaken \subseteq overtaken'
        /\ (siteReq = req[r].was \/ "siteReq" \in overtaken')
    BY <1>10 DEF CommitDecide
  <2>2. req[r].was # "fulfilled" /\ req[r].status # "fulfilled"
    BY <1>10 DEF CommitDecide, At, SiteInv, TellsSite
  <2> QED
    BY <2>1, <2>2, SiteEnds
<1>11. CASE Rollback(r)
  BY <1>11, SiteEnds DEF Rollback, rows
<1> QED
  BY <1>1, <1>2, <1>3, <1>4, <1>5, <1>6, <1>7, <1>8, <1>9, <1>10, <1>11
     DEF Proceed, Refuse, Fail

\* A requisition that nothing was issued for is open.
LEMMA InitSite == Init => SiteInv
<1> SUFFICES ASSUME Init PROVE SiteInv
  OBVIOUS
<1>1. SiteReqTellsIssued
  BY WantedAssumption DEF Init, SiteReqTellsIssued
<1>2. ASSUME NEW r \in Requests PROVE TellsSite(r)
  BY NoneAssumption DEF Init, TellsSite, Idle, NoTransaction, Posting, Operations
<1> QED
  BY <1>1, <1>2 DEF SiteInv

\* Every step keeps what site requisitions are told.
LEMMA NextSite == IInv /\ SiteInv /\ [Next]_vars => SiteInv'
<1> SUFFICES ASSUME IInv, SiteInv, [Next]_vars PROVE SiteInv'
  OBVIOUS
<1>1. ASSUME NEW r \in Requests, Start(r) PROVE SiteInv'
  BY <1>1, SiteBegins
<1>2. ASSUME NEW r \in Requests, Proceed(r) \/ Fail(r) PROVE SiteInv'
  BY <1>2, SiteProceeds
<1>3. CASE UNCHANGED vars
  BY <1>3 DEF vars, rows, SiteInv, SiteReqTellsIssued, TellsSite, Posting, Full
<1> QED
  BY <1>1, <1>2, <1>3 DEF Next

\* The requisition is fulfilled exactly when what is issued of each item covers
\* every line of it, unless two postings read its lines side by side: postIn's
\* journal entry takes the sequence row of its year, which keeps apart the
\* issues that book in one year, and no others.
THEOREM SiteReqTold == Spec => []SiteReqTellsIssued
<1>1. SiteInv => SiteReqTellsIssued
  BY DEF SiteInv
<1>2. Spec => []SiteInv
  BY InitSite, NextSite, Invariance, PTL DEF Spec
<1> QED
  BY <1>1, <1>2, PTL

-------------------------------------------------------------------------------
(* The inventory account                                                   *)

\* What the first move of a transfer's line took out and the second has yet to
\* bring in.
InTransit(r, i) ==
    IF /\ req[r].step = "lines" /\ req[r].leg = 2 /\ req[r].body.type = "transfer"
       /\ req[r].body.lines[req[r].line].item = i
    THEN tx[r].out ELSE 0

NetValue(r, i)  == SumOver([w \in Warehouses |-> tx[r].net[<<i, w>>].value])
ValueOf(i)      == SumOver([w \in Warehouses |-> balance[<<i, w>>].value])

\* What a transaction books is what its movements add to the value of the item.
BooksItsMoves(r) == \A i \in Items : tx[r].gl[i] = NetValue(r, i) + InTransit(r, i)

AccountInv ==
    /\ \A i \in Items : ledger[i] = ValueOf(i)
    /\ \A r \in Requests : BooksItsMoves(r)

\* n times d over d is n: the second move of a transfer brings in all of out.
LEMMA RoundOfExact ==
    ASSUME NEW n \in Nat, NEW d \in Nat \ {0}
    PROVE  Round(d * n, d) = n
<1> DEFINE x == 2 * (d * n) + d
           c == x \div (2 * d)
<1>1. d * n \in Nat /\ x \in Nat /\ 2 * d \in Nat \ {0}
  BY SMT
<1>2. c \in Nat /\ (2 * d) * c <= x
  BY <1>1, Quotient
<1>3. x < (2 * d) * (c + 1)
  <2> HIDE DEF x
  <2> QED
    BY <1>1, SMT
<1> HIDE DEF c
<1>4. /\ (2 * d) * c = 2 * (d * c) /\ (2 * d) * (c + 1) = 2 * (d * c) + 2 * d /\ d * c \in Nat
  BY <1>2, SMT
<1>5. c <= n
  <2> SUFFICES ASSUME c >= n + 1 PROVE FALSE
    BY <1>2
  <2>1. d * c >= d * (n + 1) /\ d * (n + 1) = d * n + d
    BY <1>2, SMT
  <2> QED
    BY <1>1, <1>2, <1>4, <2>1
<1>6. c >= n
  <2> SUFFICES ASSUME c + 1 <= n PROVE FALSE
    BY <1>2
  <2>1. d * (c + 1) <= d * n /\ d * (c + 1) = d * c + d
    BY <1>2, SMT
  <2> QED
    BY <1>1, <1>2, <1>3, <1>4, <2>1
<1> QED
  BY <1>2, <1>5, <1>6 DEF Round, c

\* What a move changes, in value: a transfer's line takes out what it brings in.
LEMMA MoveValue ==
    ASSUME NEW body, Posts(body), NEW l \in 1..Len(body.lines), NEW leg \in {1, 2},
           ~(body.type = "issue" /\ leg = 2), leg = 2 => Legs(body) = 2,
           NEW b \in Balance, NEW out \in Nat, Enough(b, body.type, body.lines[l], leg),
           NEW a \in Balance, a = After(b, body.type, body.lines[l], leg, out)
    PROVE  /\ body.type = "transfer" /\ leg = 1 => a.value <= b.value
           /\ body.type = "transfer" /\ leg = 2 => a.value = b.value + out
<1> DEFINE line == body.lines[l]
<1>1. body.lines \in Seq(Lines) /\ line \in Lines /\ line.qty \in Int
      /\ (body.type = "transfer" => line.qty > 0)
  <2>1. body.lines \in Seq(Lines)
    BY DEF Posts, AllBodies
  <2>2. l \in DOMAIN body.lines /\ line \in Lines
    BY <2>1
  <2> QED
    BY <2>1, <2>2 DEF Posts, Valid, Lines
<1>2. b.qty \in Nat /\ b.value \in Nat /\ a.value \in Nat
  BY DEF Balance
<1>3. ASSUME body.type = "transfer", leg = 1 PROVE a.value <= b.value
  <2>1. ~Inbound(body.type, line, leg)
    BY <1>3 DEF Inbound
  <2>2. Abs(line.qty) = line.qty /\ line.qty \in Nat \ {0} /\ line.qty <= b.qty
    BY <1>1, <1>3, <2>1 DEF Abs, Enough
  <2>3. a = Issue(b, line.qty)
    BY <2>1, <2>2 DEF After
  <2>4. CASE line.qty = b.qty
    BY <1>2, <2>3, <2>4 DEF Issue
  <2>5. CASE line.qty < b.qty
    <3>1. Round(line.qty * b.value, b.qty) \in 0..b.value
      BY <2>2, <2>5, IssueIsBounded
    <3> QED
      BY <1>2, <2>3, <2>5, <3>1 DEF Issue
  <2> QED
    BY <1>1, <1>2, <2>2, <2>4, <2>5
<1>4. ASSUME body.type = "transfer", leg = 2 PROVE a.value = b.value + out
  <2>1. Inbound(body.type, line, leg) /\ line.qty \in Nat \ {0}
    BY <1>1, <1>4 DEF Inbound
  <2>2. a = Receipt(b, line.qty, [num |-> out, den |-> line.qty])
    BY <1>4, <2>1 DEF After, UnitCost
  <2>3. a.value = b.value + Round(line.qty * out, line.qty)
    BY <2>2 DEF Receipt
  <2> QED
    BY <1>2, <2>1, <2>3, RoundOfExact
<1> QED
  BY <1>3, <1>4

\* m is n after a movement of k; f and g are what they say of item i.
MovesValue(n, m, k, i, f, g) ==
    /\ n \in [Keys -> Change] /\ m \in [Keys -> Change] /\ k \in Keys /\ i \in Items
    /\ \A l \in Keys \ {k} : m[l] = n[l]
    /\ f \in [Warehouses -> Int] /\ \A w \in Warehouses : f[w] = n[<<i, w>>].value
    /\ g \in [Warehouses -> Int] /\ \A w \in Warehouses : g[w] = m[<<i, w>>].value

\* A movement of k adds to its item's sum alone.
LEMMA NetMoves ==
    ASSUME NEW n, NEW m, NEW k, NEW i, NEW f, NEW g, MovesValue(n, m, k, i, f, g)
    PROVE  /\ SumOver(g) = SumOver(f) + (IF k[1] = i THEN m[k].value - n[k].value ELSE 0)
           /\ SumOver(f) \in Int
<1> USE DEF MovesValue
<1>1. \A l \in Keys : n[l].value \in Int /\ m[l].value \in Int
  BY DEF Change
<1>2. \A w \in Warehouses : <<i, w>> \in Keys
  BY DEF Keys
<1>3. f \in [Warehouses -> Int] /\ g \in [Warehouses -> Int]
  OBVIOUS
<1>4. IsFiniteSet(Warehouses) /\ SumOver(f) \in Int /\ SumOver(g) \in Int
  BY <1>3, WarehousesAssumption, SumIsInt
<1>5. CASE k[1] = i
  <2>1. PICK w \in Warehouses : k = <<i, w>>
    BY <1>5 DEF Keys
  <2>2. \A x \in Warehouses \ {w} : f[x] = g[x]
    BY <1>1, <1>2, <2>1
  <2>3. f[w] = n[k].value /\ g[w] = m[k].value /\ f[w] \in Int /\ g[w] \in Int
    BY <2>1
  <2>4. SumOver(g) = SumOver(f) - f[w] + g[w]
    BY ONLY <1>3, <1>4, <2>2, SumChanges
  <2>5. SumOver(g) = SumOver(f) + (m[k].value - n[k].value)
    BY <1>4, <2>3, <2>4
  <2> QED
    BY <1>4, <1>5, <2>5
<1>6. CASE k[1] # i
  <2>1. \A x \in Warehouses : f[x] = g[x]
    <3> SUFFICES ASSUME NEW x \in Warehouses PROVE f[x] = g[x]
      OBVIOUS
    <3>1. <<i, x>> \in Keys \ {k}
      BY <1>2, <1>6
    <3> QED
      BY <3>1
  <2>2. SumOver(f) = SumOver(g)
    <3>1. f = g
      BY <2>1
    <3> QED
      BY <3>1
  <2> QED
    BY <1>4, <1>6, <2>2
<1> QED
  BY <1>5, <1>6

\* A step that leaves the tables alone, and no transfer half done.
LEMMA AccountWorkStep ==
    ASSUME AccountInv, NEW r \in Requests, OthersWait(r), UNCHANGED rows, BooksItsMoves(r)'
    PROVE  AccountInv'
<1>1. ASSUME NEW q \in Requests \ {r} PROVE BooksItsMoves(q)'
  BY <1>1 DEF AccountInv, BooksItsMoves, NetValue, InTransit, OthersWait
<1>2. \A i \in Items : ledger'[i] = ValueOf(i)'
  BY DEF AccountInv, ValueOf, rows
<1> QED
  BY <1>1, <1>2 DEF AccountInv

\* A step that books and moves nothing keeps what is booked, unless it is
\* halfway through a transfer.
LEMMA AccountQuietStep ==
    ASSUME IInv, AccountInv, NEW r \in Requests, OthersWait(r), UNCHANGED rows,
           tx'[r].net = tx[r].net, tx'[r].gl = tx[r].gl,
           req[r].step # "lines" \/ req[r].body.type = "issue",
           req'[r].step # "lines" \/ req'[r].leg = 1 \/ req'[r].body = req[r].body,
           req'[r].step = "lines" => req[r].step = "lines" \/ req'[r].leg = 1
    PROVE  AccountInv'
<1>1. ASSUME NEW i \in Items PROVE InTransit(r, i) = 0 /\ InTransit(r, i)' = 0 /\ NetValue(r, i)' = NetValue(r, i)
  BY DEF InTransit, NetValue
<1>2. BooksItsMoves(r)'
  BY <1>1 DEF AccountInv, BooksItsMoves
<1> QED
  BY <1>2, AccountWorkStep

\* A move books what it changes, but for what is in transit.
LEMMA AccountMoves ==
    ASSUME IInv, AccountInv, NEW r \in Requests, Move(r)
    PROVE  AccountInv'
<1>1. /\ OthersWait(r) /\ UNCHANGED rows
      /\ req[r].step = "lines" /\ ~(req[r].body.type = "issue" /\ req[r].leg = 2)
      /\ tx'[r].books \in BOOLEAN /\ NextMove(r, tx'[r].books)
  BY MoveDoes
<1>2. PICK k \in Keys, b \in Balance, a \in Balance : MoveDone(r, k, b, a)
  BY MoveDoes
<1>3. PICK body : body = req[r].body
  OBVIOUS
<1>4. PICK l, leg : l = req[r].line /\ leg = req[r].leg
  OBVIOUS
<1>5. /\ Posts(body) /\ l \in 1..Len(body.lines) /\ leg \in {1, 2} /\ (leg = 2 => Legs(body) = 2)
      /\ body.lines[l] \in Lines
  BY <1>1, <1>3, <1>4, LineOf
<1>6. tx[r] \in Transaction
  BY DEF IInv, TypeOK
<1>7. PICK out \in Nat : out = tx[r].out
  BY <1>6 DEF Transaction
<1>8. PICK n \in [Keys -> Change] : n = tx[r].net
  BY <1>6 DEF Transaction
<1>9. PICK gl \in [Items -> Int] : gl = tx[r].gl
  BY <1>6 DEF Transaction
<1>10. PICK item \in Items : item = body.lines[l].item
  BY <1>5 DEF Lines
<1>11. PICK change \in Int : change = a.value - b.value
  BY DEF Balance
<1>12. PICK dq \in Int : dq = a.qty - b.qty
  BY DEF Balance
<1>13. /\ k[1] = item
       /\ Enough(b, body.type, body.lines[l], leg)
       /\ a = After(b, body.type, body.lines[l], leg, out)
       /\ tx'[r].net = [n EXCEPT ![k] = [qty |-> n[k].qty + dq, value |-> n[k].value + change]]
       /\ tx'[r].gl = [gl EXCEPT ![item] = gl[item] + Booked(body.type, change)]
       /\ tx'[r].out = IF body.type = "transfer" /\ leg = 1 THEN Abs(change) ELSE 0
  BY <1>2, <1>3, <1>4, <1>7, <1>8, <1>9, <1>10, <1>11, <1>12 DEF MoveDone, Key
<1>14. /\ body.type = "transfer" /\ leg = 1 => Abs(change) = 0 - change
       /\ body.type = "transfer" /\ leg = 2 => change = out
  <2>1. ~(body.type = "issue" /\ leg = 2)
    BY <1>1, <1>3, <1>4
  <2>2. /\ body.type = "transfer" /\ leg = 1 => a.value <= b.value
        /\ body.type = "transfer" /\ leg = 2 => a.value = b.value + out
    BY <1>5, <1>13, <2>1, MoveValue
  <2>3. a.value \in Nat /\ b.value \in Nat
    BY DEF Balance
  <2> QED
    BY <1>11, <2>2, <2>3 DEF Abs
<1>15. /\ req'[r].body = body
       /\ \/ leg < Legs(body) /\ req'[r].step = "lines" /\ req'[r].line = l /\ req'[r].leg = 2
          \/ leg >= Legs(body) /\ req'[r].leg = 1
          \/ leg >= Legs(body) /\ req'[r].step # "lines"
  BY <1>1, <1>3, <1>4, NextMoveDoes DEF AfterLines
<1>16. BooksItsMoves(r)'
  <2> SUFFICES ASSUME NEW i \in Items
               PROVE  tx'[r].gl[i] = NetValue(r, i)' + InTransit(r, i)'
    BY DEF BooksItsMoves
  <2>1. n[k].qty \in Int /\ n[k].value \in Int /\ gl[i] \in Int
    BY DEF Change
  <2>2. /\ NetValue(r, i)' = NetValue(r, i) + (IF item = i THEN change ELSE 0)
        /\ NetValue(r, i) \in Int
    <3>1. PICK v : v = [qty |-> n[k].qty + dq, value |-> n[k].value + change]
      OBVIOUS
    <3>2. PICK m \in [Keys -> Change] : /\ m = tx'[r].net /\ m[k].value = n[k].value + change
                                       /\ \A l1 \in Keys \ {k} : m[l1] = n[l1]
      <4>1. v \in Change /\ v.value = n[k].value + change
        BY <2>1, <3>1 DEF Change
      <4>2. PICK m : m = tx'[r].net
        OBVIOUS
      <4>3. m = [n EXCEPT ![k] = v]
        BY <1>13, <3>1, <4>2
      <4>4. m \in [Keys -> Change] /\ m[k] = v /\ \A l1 \in Keys \ {k} : m[l1] = n[l1]
        BY <4>1, <4>3
      <4> QED
        BY <4>1, <4>2, <4>4
    <3>3. \A w \in Warehouses : n[<<i, w>>].value \in Int /\ m[<<i, w>>].value \in Int
      BY DEF Keys, Change
    <3>4. PICK f \in [Warehouses -> Int], g \in [Warehouses -> Int] :
            /\ f = [w \in Warehouses |-> n[<<i, w>>].value]
            /\ g = [w \in Warehouses |-> m[<<i, w>>].value]
      BY <3>3
    <3>5. /\ SumOver(g) = SumOver(f) + (IF k[1] = i THEN m[k].value - n[k].value ELSE 0)
          /\ SumOver(f) \in Int
      <4>1. MovesValue(n, m, k, i, f, g)
        BY <3>2, <3>4 DEF MovesValue
      <4> QED
        BY <4>1, NetMoves
    <3>6. NetValue(r, i)' = SumOver(g) /\ NetValue(r, i) = SumOver(f)
      BY <1>8, <3>2, <3>4 DEF NetValue
    <3> QED
      BY <1>13, <2>1, <3>2, <3>5, <3>6
  <2>3. gl[i] = NetValue(r, i) + InTransit(r, i)
    BY <1>9 DEF AccountInv, BooksItsMoves
  <2>4. InTransit(r, i) = IF leg = 2 /\ body.type = "transfer" /\ item = i THEN out ELSE 0
    BY <1>1, <1>3, <1>4, <1>7, <1>10 DEF InTransit
  <2>5. tx'[r].gl[i] = gl[i] + (IF item = i THEN Booked(body.type, change) ELSE 0)
    <3>1. Booked(body.type, change) \in Int
      BY BookedIsInt
    <3> QED
      BY <1>13, <2>1, <3>1
  <2>6. CASE body.type = "transfer" /\ leg = 1
    <3>1. InTransit(r, i)' = IF item = i THEN 0 - change ELSE 0
      BY <1>5, <1>10, <1>13, <1>14, <1>15, <2>6 DEF InTransit, Legs
    <3> QED
      BY <2>1, <2>2, <2>3, <2>4, <2>5, <2>6, <3>1 DEF Booked
  <2>7. CASE body.type = "transfer" /\ leg = 2
    <3>1. InTransit(r, i)' = 0
      BY <1>15, <2>7 DEF InTransit, Legs
    <3> QED
      BY <1>14, <2>1, <2>2, <2>3, <2>4, <2>5, <2>7, <3>1 DEF Booked
  <2>8. CASE body.type # "transfer"
    <3>1. InTransit(r, i)' = 0
      BY <1>15, <2>8 DEF InTransit
    <3> QED
      BY <2>1, <2>2, <2>3, <2>4, <2>5, <2>8, <3>1 DEF Booked
  <2> QED
    BY <1>5, <2>6, <2>7, <2>8
<1> QED
  BY <1>1, <1>16, AccountWorkStep

\* The commit adds to the account what it adds to the balances.
LEMMA AccountCommits ==
    ASSUME IInv, AccountInv, NEW r \in Requests, CommitPosted(r)
    PROVE  \A i \in Items : ledger'[i] = ValueOf(i)'
<1> SUFFICES ASSUME NEW i \in Items PROVE ledger'[i] = ValueOf(i)'
  OBVIOUS
<1>1. tx[r] \in Transaction /\ HoldsWhatItChanges(r) /\ balance \in [Keys -> Balance]
      /\ ledger \in [Items -> Int]
  BY DEF IInv, TypeOK
<1>2. tx[r].net \in [Keys -> Change] /\ tx[r].gl \in [Items -> Int] /\ tx[r].wrote \in [Keys -> Balance]
  BY <1>1 DEF Transaction
<1>3. \A k \in Keys : balance'[k] = IF k \in tx[r].held THEN tx[r].wrote[k] ELSE balance[k]
  BY DEF CommitPosted
<1>4. \A w \in Warehouses : <<i, w>> \in Keys
  BY DEF Keys
<1> DEFINE f == [w \in Warehouses |-> balance[<<i, w>>].value]
           g == [w \in Warehouses |-> tx[r].net[<<i, w>>].value]
           h == [w \in Warehouses |-> balance'[<<i, w>>].value]
<1>5. \A w \in Warehouses : /\ balance'[<<i, w>>].value = balance[<<i, w>>].value + tx[r].net[<<i, w>>].value
                            /\ balance[<<i, w>>].value \in Int /\ tx[r].net[<<i, w>>].value \in Int
  <2> SUFFICES ASSUME NEW k \in Keys
               PROVE  /\ balance'[k].value = balance[k].value + tx[r].net[k].value
                      /\ balance[k].value \in Int /\ tx[r].net[k].value \in Int
    BY <1>4
  <2>1. balance[k].value \in Int /\ tx[r].net[k].value \in Int
    BY <1>1, <1>2 DEF Balance, Change
  <2> QED
    BY <1>1, <1>3, <2>1 DEF HoldsWhatItChanges, Empty
<1>6. f \in [Warehouses -> Int] /\ g \in [Warehouses -> Int] /\ h \in [Warehouses -> Int]
      /\ \A w \in Warehouses : h[w] = f[w] + g[w]
  BY <1>5
<1>7. IsFiniteSet(Warehouses)
  BY WarehousesAssumption
<1>8. ValueOf(i)' = SumOver(h) /\ ValueOf(i) = SumOver(f) /\ NetValue(r, i) = SumOver(g)
  BY DEF ValueOf, NetValue
<1> HIDE DEF f, g, h
<1>9. SumOver(h) = SumOver(f) + SumOver(g)
  BY ONLY <1>6, <1>7, SumAdds
<1>10. InTransit(r, i) = 0
  BY DEF InTransit, CommitPosted, At
<1>11. ledger'[i] = ledger[i] + tx[r].gl[i] /\ ledger[i] = ValueOf(i)
       /\ tx[r].gl[i] = NetValue(r, i) + InTransit(r, i)
  BY DEF CommitPosted, AccountInv, BooksItsMoves
<1>12. SumOver(g) \in Int
  BY <1>6, <1>7, SumIsInt
<1> QED
  BY <1>8, <1>9, <1>10, <1>11, <1>12

\* A request that has ended has booked nothing.
LEMMA AccountEnds ==
    ASSUME IInv, AccountInv, NEW r \in Requests, End(r), \A i \in Items : ledger'[i] = ValueOf(i)'
    PROVE  AccountInv'
<1>1. OthersWait(r) /\ req'[r] = Idle /\ tx'[r] = NoTransaction
  BY EndDoes
<1>2. BooksItsMoves(r)'
  <2> SUFFICES ASSUME NEW i \in Items PROVE tx'[r].gl[i] = NetValue(r, i)' + InTransit(r, i)'
    BY DEF BooksItsMoves
  <2>1. tx'[r].gl[i] = 0 /\ InTransit(r, i)' = 0
    BY <1>1 DEF NoTransaction, InTransit, Idle
  <2>2. \A w \in Warehouses : tx'[r].net[<<i, w>>].value = 0
    BY <1>1 DEF NoTransaction, Keys, Empty
  <2> DEFINE f == [w \in Warehouses |-> tx'[r].net[<<i, w>>].value]
  <2>3. f \in [Warehouses -> Int] /\ \A w \in Warehouses : f[w] = 0
    BY <2>2
  <2>4. NetValue(r, i)' = SumOver(f)
    BY DEF NetValue
  <2> HIDE DEF f
  <2>5. SumOver(f) = 0
    BY <2>3, WarehousesAssumption, SumOfZeros
  <2> QED
    BY <2>1, <2>4, <2>5
<1>3. ASSUME NEW q \in Requests \ {r} PROVE BooksItsMoves(q)'
  BY <1>1, <1>3 DEF AccountInv, BooksItsMoves, NetValue, InTransit, OthersWait
<1> QED
  BY <1>2, <1>3 DEF AccountInv

\* A commit that moves no stock.
LEMMA AccountStays ==
    ASSUME IInv, AccountInv, NEW r \in Requests, End(r), UNCHANGED <<balance, ledger>>
    PROVE  AccountInv'
<1>1. \A i \in Items : ledger'[i] = ValueOf(i)'
  BY DEF AccountInv, ValueOf
<1> QED
  BY <1>1, AccountEnds

\* Nothing in stock is worth nothing.
LEMMA InitAccount == Init => AccountInv
<1> SUFFICES ASSUME Init PROVE AccountInv
  OBVIOUS
<1>1. ASSUME NEW i \in Items, NEW f, f = [w \in Warehouses |-> 0] PROVE SumOver(f) = 0
  BY <1>1, WarehousesAssumption, SumOfZeros
<1>2. ASSUME NEW i \in Items PROVE ValueOf(i) = 0
  <2>1. [w \in Warehouses |-> balance[<<i, w>>].value] = [w \in Warehouses |-> 0]
    BY DEF Init, Keys, Empty
  <2> QED
    BY <1>1, <2>1 DEF ValueOf
<1>3. ASSUME NEW r \in Requests, NEW i \in Items
      PROVE  NetValue(r, i) = 0 /\ InTransit(r, i) = 0 /\ tx[r].gl[i] = 0
  <2>1. [w \in Warehouses |-> tx[r].net[<<i, w>>].value] = [w \in Warehouses |-> 0]
    BY DEF Init, Keys, NoTransaction, Empty
  <2>2. NetValue(r, i) = 0
    BY <1>1, <2>1 DEF NetValue
  <2> QED
    BY <2>2 DEF Init, InTransit, Idle, NoTransaction
<1>4. \A i \in Items : ledger[i] = ValueOf(i)
  BY <1>2 DEF Init
<1> QED
  BY <1>3, <1>4 DEF AccountInv, BooksItsMoves

\* Every step keeps the inventory account in agreement with the balances.
LEMMA NextAccount == IInv /\ AccountInv /\ [Next]_vars => AccountInv'
<1> SUFFICES ASSUME IInv, AccountInv, [Next]_vars PROVE AccountInv'
  OBVIOUS
<1>1. ASSUME NEW r \in Requests, Start(r) PROVE AccountInv'
  <2>1. /\ OthersWait(r) /\ UNCHANGED <<rows, tx>> /\ req[r].step # "lines" /\ req'[r].step # "lines"
    BY <1>1, StartDoes DEF Idle
  <2> QED
    BY <2>1, AccountQuietStep
<1>2. ASSUME NEW r \in Requests, Proceed(r) \/ Fail(r) PROVE AccountInv'
  <2>1. CASE TakeNumber(r)
    <3>1. /\ OthersWait(r) /\ UNCHANGED <<rows, tx>> /\ req[r].step # "lines" /\ req'[r].leg = 1
      BY <2>1, TakeNumberDoes
    <3> QED
      BY <3>1, AccountQuietStep
  <2>2. CASE LockDocument(r)
    <3>1. /\ OthersWait(r) /\ UNCHANGED <<rows, tx>> /\ req[r].step # "lines" /\ req'[r].leg = 1
      BY <2>2, LockDocumentDoes
    <3> QED
      BY <3>1, AccountQuietStep
  <2>3. CASE Move(r)
    BY <2>3, AccountMoves
  <2>4. CASE IssueToSite(r)
    <3>1. /\ OthersWait(r) /\ UNCHANGED rows /\ req[r].step = "lines" /\ req[r].body.type = "issue"
          /\ tx'[r].net = tx[r].net /\ tx'[r].gl = tx[r].gl
          /\ NextMove(r, tx[r].books) /\ tx[r].books \in BOOLEAN
      BY <2>4, IssueDoes
    <3>2. req'[r].body = req[r].body
      BY <3>1, NextMoveDoes
    <3> QED
      BY <3>1, <3>2, AccountQuietStep
  <2>5. CASE TakeJournalNumber(r)
    <3>1. /\ OthersWait(r) /\ UNCHANGED <<rows, tx>> /\ req[r].step # "lines" /\ req'[r].step # "lines"
      BY <2>5, TakeJournalNumberDoes
    <3> QED
      BY <3>1, AccountQuietStep
  <2>6. CASE ReadSiteReq(r)
    <3>1. /\ OthersWait(r) /\ UNCHANGED <<rows, tx>> /\ req[r].step # "lines" /\ req'[r].step # "lines"
      BY <2>6, ReadSiteReqDoes
    <3> QED
      BY <3>1, AccountQuietStep
  <2>7. CASE CommitDraft(r)
    BY <2>7, AccountStays DEF CommitDraft
  <2>8. CASE CommitPosted(r)
    BY <2>8, AccountCommits, AccountEnds DEF CommitPosted
  <2>9. CASE CommitRemove(r)
    BY <2>9, AccountStays DEF CommitRemove
  <2>10. CASE CommitDecide(r)
    BY <2>10, AccountStays DEF CommitDecide
  <2>11. CASE Rollback(r)
    BY <2>11, AccountStays DEF Rollback, rows
  <2> QED
    BY <1>2, <2>1, <2>2, <2>3, <2>4, <2>5, <2>6, <2>7, <2>8, <2>9, <2>10, <2>11
       DEF Proceed, Refuse, Fail
<1>3. CASE UNCHANGED vars
  BY <1>3 DEF vars, rows, AccountInv, ValueOf, BooksItsMoves, NetValue, InTransit
<1> QED
  BY <1>1, <1>2, <1>3 DEF Next

\* The inventory account agrees with the valuation of the balances, for any
\* costs and quantities: what rounding moves in one place it moves in the other.
THEOREM AccountTold == Spec => []InventoryAccountAgrees
<1>1. IInv /\ AccountInv => InventoryAccountAgrees
  <2> SUFFICES ASSUME IInv, AccountInv, NEW i \in Items PROVE ledger[i] = Valuation(i)
    BY DEF InventoryAccountAgrees
  <2>1. \A w \in Warehouses : <<i, w>> \in Keys
    BY DEF Keys
  <2>2. \A w \in Warehouses : balance[<<i, w>>].value =
          IF balance[<<i, w>>].qty # 0 THEN balance[<<i, w>>].value ELSE 0
    BY <2>1 DEF IInv, NoResidue
  <2>3. ValueOf(i) = Valuation(i)
    BY <2>2 DEF ValueOf, Valuation
  <2> QED
    BY <2>3 DEF AccountInv
<1>2. Spec => []AccountInv
  BY InitAccount, NextAccount, Invariance, PTL DEF Spec
<1> QED
  BY <1>1, <1>2, Invariance, PTL

-------------------------------------------------------------------------------
(* Each posted document moved its stock once                               *)

\* What a request that posts has moved of line l so far.
LineDone(r, l, k) ==
    LET body == req[r].body IN
    IF req[r].step # "lines" \/ l < req[r].line THEN LineQuantity(body, body.lines[l], k)
    ELSE IF l = req[r].line /\ req[r].leg = 2 THEN MoveQuantity(body, body.lines[l], 1, k)
    ELSE 0

MovedSoFar(r) ==
    \A k \in Keys :
        tx[r].net[k].qty =
            IF Posting(r) /\ req[r].step \notin {"number", "document"}
            THEN SumOver([l \in DOMAIN req[r].body.lines |-> LineDone(r, l, k)]) ELSE 0

\* Nobody else writes the document that a request creates, or posts.
OwnsDocument(r) ==
    LET d == req[r].doc IN
    /\ req[r].op = "create" => doc[d] = NoDocument /\ \A q \in Requests \ {r} : req[q].doc # d
    /\ req[r].op = "post" /\ req[r].step # "document" =>
          DocRow(d) \in locks[r] /\ doc[d].status = "draft" /\ doc[d].body = req[r].body
    /\ req[r].op = "post" => doc[d].status # "none"
    /\ req[r].op = "remove" => req[r].was = "draft" /\ doc[d].status # "none"

\* A document that is overtaken was posted, and is deleted.
OvertakenIsDeleted ==
    \A d \in Docs : d \in overtaken => doc[d].status = "deleted" /\ Posts(doc[d].body)

\* What a document counts for, in the quantity of k.
Counted(d, k) == IF doc[d].status = "posted" \/ d \in overtaken THEN QuantityOf(doc[d].body, k) ELSE 0

MovesInv ==
    /\ PostedMovedOnce
    /\ OvertakenIsDeleted
    /\ \A r \in Requests : OwnsDocument(r) /\ MovedSoFar(r)

\* A line of a body that a request posts.
LEMMA LineIsLine ==
    ASSUME NEW body, Posts(body), NEW l \in DOMAIN body.lines
    PROVE  body.lines[l] \in Lines /\ body.lines[l].qty \in Int
<1>1. body.lines \in Seq(Lines)
  BY DEF Posts, AllBodies
<1>2. body.lines[l] \in Lines
  BY <1>1
<1> QED
  BY <1>2 DEF Lines

\* The quantities that are added up are integers.
LEMMA QuantityIsInt ==
    ASSUME NEW body, Posts(body), NEW k
    PROVE  /\ IsFiniteSet(DOMAIN body.lines) /\ DOMAIN body.lines = 1..Len(body.lines) /\ Len(body.lines) \in Nat
           /\ \A l \in DOMAIN body.lines : /\ MoveQuantity(body, body.lines[l], 1, k) \in Int
                                           /\ MoveQuantity(body, body.lines[l], 2, k) \in Int
                                           /\ LineQuantity(body, body.lines[l], k) \in Int
           /\ QuantityOf(body, k) \in Int
<1>1. body.lines \in Seq(Lines)
  BY DEF Posts, AllBodies
<1>2. DOMAIN body.lines = 1..Len(body.lines) /\ Len(body.lines) \in Nat
  BY <1>1
<1>3. IsFiniteSet(DOMAIN body.lines)
  BY <1>2, FS_Interval
<1>4. ASSUME NEW l \in DOMAIN body.lines
      PROVE  /\ MoveQuantity(body, body.lines[l], 1, k) \in Int
             /\ MoveQuantity(body, body.lines[l], 2, k) \in Int
             /\ LineQuantity(body, body.lines[l], k) \in Int
  <2>1. body.lines[l].qty \in Int
    BY LineIsLine
  <2>2. /\ MoveQuantity(body, body.lines[l], 1, k) \in Int
        /\ MoveQuantity(body, body.lines[l], 2, k) \in Int
    BY <2>1 DEF MoveQuantity, Abs
  <2> QED
    BY <2>2 DEF LineQuantity
<1>5. [l \in DOMAIN body.lines |-> LineQuantity(body, body.lines[l], k)] \in [DOMAIN body.lines -> Int]
  BY <1>4
<1> QED
  BY <1>2, <1>3, <1>4, <1>5, SumIsInt DEF QuantityOf

\* What a move adds to the quantity of its balance is what the line says.
LEMMA MoveAdds ==
    ASSUME NEW body, Posts(body), NEW l \in 1..Len(body.lines), NEW leg \in {1, 2},
           NEW b \in Balance, NEW out \in Nat, NEW a \in Balance,
           a = After(b, body.type, body.lines[l], leg, out), NEW k,
           k = Key(body, body.lines[l], leg)
    PROVE  a.qty - b.qty = MoveQuantity(body, body.lines[l], leg, k)
<1>1. body.lines[l].qty \in Int
  <2>1. l \in DOMAIN body.lines
    BY QuantityIsInt
  <2> QED
    BY <2>1, LineIsLine
<1>2. b.qty \in Nat
  BY DEF Balance
<1>3. Abs(body.lines[l].qty) \in Int
  BY <1>1 DEF Abs
<1>4. CASE Inbound(body.type, body.lines[l], leg)
  BY <1>1, <1>2, <1>4 DEF After, Receipt, MoveQuantity
<1>5. CASE ~Inbound(body.type, body.lines[l], leg)
  BY <1>2, <1>3, <1>5 DEF After, Issue, MoveQuantity
<1> QED
  BY <1>4, <1>5

\* What the posted documents move of a balance is a whole number, document by document.
LEMMA CountedIsInt ==
    ASSUME IInv, MovesInv, NEW k
    PROVE  /\ \A d \in Docs : Counted(d, k) \in Int
           /\ [d \in Docs |-> Counted(d, k)] \in [Docs -> Int]
<1>1. \A d \in Docs : (doc[d].status = "posted" \/ d \in overtaken) => Posts(doc[d].body)
  BY DEF IInv, DocumentsPost, MovesInv, OvertakenIsDeleted
<1>2. \A d \in Docs : Counted(d, k) \in Int
  BY <1>1, QuantityIsInt DEF Counted
<1> QED
  BY <1>2

\* A step that leaves the documents alone.
LEMMA MovesWorkStep ==
    ASSUME MovesInv, NEW r \in Requests, OthersWait(r), UNCHANGED rows,
           OwnsDocument(r)', MovedSoFar(r)',
           req'[r].doc = req[r].doc \/ \A q \in Requests : req[q].op = "create" => req[q].doc # req'[r].doc
    PROVE  MovesInv'
<1>1. PostedMovedOnce' /\ OvertakenIsDeleted'
  BY DEF MovesInv, PostedMovedOnce, OvertakenIsDeleted, rows
<1>2. ASSUME NEW q \in Requests \ {r} PROVE OwnsDocument(q)' /\ MovedSoFar(q)'
  <2>1. req'[q] = req[q] /\ tx'[q] = tx[q] /\ locks'[q] = locks[q] /\ OwnsDocument(q) /\ MovedSoFar(q)
    BY DEF OthersWait, MovesInv
  <2>2. MovedSoFar(q)'
    BY <2>1 DEF MovedSoFar, Posting, LineDone
  <2>3. req[q].op = "create" => \A p \in Requests \ {q} : req'[p].doc # req[q].doc
    BY <2>1 DEF OwnsDocument, OthersWait
  <2> QED
    BY <2>1, <2>2, <2>3 DEF OwnsDocument, rows
<1> QED
  BY <1>1, <1>2 DEF MovesInv

\* What a request has moved is the sum of its lines done.
LEMMA MovedIsInt ==
    ASSUME IInv, NEW r \in Requests, Posts(req[r].body), NEW k
    PROVE  /\ IsFiniteSet(DOMAIN req[r].body.lines)
           /\ [l \in DOMAIN req[r].body.lines |-> LineDone(r, l, k)] \in [DOMAIN req[r].body.lines -> Int]
<1>1. ASSUME NEW l \in DOMAIN req[r].body.lines PROVE LineDone(r, l, k) \in Int
  <2>1. /\ MoveQuantity(req[r].body, req[r].body.lines[l], 1, k) \in Int
        /\ LineQuantity(req[r].body, req[r].body.lines[l], k) \in Int
    BY QuantityIsInt
  <2> QED
    BY <2>1 DEF LineDone
<1> QED
  BY <1>1, QuantityIsInt

\* The move of a request's current line changes what it has done of it.
LEMMA MovesMove ==
    ASSUME IInv, SiteInv, MovesInv, NEW r \in Requests, Move(r)
    PROVE  MovedSoFar(r)'
<1>1. /\ OthersWait(r) /\ UNCHANGED rows
      /\ req[r].step = "lines" /\ ~(req[r].body.type = "issue" /\ req[r].leg = 2)
      /\ tx'[r].books \in BOOLEAN /\ NextMove(r, tx'[r].books)
  BY MoveDoes
<1>2. PICK m \in Keys, b \in Balance, a \in Balance : MoveDone(r, m, b, a)
  BY MoveDoes
<1>3. PICK body : body = req[r].body
  OBVIOUS
<1>4. PICK c, leg : c = req[r].line /\ leg = req[r].leg
  OBVIOUS
<1>5. /\ Posts(body) /\ c \in 1..Len(body.lines) /\ leg \in {1, 2} /\ (leg = 2 => Legs(body) = 2)
  BY <1>1, <1>3, <1>4, LineOf
<1>6. tx[r] \in Transaction
  BY DEF IInv, TypeOK
<1>7. PICK out \in Nat : out = tx[r].out
  BY <1>6 DEF Transaction
<1>8. PICK n \in [Keys -> Change] : n = tx[r].net
  BY <1>6 DEF Transaction
<1>9. PICK dq \in Int : dq = a.qty - b.qty
  BY DEF Balance
<1>10. /\ m = Key(body, body.lines[c], leg)
       /\ a = After(b, body.type, body.lines[c], leg, out)
       /\ tx'[r].net = [n EXCEPT ![m] = [qty |-> n[m].qty + dq,
                                         value |-> n[m].value + (a.value - b.value)]]
  BY <1>2, <1>3, <1>4, <1>7, <1>8, <1>9 DEF MoveDone
<1>11. dq = MoveQuantity(body, body.lines[c], leg, m)
  BY <1>5, <1>9, <1>10, MoveAdds
<1>12. /\ req'[r].body = body /\ req'[r].op = req[r].op /\ req'[r].andPost = req[r].andPost
       /\ \/ leg < Legs(body) /\ req'[r].step = "lines" /\ req'[r].line = c /\ req'[r].leg = 2
          \/ leg >= Legs(body) /\ c < Len(body.lines) /\ req'[r].step = "lines"
             /\ req'[r].line = c + 1 /\ req'[r].leg = 1
          \/ leg >= Legs(body) /\ c = Len(body.lines)
             /\ req'[r].step \in {"journal", "requisition", "commit"}
  BY <1>1, <1>3, <1>4, NextMoveDoes DEF AfterLines
<1>13. Posting(r) /\ Posting(r)' /\ req'[r].step \notin {"number", "document"}
  BY <1>1, <1>12 DEF SiteInv, TellsSite, Posting
<1> SUFFICES ASSUME NEW k \in Keys
             PROVE  tx'[r].net[k].qty = SumOver([l \in DOMAIN body.lines |-> LineDone(r, l, k)'])
  BY <1>12, <1>13 DEF MovedSoFar
<1>14. PICK S : S = DOMAIN body.lines
  OBVIOUS
<1>15. PICK f \in [S -> Int] : f = [l \in S |-> LineDone(r, l, k)]
  BY <1>3, <1>5, <1>14, MovedIsInt
<1>16. /\ IsFiniteSet(S) /\ S = 1..Len(body.lines) /\ Len(body.lines) \in Nat /\ c \in S
       /\ \A l \in S : /\ MoveQuantity(body, body.lines[l], 1, k) \in Int
                       /\ MoveQuantity(body, body.lines[l], 2, k) \in Int
                       /\ LineQuantity(body, body.lines[l], k) \in Int
  BY <1>5, <1>14, QuantityIsInt
<1>17. PICK v \in Int : v = MoveQuantity(body, body.lines[c], leg, k)
  BY <1>5, <1>16
<1>18. \A l \in S : f[l] = IF l < c THEN LineQuantity(body, body.lines[l], k)
                           ELSE IF l = c /\ leg = 2 THEN MoveQuantity(body, body.lines[l], 1, k) ELSE 0
  BY <1>1, <1>3, <1>4, <1>15 DEF LineDone
<1>19. \A l \in S \ {c} : LineDone(r, l, k)' = f[l]
  <2> SUFFICES ASSUME NEW l \in S \ {c} PROVE LineDone(r, l, k)' = f[l]
    OBVIOUS
  <2>1. /\ l \in Nat /\ c \in Nat /\ l <= Len(body.lines) /\ l # c
        /\ f[l] = IF l < c THEN LineQuantity(body, body.lines[l], k) ELSE 0
    BY <1>16, <1>18
  <2>2. CASE leg < Legs(body)
    BY <1>12, <2>1, <2>2 DEF LineDone
  <2>3. CASE leg >= Legs(body) /\ c < Len(body.lines)
    <3>1. req'[r].body = body /\ req'[r].step = "lines" /\ req'[r].line = c + 1 /\ req'[r].leg = 1
      BY <1>5, <1>12, <2>1, <2>3 DEF Legs
    <3>2. l < c + 1 <=> l < c
      BY <2>1
    <3> QED
      BY <2>1, <3>1, <3>2 DEF LineDone
  <2>4. CASE leg >= Legs(body) /\ c = Len(body.lines)
    <3>1. req'[r].body = body /\ req'[r].step # "lines"
      BY <1>5, <1>12, <2>1, <2>4 DEF Legs
    <3>2. l < c
      BY <2>1, <2>4
    <3> QED
      BY <2>1, <3>1, <3>2 DEF LineDone
  <2> QED
    BY <1>5, <1>16, <2>2, <2>3, <2>4 DEF Legs
<1>20. LineDone(r, c, k)' = f[c] + v
  <2>1. c \in Nat /\ ~(c < c) /\ c < c + 1
    BY <1>16
  <2>2. CASE leg < Legs(body)
    <3>1. leg = 1
      BY <1>5, <2>2 DEF Legs
    <3>2. req'[r].body = body /\ req'[r].step = "lines" /\ req'[r].line = c /\ req'[r].leg = 2
      BY <1>5, <1>12, <2>2 DEF Legs
    <3>3. LineDone(r, c, k)' = MoveQuantity(body, body.lines[c], 1, k)
      BY <2>1, <3>2 DEF LineDone
    <3> QED
      BY <1>16, <1>17, <1>18, <2>1, <3>1, <3>3
  <2>3. CASE leg >= Legs(body)
    <3>1. LineDone(r, c, k)' = LineQuantity(body, body.lines[c], k)
      BY <1>5, <1>12, <2>1, <2>3 DEF LineDone, Legs
    <3>2. CASE leg = 1
      <4>1. body.type # "transfer"
        BY <2>3, <3>2 DEF Legs
      <4> QED
        BY <1>16, <1>17, <1>18, <2>1, <3>1, <3>2, <4>1 DEF LineQuantity
    <3>3. CASE leg = 2
      <4>1. body.type = "transfer"
        BY <1>1, <1>3, <1>4, <1>5, <3>3 DEF Legs
      <4> QED
        BY <1>16, <1>17, <1>18, <2>1, <3>1, <3>3, <4>1 DEF LineQuantity
    <3> QED
      BY <1>5, <3>2, <3>3
  <2> QED
    BY <1>5, <2>2, <2>3 DEF Legs
<1>21. PICK g \in [S -> Int] : g = [l \in S |-> LineDone(r, l, k)']
  <2>1. \A l \in S : LineDone(r, l, k)' \in Int
    BY <1>19, <1>20, <1>16
  <2> QED
    BY <2>1
<1>22. SumOver(g) = SumOver(f) - f[c] + g[c] /\ SumOver(f) \in Int /\ f[c] \in Int
  <2>1. \A l \in S \ {c} : f[l] = g[l]
    BY <1>19, <1>21
  <2>2. f \in [S -> Int] /\ g \in [S -> Int] /\ IsFiniteSet(S) /\ c \in S
    BY <1>16
  <2> QED
    BY ONLY <2>1, <2>2, SumChanges, SumIsInt
<1>23. SumOver(g) = SumOver(f) + v
  BY <1>16, <1>20, <1>21, <1>22
<1>24. tx'[r].net[k].qty = n[k].qty + v /\ n[k].qty \in Int
  <2>1. n[k].qty \in Int
    BY DEF Change
  <2>2. CASE k = m
    BY <1>10, <1>11, <1>17, <2>1, <2>2
  <2>3. CASE k # m
    <3>1. v = 0
      BY <1>10, <1>17, <2>3 DEF MoveQuantity
    <3> QED
      BY <1>10, <2>1, <2>3, <3>1
  <2> QED
    BY <2>2, <2>3
<1>25. n[k].qty = SumOver(f)
  BY <1>1, <1>3, <1>8, <1>13, <1>14, <1>15 DEF MovesInv, MovedSoFar
<1> QED
  BY <1>14, <1>21, <1>23, <1>24, <1>25

\* A request that has not begun its lines has moved nothing, and has nothing
\* done of them.
LEMMA NothingMovedYet ==
    ASSUME IInv, MovesInv, NEW r \in Requests, NEW k \in Keys,
           ~Posting(r) \/ req[r].step \in {"number", "document"}
    PROVE  tx[r].net[k].qty = 0
  BY DEF MovesInv, MovedSoFar

\* An idle request has moved nothing.
LEMMA NothingMovedWhenIdle ==
    ASSUME IInv, MovesInv, NEW r \in Requests, NEW k \in Keys, req[r] = Idle
    PROVE  tx[r].net[k].qty = 0
<1>1. ~Posting(r)
  BY NoneAssumption DEF Posting, Idle, Operations
<1> QED
  BY <1>1, NothingMovedYet

\* On its first line a request has done none of its lines.
LEMMA NothingDoneAtFirst ==
    ASSUME NEW r \in Requests, Posts(req'[r].body), req'[r].step = "lines",
           req'[r].line = 1, req'[r].leg = 1, NEW k
    PROVE  SumOver([l \in DOMAIN req'[r].body.lines |-> LineDone(r, l, k)']) = 0
<1>1. PICK body : body = req'[r].body
  OBVIOUS
<1>2. IsFiniteSet(DOMAIN body.lines) /\ DOMAIN body.lines = 1..Len(body.lines)
  BY <1>1, QuantityIsInt
<1>3. \A l \in DOMAIN body.lines : LineDone(r, l, k)' = 0
  BY <1>1, <1>2 DEF LineDone
<1> DEFINE f == [l \in DOMAIN body.lines |-> LineDone(r, l, k)']
<1>4. f \in [DOMAIN body.lines -> Int] /\ \A l \in DOMAIN body.lines : f[l] = 0
  BY <1>3
<1>5. SumOver(f) = SumOver([l \in DOMAIN req'[r].body.lines |-> LineDone(r, l, k)'])
  BY <1>1
<1> HIDE DEF f
<1> QED
  BY <1>2, <1>4, <1>5, SumOfZeros

\* The issue of a line to the requisition leaves what is moved as it is.
LEMMA MovesIssue ==
    ASSUME IInv, SiteInv, MovesInv, NEW r \in Requests, IssueToSite(r)
    PROVE  MovedSoFar(r)'
<1>1. /\ req[r].step = "lines" /\ req[r].body.type = "issue" /\ req[r].leg = 2
      /\ tx'[r].net = tx[r].net /\ NextMove(r, tx[r].books) /\ tx[r].books \in BOOLEAN
  BY IssueDoes
<1>2. PICK body, c : body = req[r].body /\ c = req[r].line
  OBVIOUS
<1>3. Posts(body) /\ c \in 1..Len(body.lines) /\ Legs(body) = 2
  BY <1>1, <1>2, LineOf
<1>4. /\ req'[r].body = body /\ req'[r].op = req[r].op /\ req'[r].andPost = req[r].andPost
      /\ \/ c < Len(body.lines) /\ req'[r].step = "lines" /\ req'[r].line = c + 1 /\ req'[r].leg = 1
         \/ c = Len(body.lines) /\ req'[r].step \in {"journal", "requisition", "commit"}
  BY <1>1, <1>2, <1>3, NextMoveDoes DEF AfterLines
<1>5. Posting(r) /\ Posting(r)' /\ req'[r].step \notin {"number", "document"}
  BY <1>1, <1>4 DEF SiteInv, TellsSite, Posting
<1> SUFFICES ASSUME NEW k \in Keys
             PROVE  tx'[r].net[k].qty = SumOver([l \in DOMAIN body.lines |-> LineDone(r, l, k)'])
  BY <1>4, <1>5 DEF MovedSoFar
<1>6. tx[r].net[k].qty = SumOver([l \in DOMAIN body.lines |-> LineDone(r, l, k)])
  BY <1>1, <1>2, <1>5 DEF MovesInv, MovedSoFar
<1>7. ASSUME NEW l \in DOMAIN body.lines PROVE LineDone(r, l, k)' = LineDone(r, l, k)
  <2>1. l \in Nat /\ c \in Nat /\ l <= Len(body.lines) /\ Len(body.lines) \in Nat
    BY <1>3, QuantityIsInt
  <2>2. MoveQuantity(body, body.lines[l], 1, k) \in Int
    BY <1>3, QuantityIsInt
  <2>3. LineQuantity(body, body.lines[l], k) = MoveQuantity(body, body.lines[l], 1, k)
    BY <1>1, <1>2, <2>2 DEF LineQuantity
  <2>4. LineDone(r, l, k) = IF l <= c THEN MoveQuantity(body, body.lines[l], 1, k) ELSE 0
    BY <1>1, <1>2, <2>1, <2>3 DEF LineDone
  <2>5. CASE c < Len(body.lines)
    <3>1. req'[r].body = body /\ req'[r].step = "lines" /\ req'[r].line = c + 1 /\ req'[r].leg = 1
      BY <1>4, <2>1, <2>5
    <3>2. LineDone(r, l, k)' = IF l < c + 1 THEN LineQuantity(body, body.lines[l], k) ELSE 0
      BY <3>1 DEF LineDone
    <3> QED
      BY <2>1, <2>3, <2>4, <3>2
  <2>6. CASE c = Len(body.lines)
    <3>1. req'[r].body = body /\ req'[r].step # "lines"
      BY <1>4, <2>1, <2>6
    <3>2. LineDone(r, l, k)' = LineQuantity(body, body.lines[l], k)
      BY <3>1 DEF LineDone
    <3> QED
      BY <2>1, <2>3, <2>4, <2>6, <3>2
  <2> QED
    BY <1>4, <2>5, <2>6
<1>8. [l \in DOMAIN body.lines |-> LineDone(r, l, k)'] = [l \in DOMAIN body.lines |-> LineDone(r, l, k)]
  BY <1>7
<1> QED
  BY <1>1, <1>6, <1>8

\* Past its lines a request has moved what its document says.
LEMMA AllMoved ==
    ASSUME NEW r \in Requests, req[r].step # "lines", NEW k
    PROVE  SumOver([l \in DOMAIN req[r].body.lines |-> LineDone(r, l, k)]) = QuantityOf(req[r].body, k)
<1>1. [l \in DOMAIN req[r].body.lines |-> LineDone(r, l, k)]
      = [l \in DOMAIN req[r].body.lines |-> LineQuantity(req[r].body, req[r].body.lines[l], k)]
  BY DEF LineDone
<1> QED
  BY <1>1 DEF QuantityOf

\* Past its last line a request has moved what all its lines say.
LEMMA MovesAfterLines ==
    ASSUME MovesInv, SiteInv, NEW r \in Requests, tx' = tx,
           req[r].step \in {"journal", "requisition"}, req'[r].step \in {"requisition", "commit"},
           req'[r].op = req[r].op, req'[r].body = req[r].body, req'[r].andPost = req[r].andPost
    PROVE  MovedSoFar(r)'
<1>1. Posting(r) /\ Posting(r)'
  BY DEF SiteInv, TellsSite, Posting
<1> SUFFICES ASSUME NEW k \in Keys
             PROVE  tx'[r].net[k].qty = SumOver([l \in DOMAIN req'[r].body.lines |-> LineDone(r, l, k)'])
  BY <1>1 DEF MovedSoFar
<1>2. tx[r].net[k].qty = SumOver([l \in DOMAIN req[r].body.lines |-> LineDone(r, l, k)])
  BY <1>1 DEF MovesInv, MovedSoFar
<1>3. [l \in DOMAIN req'[r].body.lines |-> LineDone(r, l, k)']
      = [l \in DOMAIN req[r].body.lines |-> LineDone(r, l, k)]
  BY DEF LineDone
<1> QED
  BY <1>2, <1>3

\* A step that a request makes on the way to its commit.
LEMMA MovesProceed ==
    ASSUME IInv, SiteInv, MovesInv, NEW r \in Requests,
           TakeNumber(r) \/ LockDocument(r) \/ Move(r) \/ IssueToSite(r)
           \/ TakeJournalNumber(r) \/ ReadSiteReq(r)
    PROVE  MovesInv'
<1>1. CASE TakeNumber(r)
  <2>1. /\ OthersWait(r) /\ UNCHANGED <<rows, tx>> /\ req[r].op = "create" /\ req[r].step = "number"
        /\ req[r].line = 1 /\ req[r].leg = 1 /\ Posts(req[r].body)
        /\ req'[r].op = req[r].op /\ req'[r].doc = req[r].doc /\ req'[r].body = req[r].body
        /\ req'[r].andPost = req[r].andPost /\ req'[r].line = req[r].line /\ req'[r].leg = req[r].leg
        /\ req'[r].step = IF req[r].andPost THEN "lines" ELSE "commit"
    BY <1>1, TakeNumberDoes
  <2>2. OwnsDocument(r)'
    BY <2>1 DEF MovesInv, OwnsDocument, OthersWait, rows
  <2>3. \A k \in Keys : tx'[r].net[k].qty = 0
    BY <2>1, NothingMovedYet
  <2>4. CASE req[r].andPost
    <3>1. Posts(req'[r].body) /\ req'[r].step = "lines" /\ req'[r].line = 1 /\ req'[r].leg = 1
      BY <2>1, <2>4
    <3>2. MovedSoFar(r)'
      BY <2>3, <3>1, NothingDoneAtFirst DEF MovedSoFar
    <3> QED
      BY <2>1, <2>2, <3>2, MovesWorkStep
  <2>5. CASE ~req[r].andPost
    <3>1. ~Posting(r)'
      BY <2>1, <2>5 DEF Posting
    <3>2. MovedSoFar(r)'
      BY <2>3, <3>1 DEF MovedSoFar
    <3> QED
      BY <2>1, <2>2, <3>2, MovesWorkStep
  <2> QED
    BY <2>4, <2>5
<1>2. CASE LockDocument(r)
  <2>1. /\ OthersWait(r) /\ UNCHANGED <<rows, tx>> /\ req[r].step = "document"
        /\ doc[req[r].doc].status = "draft" /\ Posts(doc[req[r].doc].body)
        /\ locks'[r] = locks[r] \cup {DocRow(req[r].doc)}
        /\ req'[r].step = "lines" /\ req'[r].op = "post" /\ req'[r].doc = req[r].doc
        /\ req'[r].body = doc[req[r].doc].body /\ req'[r].line = 1 /\ req'[r].leg = 1
    BY <1>2, LockDocumentDoes
  <2>2. OwnsDocument(r)'
    BY <2>1 DEF MovesInv, OwnsDocument, rows
  <2>3. \A k \in Keys : tx'[r].net[k].qty = 0
    BY <2>1, NothingMovedYet
  <2>4. MovedSoFar(r)'
    BY <2>1, <2>3, NothingDoneAtFirst DEF MovedSoFar
  <2> QED
    BY <2>1, <2>2, <2>4, MovesWorkStep
<1>3. CASE Move(r)
  <2>1. /\ OthersWait(r) /\ UNCHANGED rows /\ req[r].step = "lines"
        /\ tx'[r].books \in BOOLEAN /\ NextMove(r, tx'[r].books)
    BY <1>3, MoveDoes
  <2>2. req'[r].op = req[r].op /\ req'[r].doc = req[r].doc /\ req'[r].body = req[r].body /\ req'[r].was = req[r].was
    BY <2>1, NextMoveDoes
  <2>3. locks[r] \subseteq locks'[r]
    BY <1>3 DEF Move, LockBalance, L!Lock, IInv, TypeOK, L!LocksTypeOK
  <2>4. OwnsDocument(r)'
    BY <2>1, <2>2, <2>3 DEF MovesInv, OwnsDocument, OthersWait, rows
  <2> QED
    BY <1>3, <2>1, <2>2, <2>4, MovesMove, MovesWorkStep
<1>4. CASE IssueToSite(r)
  <2>1. /\ OthersWait(r) /\ UNCHANGED rows /\ req[r].step = "lines"
        /\ tx[r].books \in BOOLEAN /\ NextMove(r, tx[r].books)
    BY <1>4, IssueDoes
  <2>2. req'[r].op = req[r].op /\ req'[r].doc = req[r].doc /\ req'[r].body = req[r].body /\ req'[r].was = req[r].was
    BY <2>1, NextMoveDoes
  <2>3. locks[r] \subseteq locks'[r]
    <3>1. r \in DOMAIN locks
      BY DEF IInv, TypeOK, L!LocksTypeOK
    <3>2. locks' = locks \/ \E row : locks' = [locks EXCEPT ![r] = @ \cup {row}]
      BY <1>4 DEF IssueToSite, L!Lock
    <3> QED
      BY <3>1, <3>2
  <2>4. OwnsDocument(r)'
    BY <2>1, <2>2, <2>3 DEF MovesInv, OwnsDocument, OthersWait, rows
  <2> QED
    BY <1>4, <2>1, <2>2, <2>4, MovesIssue, MovesWorkStep
<1>5. CASE TakeJournalNumber(r)
  <2>1. /\ OthersWait(r) /\ UNCHANGED <<rows, tx>> /\ req[r].op \in {"create", "post"}
        /\ req[r].step = "journal" /\ locks[r] \subseteq locks'[r]
        /\ req'[r].op = req[r].op /\ req'[r].doc = req[r].doc /\ req'[r].body = req[r].body
        /\ req'[r].andPost = req[r].andPost /\ req'[r].step \in {"requisition", "commit"}
    BY <1>5, TakeJournalNumberDoes
  <2>2. OwnsDocument(r)'
    BY <2>1 DEF MovesInv, OwnsDocument, OthersWait, rows
  <2>3. MovedSoFar(r)'
    BY <2>1, MovesAfterLines
  <2> QED
    BY <2>1, <2>2, <2>3, MovesWorkStep
<1>6. CASE ReadSiteReq(r)
  <2>1. /\ OthersWait(r) /\ UNCHANGED <<rows, tx, locks>> /\ req[r].op \in {"create", "post"}
        /\ req[r].step = "requisition"
        /\ req'[r].op = req[r].op /\ req'[r].doc = req[r].doc /\ req'[r].body = req[r].body
        /\ req'[r].andPost = req[r].andPost /\ req'[r].step = "commit"
    BY <1>6, ReadSiteReqDoes
  <2>2. OwnsDocument(r)'
    BY <2>1 DEF MovesInv, OwnsDocument, OthersWait, rows
  <2>3. MovedSoFar(r)'
    BY <2>1, MovesAfterLines
  <2> QED
    BY <2>1, <2>2, <2>3, MovesWorkStep
<1> QED
  BY <1>1, <1>2, <1>3, <1>4, <1>5, <1>6

\* A request begins with a document that nobody is creating.
LEMMA MovesBegin ==
    ASSUME IInv, MovesInv, NEW r \in Requests, Start(r)
    PROVE  MovesInv'
<1>1. OthersWait(r) /\ UNCHANGED <<rows, tx, locks>> /\ req[r] = Idle
  BY StartDoes
<1>2. \A k \in Keys : tx'[r].net[k].qty = 0
  BY <1>1, NothingMovedWhenIdle
<1>3. MovedSoFar(r)'
  <2>1. ~Posting(r)' \/ req'[r].step \in {"number", "document"}
    BY StartDoes DEF Posting
  <2> QED
    BY <1>2, <2>1 DEF MovedSoFar
<1>4. OwnsDocument(r)'
  BY <1>1, StartDoes DEF OwnsDocument, OthersWait, rows
<1>5. ASSUME NEW q \in Requests, req[q].op = "create" PROVE req[q].doc # req'[r].doc
  <2>1. req[q].doc \in Docs /\ None \notin Docs
    BY <1>5, DocsAssumption DEF IInv, Runs
  <2>2. doc[req[q].doc] = NoDocument
    BY <1>5 DEF MovesInv, OwnsDocument
  <2> QED
    BY <2>1, <2>2, StartDoes DEF NoDocument
<1> QED
  BY <1>1, <1>3, <1>4, <1>5, MovesWorkStep

\* A request that ends after it wrote document d, which no other request
\* creates or has locked.
LEMMA MovesEnd ==
    ASSUME IInv, MovesInv, NEW r \in Requests, End(r), NEW d \in Docs,
           \A e \in Docs \ {d} : doc'[e] = doc[e] /\ (e \in overtaken' <=> e \in overtaken),
           doc'[d].status # "none",
           \A q \in Requests \ {r} : req[q].op = "create" \/ (req[q].op = "post" /\ req[q].step # "document")
                                        => req[q].doc # d,
           \A k \in Keys : moved'[k].qty = moved[k].qty - Counted(d, k) + Counted(d, k)',
           OvertakenIsDeleted', IInv'
    PROVE  MovesInv'
<1>1. OthersWait(r) /\ req'[r] = Idle /\ tx'[r] = NoTransaction
  BY EndDoes
<1>2. OwnsDocument(r)' /\ MovedSoFar(r)'
  <2>1. req'[r].op = None /\ ~Posting(r)'
    BY <1>1, NoneAssumption DEF Idle, Posting, Operations
  <2>2. MovedSoFar(r)'
    BY <1>1, <2>1 DEF MovedSoFar, NoTransaction, Empty
  <2> QED
    BY <2>1, <2>2, NoneAssumption DEF OwnsDocument, Operations
<1>3. ASSUME NEW q \in Requests \ {r} PROVE OwnsDocument(q)' /\ MovedSoFar(q)'
  <2>1. /\ req'[q] = req[q] /\ tx'[q] = tx[q] /\ locks'[q] = locks[q]
        /\ OwnsDocument(q) /\ MovedSoFar(q)
    BY <1>1 DEF OthersWait, MovesInv
  <2>2. MovedSoFar(q)'
    BY <2>1 DEF MovedSoFar, Posting, LineDone
  <2>3. req[q].op \in {"create", "post", "remove"} => req[q].doc \in Docs
    BY DEF IInv, Runs
  <2>4. req'[r].doc = None /\ None \notin Docs
    BY <1>1, DocsAssumption DEF Idle
  <2>5. req[q].op = "create" => doc'[req[q].doc] = NoDocument /\ \A p \in Requests \ {q} : req'[p].doc # req[q].doc
    BY <1>1, <2>1, <2>3, <2>4 DEF OwnsDocument, OthersWait
  <2>6. req[q].op = "post" /\ req[q].step # "document" => doc'[req[q].doc] = doc[req[q].doc]
    BY <2>3
  <2>7. req[q].op \in {"post", "remove"} => doc'[req[q].doc].status # "none"
    BY <2>1, <2>3 DEF OwnsDocument
  <2>8. OwnsDocument(q)'
    BY <2>1, <2>5, <2>6, <2>7 DEF OwnsDocument
  <2> QED
    BY <2>2, <2>8
<1>4. PostedMovedOnce'
  <2> SUFFICES ASSUME NEW k \in Keys
               PROVE  moved'[k].qty = SumOver([e \in Docs |-> Counted(e, k)'])
    BY DEF PostedMovedOnce, Counted
  <2>1. PICK f \in [Docs -> Int] : f = [e \in Docs |-> Counted(e, k)]
    BY CountedIsInt
  <2>2. \A e \in Docs : Counted(e, k)' \in Int
    <3>1. \A e \in Docs : (doc'[e].status = "posted" \/ e \in overtaken') => Posts(doc'[e].body)
      BY DEF IInv, DocumentsPost, OvertakenIsDeleted
    <3> QED
      BY <3>1, QuantityIsInt DEF Counted
  <2>3. PICK g \in [Docs -> Int] : g = [e \in Docs |-> Counted(e, k)']
    BY <2>2
  <2>4. \A e \in Docs \ {d} : f[e] = g[e]
    BY <2>1, <2>3 DEF Counted
  <2>5. SumOver(g) = SumOver(f) - f[d] + g[d]
    <3>1. f \in [Docs -> Int] /\ g \in [Docs -> Int] /\ d \in Docs /\ IsFiniteSet(Docs)
      BY DocsAssumption
    <3> QED
      BY ONLY <2>4, <3>1, SumChanges
  <2>6. moved[k].qty = SumOver(f)
    BY <2>1 DEF MovesInv, PostedMovedOnce, Counted
  <2>7. f[d] = Counted(d, k) /\ g[d] = Counted(d, k)'
    BY <2>1, <2>3
  <2> QED
    BY <2>3, <2>5, <2>6, <2>7
<1> QED
  BY <1>2, <1>3, <1>4 DEF MovesInv

\* A request that ends and leaves the documents as they are.
LEMMA MovesStay ==
    ASSUME IInv, MovesInv, NEW r \in Requests, End(r), UNCHANGED <<doc, moved>>,
           \A d \in Docs : d \in overtaken' <=> d \in overtaken
    PROVE  MovesInv'
<1>1. OthersWait(r) /\ req'[r] = Idle /\ tx'[r] = NoTransaction
  BY EndDoes
<1>2. OwnsDocument(r)' /\ MovedSoFar(r)'
  <2>1. req'[r].op = None /\ ~Posting(r)'
    BY <1>1, NoneAssumption DEF Idle, Posting, Operations
  <2>2. MovedSoFar(r)'
    BY <1>1, <2>1 DEF MovedSoFar, NoTransaction, Empty
  <2> QED
    BY <2>1, <2>2, NoneAssumption DEF OwnsDocument, Operations
<1>3. ASSUME NEW q \in Requests \ {r} PROVE OwnsDocument(q)' /\ MovedSoFar(q)'
  <2>1. /\ req'[q] = req[q] /\ tx'[q] = tx[q] /\ locks'[q] = locks[q]
        /\ OwnsDocument(q) /\ MovedSoFar(q)
    BY <1>1 DEF OthersWait, MovesInv
  <2>2. MovedSoFar(q)'
    BY <2>1 DEF MovedSoFar, Posting, LineDone
  <2>3. req[q].op = "create" => \A p \in Requests \ {q} : req'[p].doc # req[q].doc
    BY <1>1, <2>1, DocsAssumption DEF OwnsDocument, OthersWait, Idle, IInv, Runs
  <2> QED
    BY <2>1, <2>2, <2>3 DEF OwnsDocument
<1>4. PostedMovedOnce' /\ OvertakenIsDeleted'
  BY DEF MovesInv, PostedMovedOnce, OvertakenIsDeleted
<1> QED
  BY <1>2, <1>3, <1>4 DEF MovesInv

\* A draft that is created counts for nothing, before and after.
LEMMA MovesCommitDraft ==
    ASSUME IInv, IInv', MovesInv, NEW r \in Requests, CommitDraft(r)
    PROVE  MovesInv'
<1>1. PICK d \in Docs : d = req[r].doc
  BY DEF CommitDraft, At, IInv, Runs
<1>2. /\ End(r) /\ req[r].op = "create" /\ UNCHANGED <<moved, overtaken>>
      /\ doc' = [doc EXCEPT ![d] = [status |-> "draft", body |-> req[r].body]]
  BY <1>1 DEF CommitDraft, At
<1>3. doc[d] = NoDocument /\ \A q \in Requests \ {r} : req[q].doc # d
  BY <1>1, <1>2 DEF MovesInv, OwnsDocument
<1>4. doc'[d].status = "draft" /\ \A e \in Docs \ {d} : doc'[e] = doc[e]
  BY <1>2 DEF IInv, TypeOK
<1>5. d \notin overtaken
  BY <1>3 DEF MovesInv, OvertakenIsDeleted, NoDocument
<1>6. OvertakenIsDeleted'
  BY <1>2, <1>4, <1>5 DEF MovesInv, OvertakenIsDeleted
<1>7. ASSUME NEW k \in Keys PROVE moved'[k].qty = moved[k].qty - Counted(d, k) + Counted(d, k)'
  <2>1. Counted(d, k) = 0 /\ Counted(d, k)' = 0
    BY <1>2, <1>3, <1>4, <1>5 DEF Counted, NoDocument
  <2>2. moved[k].qty \in Int
    BY DEF IInv, TypeOK, Change
  <2> QED
    BY <1>2, <2>1, <2>2
<1> QED
  BY <1>2, <1>3, <1>4, <1>6, <1>7, MovesEnd

\* A document that is posted was not posted before, and counts for what its
\* posting moved.
LEMMA MovesCommitPosted ==
    ASSUME IInv, IInv', SiteInv, MovesInv, NEW r \in Requests, CommitPosted(r)
    PROVE  MovesInv'
<1>1. PICK d \in Docs : d = req[r].doc
  BY DEF CommitPosted, At, Posting, IInv, Runs
<1>2. /\ End(r) /\ req[r].op \in {"create", "post"} /\ Posting(r) /\ req[r].step = "commit"
      /\ doc' = [doc EXCEPT ![d] = [status |-> "posted", body |-> req[r].body]]
      /\ \A k \in Keys : moved'[k] = Sum(moved[k], tx[r].net[k])
      /\ overtaken' = overtaken \/ overtaken' = overtaken \cup {"siteReq"}
  BY <1>1 DEF CommitPosted, At, Posting
<1>3. doc[d].status \in {"none", "draft"} /\ d \notin overtaken
  BY <1>1, <1>2 DEF MovesInv, OwnsDocument, OvertakenIsDeleted, NoDocument
<1>4. \A e \in Docs : e \in overtaken' <=> e \in overtaken
  BY <1>2, DocsAssumption
<1>5. /\ doc'[d].status = "posted" /\ doc'[d].body = req[r].body
      /\ \A e \in Docs \ {d} : doc'[e] = doc[e]
  BY <1>2 DEF IInv, TypeOK
<1>6. OvertakenIsDeleted'
  BY <1>3, <1>4, <1>5 DEF MovesInv, OvertakenIsDeleted
<1>7. ASSUME NEW q \in Requests \ {r},
             req[q].op = "create" \/ (req[q].op = "post" /\ req[q].step # "document")
      PROVE  req[q].doc # d
  <2>1. CASE req[q].op = "create"
    BY <1>1, <2>1 DEF MovesInv, OwnsDocument
  <2>2. CASE req[q].op = "post" /\ req[r].op = "create"
    BY <1>1, <2>2 DEF MovesInv, OwnsDocument
  <2>3. CASE req[q].op = "post" /\ req[r].op = "post"
    <3>1. DocRow(req[q].doc) \in locks[q] /\ DocRow(d) \in locks[r]
      BY <1>1, <1>2, <1>7, <2>3 DEF MovesInv, OwnsDocument
    <3> QED
      BY <3>1 DEF IInv, L!LocksExclusive
  <2> QED
    BY <1>2, <1>7, <2>1, <2>2, <2>3
<1>8. ASSUME NEW k \in Keys PROVE moved'[k].qty = moved[k].qty - Counted(d, k) + Counted(d, k)'
  <2>1. Counted(d, k) = 0 /\ Counted(d, k)' = QuantityOf(req[r].body, k)
    BY <1>3, <1>5 DEF Counted
  <2>2. tx[r].net[k].qty = QuantityOf(req[r].body, k)
    <3>1. tx[r].net[k].qty = SumOver([l \in DOMAIN req[r].body.lines |-> LineDone(r, l, k)])
      BY <1>2 DEF MovesInv, MovedSoFar
    <3> QED
      BY <1>2, <3>1, AllMoved
  <2>3. moved[k] \in Change /\ tx[r].net[k] \in Change
    BY DEF IInv, TypeOK, Transaction
  <2>4. moved[k].qty \in Int /\ tx[r].net[k].qty \in Int
    BY <2>3 DEF Change
  <2>5. moved'[k] = Sum(moved[k], tx[r].net[k])
    BY <1>2
  <2>6. moved'[k].qty = moved[k].qty + tx[r].net[k].qty
    BY <2>5 DEF Sum
  <2> QED
    BY <2>1, <2>2, <2>4, <2>6
<1>9. doc'[d].status # "none" /\ \A e \in Docs \ {d} : doc'[e] = doc[e] /\ (e \in overtaken' <=> e \in overtaken)
  BY <1>4, <1>5
<1> QED
  BY <1>2, <1>6, <1>7, <1>8, <1>9, MovesEnd

\* A posted document that is deleted still counts, from overtaken.
LEMMA MovesCommitRemove ==
    ASSUME IInv, IInv', MovesInv, NEW r \in Requests, CommitRemove(r)
    PROVE  MovesInv'
<1>1. PICK d \in Docs : d = req[r].doc
  BY DEF CommitRemove, At, IInv, Runs
<1>2. /\ End(r) /\ req[r].op = "remove" /\ moved' = moved /\ L!Available(r, DocRow(d))
      /\ doc' = [doc EXCEPT ![d].status = "deleted"]
      /\ overtaken' = IF doc[d].status \in {"deleted", req[r].was} THEN overtaken
                      ELSE overtaken \cup {d}
  BY <1>1 DEF CommitRemove, At
<1>3. req[r].was = "draft" /\ doc[d].status \in {"draft", "posted", "deleted"}
  BY <1>1, <1>2 DEF MovesInv, OwnsDocument, IInv, TypeOK, Document
<1>4. /\ doc'[d].status = "deleted" /\ doc'[d].body = doc[d].body
      /\ \A e \in Docs \ {d} : doc'[e] = doc[e] /\ (e \in overtaken' <=> e \in overtaken)
  BY <1>2 DEF IInv, TypeOK, Document
<1>5. d \in overtaken' <=> d \in overtaken \/ doc[d].status = "posted"
  BY <1>2, <1>3
<1>6. d \in overtaken => doc[d].status = "deleted"
  BY DEF MovesInv, OvertakenIsDeleted
<1>7. OvertakenIsDeleted'
  BY <1>4, <1>5 DEF MovesInv, OvertakenIsDeleted, IInv, DocumentsPost
<1>8. ASSUME NEW k \in Keys PROVE moved'[k].qty = moved[k].qty - Counted(d, k) + Counted(d, k)'
  <2>1. Counted(d, k)' = Counted(d, k)
    BY <1>4, <1>5 DEF Counted
  <2>2. moved[k].qty \in Int /\ Counted(d, k) \in Int
    BY CountedIsInt DEF IInv, TypeOK, Change
  <2> QED
    BY <1>2, <2>1, <2>2
<1>9. ASSUME NEW q \in Requests \ {r},
             req[q].op = "create" \/ (req[q].op = "post" /\ req[q].step # "document")
      PROVE  req[q].doc # d
  BY <1>1, <1>2, <1>9 DEF MovesInv, OwnsDocument, L!Available
<1>10. doc'[d].status # "none"
  BY <1>4
<1> QED
  BY <1>2, <1>4, <1>7, <1>8, <1>9, <1>10, MovesEnd

\* No document, no movement.
LEMMA InitMoves == Init => MovesInv
<1> SUFFICES ASSUME Init PROVE MovesInv
  OBVIOUS
<1>1. ASSUME NEW k \in Keys PROVE moved[k].qty = SumOver([d \in Docs |-> Counted(d, k)])
  <2>1. \A d \in Docs : Counted(d, k) = 0
    BY DEF Init, Counted, NoDocument
  <2> DEFINE f == [d \in Docs |-> Counted(d, k)]
  <2>2. f \in [Docs -> Int] /\ \A d \in Docs : f[d] = 0
    BY <2>1
  <2> HIDE DEF f
  <2>3. SumOver(f) = 0
    BY <2>2, DocsAssumption, SumOfZeros
  <2> QED
    BY <2>3 DEF f, Init, Empty
<1>2. PostedMovedOnce
  BY <1>1 DEF PostedMovedOnce, Counted
<1>3. OvertakenIsDeleted
  BY DEF Init, OvertakenIsDeleted
<1>4. ASSUME NEW r \in Requests PROVE OwnsDocument(r) /\ MovedSoFar(r)
  <2>1. req[r].op = None /\ ~Posting(r)
    BY NoneAssumption DEF Init, Idle, Posting, Operations
  <2>2. MovedSoFar(r)
    BY <2>1 DEF Init, MovedSoFar, NoTransaction, Empty
  <2> QED
    BY <2>1, <2>2, NoneAssumption DEF OwnsDocument, Operations
<1> QED
  BY <1>2, <1>3, <1>4 DEF MovesInv

\* Every step keeps the movements equal to what the posted documents say.
LEMMA NextMoves == IInv /\ IInv' /\ SiteInv /\ MovesInv /\ [Next]_vars => MovesInv'
<1> SUFFICES ASSUME IInv, IInv', SiteInv, MovesInv, [Next]_vars PROVE MovesInv'
  OBVIOUS
<1>1. ASSUME NEW r \in Requests, Start(r) PROVE MovesInv'
  BY <1>1, MovesBegin
<1>2. ASSUME NEW r \in Requests, Proceed(r) \/ Fail(r) PROVE MovesInv'
  <2>1. CASE Rollback(r)
    BY <2>1, MovesStay DEF Rollback, rows
  <2>2. CASE CommitDecide(r)
    <3>1. End(r) /\ UNCHANGED <<doc, moved>> /\ (overtaken' = overtaken \/ overtaken' = overtaken \cup {"siteReq"})
      BY <2>2 DEF CommitDecide
    <3>2. \A d \in Docs : d \in overtaken' <=> d \in overtaken
      BY <3>1, DocsAssumption
    <3> QED
      BY <3>1, <3>2, MovesStay
  <2> QED
    BY <1>2, <2>1, <2>2, MovesProceed, MovesCommitDraft, MovesCommitPosted, MovesCommitRemove
       DEF Proceed, Refuse, Fail
<1>3. CASE UNCHANGED vars
  <2>1. PostedMovedOnce' /\ OvertakenIsDeleted'
    BY <1>3 DEF vars, rows, MovesInv, PostedMovedOnce, OvertakenIsDeleted
  <2>2. ASSUME NEW r \in Requests PROVE OwnsDocument(r)' /\ MovedSoFar(r)'
    <3>1. OwnsDocument(r)'
      BY <1>3 DEF vars, rows, MovesInv, OwnsDocument
    <3>2. MovedSoFar(r)'
      BY <1>3 DEF vars, MovesInv, MovedSoFar, Posting, LineDone
    <3> QED
      BY <3>1, <3>2
  <2> QED
    BY <2>1, <2>2 DEF MovesInv
<1> QED
  BY <1>1, <1>2, <1>3 DEF Next

\* Every posted document moved its stock once and completely, whatever requests
\* posted or removed it at the same time: postIn locks the document's row and
\* looks at its status again.
THEOREM MovedOnce == Spec => []PostedMovedOnce
<1>1. MovesInv => PostedMovedOnce
  BY DEF MovesInv
<1>2. Init => SiteInv /\ MovesInv
  BY InitSite, InitMoves
<1>3. IInv /\ IInv' /\ SiteInv /\ MovesInv /\ [Next]_vars => (SiteInv /\ MovesInv)'
  BY NextSite, NextMoves
<1>4. Spec => [](SiteInv /\ MovesInv)
  BY <1>2, <1>3, Invariance, PTL DEF Spec
<1> QED
  BY <1>1, <1>4, PTL

================================================================================
