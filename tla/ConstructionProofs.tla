--------------------------- MODULE ConstructionProofs ---------------------------
(***************************************************************************)
(* What Construction promises, for any number of items, bills and          *)
(* requests, any quantities, and any advance.                              *)
(*                                                                         *)
(* IInv says what a running request has read and may still rely on, which  *)
(* rows it holds for that, and that a project has one draft.  Each promise *)
(* is then proved from it and the few steps that write what it is about.   *)
(***************************************************************************)
EXTENDS Construction, SumTheorems, SequenceTheorems

-------------------------------------------------------------------------------
(* The invariant                                                           *)

\* What the approved bills measure of an item.
Booking(i) == [b \in RaBills |-> IF ra[b].status = "approved" THEN QtyOf(ra[b].lines, i) ELSE 0]

Booked == \A i \in Items : boq[i].executed = SumOver(Booking(i))

BillSound(b) == IF ra[b].status = "none" THEN ra[b] = NoBill ELSE Measure(ra[b].lines, Items)

RowsSound ==
    /\ \A b \in RaBills : BillSound(b)
    /\ \A s \in SubBills : Measure(sub[s], WorkLines)

OneDraft == \A b, c \in RaBills : ra[b].status = "draft" /\ ra[c].status = "draft" => b = c

NoDraft == \A b \in RaBills : ra[b].status # "draft"

\* What a request of each kind has, and what of it still holds: of a fresh one,
\* also what it had checked without a lock.
Creates(q) ==
    /\ q.step \in {"project", "advance", "commit"}
    /\ q.on \in RaBills /\ ra[q.on] = NoBill
    /\ Measure(q.lines, Items)
    /\ q.step # "project" => NoDraft

Approves(q) ==
    /\ q.step \in {"bill", "journal", "commit"}
    /\ q.on \in RaBills /\ ra[q.on] # NoBill
    /\ q.step # "bill" => ra[q.on].status = "draft"
    /\ q.step # "bill" /\ q.fresh => WithinEach(ra[q.on].lines)

Cancels(q) ==
    /\ q.step \in {"bill", "journal", "commit"}
    /\ q.on \in RaBills /\ ra[q.on] # NoBill
    /\ q.step # "bill" => q.was \in {"draft", "approved"} /\ ra[q.on].status = q.was
    /\ q.step # "bill" /\ q.was = "approved" /\ q.fresh => Latest(q.on) /\ ~invoice[q.on].paid

Saves(q) ==
    /\ q.step = "commit" /\ q.on \in Items
    /\ q.fresh => q.num >= boq[q.on].executed

MeasuresWork(q) ==
    /\ q.step \in {"order", "journal", "commit"}
    /\ q.on \in SubBills /\ sub[q.on] = <<>>
    /\ Measure(q.lines, WorkLines)
    /\ q.step # "order" => Measurable(q.lines)

Runs(q) ==
    /\ q.op = None => q.step = "idle"
    /\ q.op = "create" => Creates(q)
    /\ q.op = "approve" => Approves(q)
    /\ q.op = "cancel" => Cancels(q)
    /\ q.op = "save" => Saves(q)
    /\ q.op = "measure" => MeasuresWork(q)

\* It holds the rows that it relies on.
Holds(r) ==
    /\ req[r].op = "create" /\ req[r].step # "project" => "project" \in locks[r]
    /\ req[r].op \in {"approve", "cancel"} /\ req[r].step # "bill" => req[r].on \in locks[r]
    /\ req[r].op = "measure" /\ req[r].step # "order" => "work_order" \in locks[r]

\* Two requests never create the same row.
SameRow(p, q) == p.op = q.op /\ p.op \in {"create", "measure"} /\ p.on = q.on

OwnRows == \A q, r \in Requests : SameRow(req[q], req[r]) => q = r

RequestsSound == \A r \in Requests : Runs(req[r]) /\ Holds(r)

IInv == /\ TypeOK /\ L!LocksExclusive /\ RowsSound /\ OneDraft /\ Booked
        /\ RequestsSound /\ OwnRows

-------------------------------------------------------------------------------
(* Lines                                                                   *)

\* Lines are numbered from 1.
LEMMA LinesAre ==
    ASSUME NEW lines \in Seq(Line)
    PROVE  /\ IsFiniteSet(DOMAIN lines)
           /\ \A n \in DOMAIN lines : /\ lines[n].of \in Items \cup WorkLines
                                      /\ lines[n].qty \in Nat \ {0}
<1>1. DOMAIN lines = 1 .. Len(lines) /\ Len(lines) \in Nat
  BY LenProperties
<1>2. \A n \in DOMAIN lines : lines[n] \in Line
  BY <1>1, ElementOfSeq
<1>3. IsFiniteSet(1 .. Len(lines))
  BY <1>1, FS_Interval
<1> QED
  BY <1>1, <1>2, <1>3 DEF Line

\* What lines measure is a natural number.
LEMMA QtyIsNat ==
    ASSUME NEW lines \in Seq(Line), NEW x
    PROVE  QtyOf(lines, x) \in Nat
<1>1. PICK f : f = [n \in DOMAIN lines |-> IF lines[n].of = x THEN lines[n].qty ELSE 0]
  OBVIOUS
<1>2. f \in [DOMAIN lines -> Nat] /\ IsFiniteSet(DOMAIN lines)
  BY <1>1, LinesAre
<1>3. SumOver(f) \in Nat
  BY <1>2, SumIsNat
<1> QED
  BY <1>1, <1>3 DEF QtyOf

\* And so is their gross amount.
LEMMA GrossIsNat ==
    ASSUME NEW lines \in Seq(Line)
    PROVE  Gross(lines) \in Nat
<1>1. PICK f : f = [n \in DOMAIN lines |-> lines[n].qty]
  OBVIOUS
<1>2. f \in [DOMAIN lines -> Nat] /\ IsFiniteSet(DOMAIN lines)
  BY <1>1, LinesAre
<1>3. SumOver(f) \in Nat
  BY <1>2, SumIsNat
<1> QED
  BY <1>1, <1>3 DEF Gross

\* No lines measure nothing, and name nothing twice.
LEMMA NoLinesMeasure ==
    ASSUME NEW x
    PROVE  <<>> \in Seq(Line) /\ QtyOf(<<>>, x) = 0 /\ ~Twice(<<>>, x) /\ Measure(<<>>, {})
<1>1. <<>> \in Seq(Line) /\ DOMAIN <<>> = {}
  BY EmptySeq, LenProperties
<1>2. PICK f : f = [n \in DOMAIN <<>> |-> IF <<>>[n].of = x THEN <<>>[n].qty ELSE 0]
  OBVIOUS
<1>3. SumOver(f) = 0
  BY <1>1, <1>2, SumOfNone
<1>4. {n \in DOMAIN <<>> : <<>>[n].of = x} = {}
  BY <1>1
<1>5. ~Twice(<<>>, x)
  BY <1>4, FS_EmptySet DEF Twice
<1> QED
  BY <1>1, <1>2, <1>3, <1>5 DEF QtyOf, Measure

\* Lines that name x at most once measure nothing of it, or what that line does.
LEMMA QtyOfOne ==
    ASSUME NEW lines \in Seq(Line), NEW x, ~Twice(lines, x)
    PROVE  \/ QtyOf(lines, x) = 0
           \/ \E n \in DOMAIN lines : lines[n].of = x /\ QtyOf(lines, x) = lines[n].qty
<1>1. PICK N : N = {n \in DOMAIN lines : lines[n].of = x}
  OBVIOUS
<1>2. PICK S : S = DOMAIN lines
  OBVIOUS
<1>3. PICK f : f = [n \in DOMAIN lines |-> IF lines[n].of = x THEN lines[n].qty ELSE 0]
  OBVIOUS
<1>4. IsFiniteSet(S) /\ \A n \in S : lines[n].qty \in Nat
  BY <1>2, LinesAre
<1>5. f \in [S -> Int] /\ QtyOf(lines, x) = SumOver(f)
  BY <1>2, <1>3, <1>4 DEF QtyOf
<1>6. N \in SUBSET S /\ IsFiniteSet(N)
  BY <1>1, <1>2, <1>4, FS_Subset
<1>7. Cardinality(N) \in Nat /\ Cardinality(N) <= 1
  <2>1. Cardinality(N) \in Nat
    BY <1>6, FS_CardinalityType
  <2> QED
    BY <1>1, <2>1 DEF Twice
<1>8. CASE Cardinality(N) = 0
  <2>1. N = {}
    BY <1>6, <1>8, FS_EmptySet
  <2>2. \A n \in S : f[n] = 0
    BY <1>1, <1>2, <1>3, <2>1
  <2> QED
    BY <1>4, <1>5, <2>2, SumOfZeros
<1>9. CASE Cardinality(N) = 1
  <2>1. PICK n : N = {n}
    BY <1>6, <1>9, FS_Singleton
  <2>2. n \in S /\ lines[n].of = x /\ f[n] = lines[n].qty /\ \A m \in S \ {n} : f[m] = 0
    BY <1>1, <1>2, <1>3, <2>1
  <2>3. PICK z : z = [m \in S |-> 0]
    OBVIOUS
  <2>4. z \in [S -> Int] /\ SumOver(z) = 0 /\ z[n] = 0 /\ \A m \in S \ {n} : z[m] = f[m]
    BY <1>4, <2>2, <2>3, SumOfZeros
  <2>5. SumOver(f) = SumOver(z) - z[n] + f[n]
    BY <1>4, <1>5, <2>2, <2>4, SumChanges
  <2> QED
    BY <1>2, <1>4, <1>5, <2>2, <2>4, <2>5
<1> QED
  BY <1>7, <1>8, <1>9

\* So when each line fits, they fit together.
LEMMA OneFits ==
    ASSUME NEW lines \in Seq(Line), NEW x, ~Twice(lines, x), NEW e \in Nat, NEW limit \in Nat,
           e <= limit,
           \A n \in DOMAIN lines : lines[n].of = x => e + lines[n].qty <= limit
    PROVE  e + QtyOf(lines, x) <= limit
BY QtyOfOne

-------------------------------------------------------------------------------
(* Amounts                                                                 *)

\* A share of a gross amount is a natural number.
LEMMA ShareIsNat ==
    ASSUME NEW gross \in Nat
    PROVE  Share(gross) \in Nat
<1>1. Percent \in Nat
  BY QuantitiesAssumption
<1>2. \A m, n \in Nat : m * n \in Nat
  BY SMT
<1>3. PICK a : a = 2 * gross * Percent
  OBVIOUS
<1>4. a \in Nat
  BY <1>1, <1>2, <1>3
<1>5. (a + 100) \div 200 \in Nat
  BY <1>4
<1> QED
  BY <1>3, <1>5 DEF Share

\* No more is recovered than is outstanding.
LEMMA RecoveryFits ==
    ASSUME NEW gross \in Nat, NEW outstanding \in Int
    PROVE  /\ Recovery(gross, outstanding) \in Nat
           /\ outstanding >= 0 => Recovery(gross, outstanding) <= outstanding
BY ShareIsNat DEF Recovery

\* The largest sequence number of the bills is a number.
LEMMA LargestIsNat ==
    ASSUME ra \in [RaBills -> RaBill]
    PROVE  Largest({ra[b].sequence : b \in RaBills}) \in Nat
<1> DEFINE Numbers(T) == {ra[b].sequence : b \in T}
           Tops(T) == {n \in Numbers(T) \cup {0} : \A m \in Numbers(T) : m <= n}
           Q == {T \in SUBSET RaBills : Tops(T) # {}}
<1>1. \A b \in RaBills : ra[b].sequence \in Nat
  BY DEF RaBill
<1>2. ASSUME NEW T \in SUBSET RaBills, \A b \in T : T \ {b} \in Q
      PROVE  T \in Q
  <2>1. CASE T = {}
    <3>1. 0 \in Tops(T)
      BY <2>1
    <3> QED
      BY <3>1
  <2>2. CASE T # {}
    <3>1. PICK b \in T : TRUE
      BY <2>2
    <3>2. PICK n : n \in Tops(T \ {b})
      BY <1>2, <3>1
    <3>3. n \in Nat /\ ra[b].sequence \in Nat
      BY <1>1, <3>1, <3>2
    <3>4. PICK m : m = IF n <= ra[b].sequence THEN ra[b].sequence ELSE n
      OBVIOUS
    <3>5. m \in Numbers(T) \cup {0}
      BY <3>1, <3>2, <3>4
    <3>6. ASSUME NEW c \in T PROVE ra[c].sequence <= m
      <4>1. c = b \/ ra[c].sequence <= n
        BY <3>2
      <4>2. ra[c].sequence \in Nat
        BY <1>1
      <4> QED
        BY <3>3, <3>4, <4>1, <4>2
    <3>7. m \in Tops(T)
      BY <3>5, <3>6
    <3> QED
      BY <3>7
  <2> QED
    BY <2>1, <2>2
<1>3. IsFiniteSet(RaBills)
  BY RowsAssumption
<1> HIDE DEF Q
<1>4. SUBSET RaBills \subseteq Q
  BY <1>2, <1>3, SubsetInduction
<1>5. PICK n : n \in Tops(RaBills)
  BY <1>4 DEF Q
<1>6. Largest(Numbers(RaBills)) \in Numbers(RaBills) \cup {0}
  BY <1>5 DEF Largest
<1> QED
  BY <1>1, <1>6
-------------------------------------------------------------------------------
(* Row locks and the requests that take no part in a step                  *)

\* An idle request is one of its type, and relies on nothing.
LEMMA IdleTyped ==
    Idle \in Request /\ Idle.op = None /\ Idle.step = "idle" /\ None \notin Operations
<1>1. <<>> \in Seq(Line)
  BY EmptySeq
<1>2. [i \in Items |-> 0] \in [Items -> Nat]
  OBVIOUS
<1> QED
  BY <1>1, <1>2, NoneAssumption DEF Idle, Request, Steps

\* A bill that is not there yet has its type.
LEMMA NoBillTyped == NoBill \in RaBill /\ NoBill.status = "none" /\ NoBill.lines = <<>>
<1>1. <<>> \in Seq(Line)
  BY EmptySeq
<1>2. [i \in Items |-> 0] \in [Items -> Nat]
  OBVIOUS
<1> QED
  BY <1>1, <1>2 DEF NoBill, RaBill

\* A row that is free is locked for one request.
LEMMA LockKeeps ==
    ASSUME TypeOK, L!LocksExclusive, NEW r \in Requests,
           NEW row \in RaBills \cup {"project", "work_order", "journal"}, L!Lock(r, row)
    PROVE  /\ L!LocksTypeOK' /\ L!LocksExclusive'
           /\ locks'[r] = locks[r] \cup {row}
           /\ \A q \in Requests \ {r} : locks'[q] = locks[q]
BY DEF TypeOK, L!LocksTypeOK, L!LocksExclusive, L!Lock, L!Available

\* A transaction that ends releases its own rows.
LEMMA EndKeeps ==
    ASSUME TypeOK, L!LocksExclusive, NEW r \in Requests, L!EndTransaction(r)
    PROVE  /\ L!LocksTypeOK' /\ L!LocksExclusive'
           /\ \A q \in Requests \ {r} : locks'[q] = locks[q]
BY DEF TypeOK, L!LocksTypeOK, L!LocksExclusive, L!EndTransaction

\* Other locks stay what they are.
LEMMA LocksStay ==
    ASSUME TypeOK, L!LocksExclusive, UNCHANGED locks
    PROVE  L!LocksTypeOK' /\ L!LocksExclusive'
BY DEF TypeOK, L!LocksTypeOK, L!LocksExclusive

\* Request q is what p was, but may have become overtaken.
SameButFresh(p, q) ==
    /\ q.op = p.op /\ q.step = p.step /\ q.on = p.on /\ q.lines = p.lines
    /\ q.previous = p.previous /\ q.was = p.was /\ q.num = p.num /\ q.recovery = p.recovery
    /\ q.fresh => p.fresh

\* What r's end makes of the requests.
LEMMA EndDoes ==
    ASSUME TypeOK, NEW r \in Requests, NEW S, End(r, S)
    PROVE  /\ req' \in [Requests -> Request] /\ req'[r] = Idle
           /\ \A q \in Requests \ {r} : /\ SameButFresh(req[q], req'[q])
                                        /\ req'[q].fresh => q \notin S
<1>1. req \in [Requests -> Request]
  BY DEF TypeOK
<1>2. req' = [q \in Requests |-> IF q = r THEN Idle
                                 ELSE [req[q] EXCEPT !.fresh = @ /\ q \notin S]]
  BY DEF End
<1>3. req'[r] = Idle
  BY <1>2
<1>4. ASSUME NEW q \in Requests \ {r}
      PROVE  /\ req'[q] \in Request /\ SameButFresh(req[q], req'[q])
             /\ req'[q].fresh => q \notin S
  <2>1. PICK p : p = req[q]
    OBVIOUS
  <2>2. PICK fresh \in BOOLEAN : fresh = (p.fresh /\ q \notin S)
    OBVIOUS
  <2>3. PICK x : x = [p EXCEPT !.fresh = fresh]
    OBVIOUS
  <2>4. req'[q] = x
    BY <1>2, <2>1, <2>2, <2>3
  <2>5. p \in Request
    BY <1>1, <2>1
  <2>6. x \in Request /\ x.fresh = fresh
    BY <2>3, <2>5 DEF Request
  <2>7. SameButFresh(p, x)
    BY <2>2, <2>3, <2>5, <2>6 DEF Request, SameButFresh
  <2> QED
    BY <2>1, <2>2, <2>4, <2>6, <2>7
<1> QED
  BY <1>2, <1>3, <1>4, IdleTyped

\* What request q relies on stays as it is, if q is to be as fresh as before.
StaysFor(q) ==
    /\ \A b \in RaBills : ra[b] # NoBill => ra'[b] # NoBill
    /\ req[q].op = "create" => ra'[req[q].on] = ra[req[q].on]
    /\ req[q].op = "create" /\ req[q].step # "project" =>
           \A b \in RaBills : ra'[b].status = "draft" => ra[b].status = "draft"
    /\ req[q].op \in {"approve", "cancel"} /\ req[q].step # "bill" =>
           ra'[req[q].on] = ra[req[q].on]
    /\ req[q].op = "approve" /\ req[q].step # "bill" /\ req'[q].fresh =>
           \A i \in Items : boq'[i].executed <= boq[i].executed /\ boq[i].qty <= boq'[i].qty
    /\ req[q].op = "cancel" /\ req[q].step # "bill" /\ req'[q].fresh =>
           \A b \in RaBills : ra'[b].status = "approved" =>
               ra[b].status = "approved" /\ ra'[b].sequence = ra[b].sequence
    /\ req[q].op = "cancel" /\ req[q].step # "bill" /\ req'[q].fresh =>
           (invoice'[req[q].on].paid => invoice[req[q].on].paid)
    /\ req[q].op = "save" /\ req'[q].fresh =>
           \A i \in Items : boq'[i].executed <= boq[i].executed
    /\ req[q].op = "measure" => sub'[req[q].on] = sub[req[q].on]
    /\ req[q].op = "measure" /\ req[q].step # "order" => executed' = executed

\* A request that only looks on keeps what it has.
LEMMA Bystander ==
    ASSUME IInv, boq' \in [Items -> BoqItem], NEW q \in Requests,
           SameButFresh(req[q], req'[q]), locks'[q] = locks[q], StaysFor(q)
    PROVE  Runs(req[q])' /\ Holds(q)'
<1>1. Runs(req[q]) /\ Holds(q) /\ RowsSound /\ req[q] \in Request
  BY DEF IInv, RequestsSound, TypeOK
<1>2. PICK p : p = req[q]
  OBVIOUS
<1>3. PICK x : x = req'[q]
  OBVIOUS
<1>4. x.op = p.op /\ x.step = p.step /\ x.on = p.on /\ x.lines = p.lines /\ x.was = p.was
      /\ x.num = p.num /\ (x.fresh => p.fresh)
  BY <1>2, <1>3 DEF SameButFresh
<1>5. \A i \in Items : /\ boq[i].qty \in Nat /\ boq[i].executed \in Nat
                       /\ boq'[i].qty \in Nat /\ boq'[i].executed \in Nat
  BY DEF IInv, TypeOK, BoqItem
<1>6. \A b \in RaBills : ra[b] # NoBill => ra'[b] # NoBill
  BY DEF StaysFor
<1>7. ASSUME p.op = "create" PROVE Creates(x)'
  <2>1. Creates(p)
    BY <1>1, <1>2, <1>7 DEF Runs
  <2>2. ra'[p.on] = NoBill
    BY <1>2, <1>7, <2>1 DEF Creates, StaysFor
  <2>3. p.step # "project" => NoDraft'
    BY <1>2, <1>7, <2>1 DEF Creates, StaysFor, NoDraft
  <2> QED
    BY <1>4, <2>1, <2>2, <2>3 DEF Creates
<1>8. ASSUME p.op = "approve" PROVE Approves(x)'
  <2>1. Approves(p)
    BY <1>1, <1>2, <1>8 DEF Runs
  <2>2. p.step # "bill" => ra'[p.on] = ra[p.on]
    BY <1>2, <1>8 DEF StaysFor
  <2>3. ASSUME p.step # "bill", x.fresh PROVE WithinEach(ra[p.on].lines)'
    <3>1. PICK lines : lines = ra[p.on].lines
      OBVIOUS
    <3>2. WithinEach(lines) /\ Measure(lines, Items) /\ lines \in Seq(Line)
      BY <1>1, <1>4, <2>1, <2>3, <3>1 DEF Approves, RowsSound, BillSound, IInv, TypeOK, RaBill
    <3>3. \A i \in Items : boq'[i].executed <= boq[i].executed /\ boq[i].qty <= boq'[i].qty
      BY <1>2, <1>3, <1>8, <2>3 DEF StaysFor
    <3>4. \A n \in DOMAIN lines : lines[n].of \in Items /\ lines[n].qty \in Nat
      BY <3>2, LinesAre DEF Measure
    <3>5. \A n \in DOMAIN lines :
            boq'[lines[n].of].executed + lines[n].qty <= boq'[lines[n].of].qty
      <4> SUFFICES ASSUME NEW n \in DOMAIN lines
                   PROVE  boq'[lines[n].of].executed + lines[n].qty <= boq'[lines[n].of].qty
        OBVIOUS
      <4>1. PICK i \in Items : i = lines[n].of
        BY <3>4
      <4>2. boq[i].executed + lines[n].qty <= boq[i].qty
        BY <3>2, <4>1 DEF WithinEach
      <4>3. boq'[i].executed <= boq[i].executed /\ boq[i].qty <= boq'[i].qty
        BY <3>3
      <4> QED
        BY <1>5, <3>4, <4>1, <4>2, <4>3
    <3> QED
      BY <2>2, <2>3, <3>1, <3>5 DEF WithinEach
  <2> QED
    BY <1>4, <1>6, <2>1, <2>2, <2>3 DEF Approves
<1>9. ASSUME p.op = "cancel" PROVE Cancels(x)'
  <2>1. Cancels(p)
    BY <1>1, <1>2, <1>9 DEF Runs
  <2>2. p.step # "bill" => ra'[p.on] = ra[p.on]
    BY <1>2, <1>9 DEF StaysFor
  <2>3. ASSUME p.step # "bill", p.was = "approved", x.fresh
        PROVE  Latest(p.on)' /\ ~invoice'[p.on].paid
    <3>1. Latest(p.on) /\ ~invoice[p.on].paid
      BY <1>4, <2>1, <2>3 DEF Cancels
    <3>2. \A b \in RaBills : ra'[b].status = "approved" =>
              ra[b].status = "approved" /\ ra'[b].sequence = ra[b].sequence
      BY <1>2, <1>3, <1>9, <2>3 DEF StaysFor
    <3>3. invoice'[p.on].paid => invoice[p.on].paid
      BY <1>2, <1>3, <1>9, <2>3 DEF StaysFor
    <3> QED
      BY <2>2, <2>3, <3>1, <3>2, <3>3 DEF Latest, Are
  <2> QED
    BY <1>4, <1>6, <2>1, <2>2, <2>3 DEF Cancels
<1>10. ASSUME p.op = "save" PROVE Saves(x)'
  <2>1. Saves(p) /\ p.num \in Nat
    BY <1>1, <1>2, <1>10 DEF Runs, Request
  <2>2. x.fresh => boq'[p.on].executed <= boq[p.on].executed
    BY <1>2, <1>3, <1>10, <2>1 DEF StaysFor, Saves
  <2> QED
    BY <1>4, <1>5, <2>1, <2>2 DEF Saves
<1>11. ASSUME p.op = "measure" PROVE MeasuresWork(x)'
  <2>1. MeasuresWork(p)
    BY <1>1, <1>2, <1>11 DEF Runs
  <2>2. sub'[p.on] = sub[p.on] /\ (p.step # "order" => executed' = executed)
    BY <1>2, <1>11 DEF StaysFor
  <2> QED
    BY <1>4, <2>1, <2>2 DEF MeasuresWork, Measurable
<1>12. Runs(x)'
  BY <1>1, <1>2, <1>4, <1>7, <1>8, <1>9, <1>10, <1>11 DEF Runs
<1>13. Holds(q)'
  BY <1>1, <1>2, <1>3, <1>4 DEF Holds
<1> QED
  BY <1>3, <1>12, <1>13

\* Which requests are after the same row does not depend on how fresh they are.
LEMMA OnlyOwn ==
    ASSUME OwnRows, NEW r \in Requests, NEW q, q.op = req[r].op, q.on = req[r].on
    PROVE  \A p \in Requests : SameRow(q, req[p]) => p = r
BY DEF OwnRows, SameRow

\* A step of r that writes no row.
LEMMA WorkStep ==
    ASSUME IInv, NEW r \in Requests, UNCHANGED rows, NEW q \in Request,
           req' = [req EXCEPT ![r] = q], Runs(q), Holds(r)',
           \A p \in Requests : SameRow(q, req[p]) => p = r,
           L!LocksTypeOK', L!LocksExclusive',
           \A p \in Requests \ {r} : locks'[p] = locks[p]
    PROVE  IInv'
<1>1. req \in [Requests -> Request] /\ boq \in [Items -> BoqItem]
  BY DEF IInv, TypeOK
<1>2. /\ req' \in [Requests -> Request] /\ req'[r] = q
      /\ \A p \in Requests \ {r} : req'[p] = req[p]
  BY <1>1
<1>3. TypeOK'
  BY <1>2 DEF IInv, TypeOK, rows
<1>4. RowsSound' /\ OneDraft'
  BY DEF IInv, RowsSound, OneDraft, BillSound, rows
<1>5. Booked'
  <2>1. ra' = ra /\ boq' = boq
    BY DEF rows
  <2>2. \A i : Booking(i)' = Booking(i)
    BY <2>1 DEF Booking
  <2> QED
    BY <2>1, <2>2 DEF IInv, Booked
<1>6. ASSUME NEW p \in Requests \ {r} PROVE Runs(req[p])' /\ Holds(p)'
  <2>1. \A i \in Items : boq[i].qty \in Nat /\ boq[i].executed \in Nat
    BY <1>1 DEF BoqItem
  <2>2. StaysFor(p)
    BY <2>1 DEF StaysFor, rows
  <2>3. SameButFresh(req[p], req'[p])
    BY <1>2 DEF SameButFresh
  <2>4. boq' \in [Items -> BoqItem] /\ locks'[p] = locks[p] /\ p \in Requests
    BY <1>1 DEF rows
  <2> QED
    BY <2>2, <2>3, <2>4, Bystander
<1>7. Runs(req[r])'
  BY <1>2 DEF Runs, Creates, Approves, Cancels, Saves, MeasuresWork, NoDraft, WithinEach, Latest,
              Are, Measurable, rows
<1>8. OwnRows'
  <2> SUFFICES ASSUME NEW p \in Requests, NEW s \in Requests, SameRow(req'[p], req'[s])
               PROVE  p = s
    BY DEF OwnRows
  <2>1. \A x, y : SameRow(x, y) => SameRow(y, x)
    BY DEF SameRow
  <2> QED
    BY <1>2, <2>1 DEF IInv, OwnRows
<1> QED
  BY <1>3, <1>4, <1>5, <1>6, <1>7, <1>8 DEF IInv, RequestsSound

\* The end of a request, with what it writes to the rows.
LEMMA EndStep ==
    ASSUME IInv, NEW r \in Requests, NEW S, End(r, S),
           RowsSound', OneDraft', Booked',
           boq' \in [Items -> BoqItem], ra' \in [RaBills -> RaBill],
           invoice' \in [RaBills -> Invoice], executed' \in [WorkLines -> Nat],
           sub' \in [SubBills -> Seq(Line)], overtaken' \subseteq RaBills \cup Items,
           \A q \in Requests \ {r} : StaysFor(q)
    PROVE  IInv'
<1>1. TypeOK /\ L!LocksExclusive /\ OwnRows /\ L!EndTransaction(r)
  BY DEF IInv, End
<1>2. /\ req' \in [Requests -> Request] /\ req'[r] = Idle
      /\ \A p \in Requests \ {r} : SameButFresh(req[p], req'[p])
  BY <1>1, EndDoes
<1>3. L!LocksTypeOK' /\ L!LocksExclusive' /\ \A p \in Requests \ {r} : locks'[p] = locks[p]
  BY <1>1, EndKeeps
<1>4. TypeOK'
  BY <1>2, <1>3 DEF TypeOK
<1>5. ASSUME NEW p \in Requests \ {r} PROVE Runs(req[p])' /\ Holds(p)'
  <2>1. SameButFresh(req[p], req'[p]) /\ locks'[p] = locks[p] /\ StaysFor(p) /\ p \in Requests
    BY <1>2, <1>3
  <2> QED
    BY <2>1, Bystander
<1>6. Runs(req[r])' /\ Holds(r)'
  BY <1>2, IdleTyped DEF Runs, Holds, Operations
<1>7. OwnRows'
  <2> SUFFICES ASSUME NEW p \in Requests, NEW s \in Requests, SameRow(req'[p], req'[s])
               PROVE  p = s
    BY DEF OwnRows
  <2>1. \A x : ~SameRow(Idle, x) /\ ~SameRow(x, Idle)
    BY IdleTyped DEF SameRow, Operations
  <2>2. p # r /\ s # r
    BY <1>2, <2>1
  <2>3. SameRow(req[p], req[s])
    BY <1>2, <2>2 DEF SameButFresh, SameRow
  <2> QED
    BY <1>1, <2>3 DEF OwnRows
<1> QED
  BY <1>3, <1>4, <1>5, <1>6, <1>7 DEF IInv, RequestsSound

-------------------------------------------------------------------------------
(* A request begins                                                        *)

\* A request that begins has checked nothing, and holds nothing.
LEMMA BeginStep ==
    ASSUME IInv, NEW r \in Requests, NEW q \in Request, q.op \in Operations,
           req' = [req EXCEPT ![r] = q], UNCHANGED <<rows, locks>>, Runs(q),
           q.op = "create" => q.step = "project",
           q.op \in {"approve", "cancel"} => q.step = "bill",
           q.op = "measure" => q.step = "order",
           \A p \in Requests : SameRow(q, req[p]) => p = r
    PROVE  IInv'
<1>1. TypeOK /\ L!LocksExclusive /\ UNCHANGED rows /\ UNCHANGED locks
  BY DEF IInv
<1>2. req'[r] = q
  BY <1>1 DEF TypeOK
<1>3. Holds(r)'
  BY <1>2 DEF Holds
<1>4. L!LocksTypeOK' /\ L!LocksExclusive'
  BY <1>1, LocksStay
<1>5. \A p \in Requests \ {r} : locks'[p] = locks[p]
  BY <1>1
<1> QED
  BY <1>1, <1>3, <1>4, <1>5, WorkStep

\* A request that begins keeps the invariant.
LEMMA StartKeeps ==
    ASSUME IInv, NEW r \in Requests, Start(r)
    PROVE  IInv'
<1>1. TypeOK
  BY DEF IInv
<1>2. <<>> \in Seq(Line) /\ [i \in Items |-> 0] \in [Items -> Nat] /\ Measures \subseteq Seq(Line)
  BY EmptySeq, MeasuresAssumption
<1>3. None \notin Operations
  BY NoneAssumption
<1>4. ASSUME NEW b \in RaBills, NEW lines \in Measures, BeginCreate(r, b, lines)
      PROVE  IInv'
  <2>1. PICK q : q = [Idle EXCEPT !.step = "project", !.op = "create", !.on = b,
                                  !.lines = lines, !.num = 0]
    OBVIOUS
  <2>2. /\ req' = [req EXCEPT ![r] = q] /\ UNCHANGED <<rows, locks>>
        /\ ra[b] = NoBill /\ Measure(lines, Items) /\ \A p \in Requests : req[p].on # b
    BY <1>4, <2>1 DEF BeginCreate, Begin, Fresh
  <2>3. q.op = "create" /\ q.step = "project" /\ q.on = b /\ q.lines = lines
    BY <2>1 DEF Idle
  <2>4. q \in Request
    BY <1>2, <2>1 DEF Idle, Request, Steps, Operations
  <2>5. Runs(q)
    BY <1>3, <2>2, <2>3 DEF Runs, Creates, Operations
  <2>6. \A p \in Requests : ~SameRow(q, req[p])
    BY <2>2, <2>3 DEF SameRow
  <2>7. q.op \in Operations
    BY <2>3 DEF Operations
  <2> QED
    BY <2>2, <2>3, <2>4, <2>5, <2>6, <2>7, BeginStep
<1>5. ASSUME NEW b \in RaBills, NEW op \in {"approve", "cancel"}, ra[b] # NoBill,
             Begin(r, "bill", op, b, <<>>, 0)
      PROVE  IInv'
  <2>1. PICK q : q = [Idle EXCEPT !.step = "bill", !.op = op, !.on = b,
                                  !.lines = <<>>, !.num = 0]
    OBVIOUS
  <2>2. req' = [req EXCEPT ![r] = q] /\ UNCHANGED <<rows, locks>>
    BY <1>5, <2>1 DEF Begin
  <2>3. q.op = op /\ q.step = "bill" /\ q.on = b
    BY <2>1 DEF Idle
  <2>4. q \in Request
    BY <1>2, <2>1 DEF Idle, Request, Steps, Operations
  <2>5. Runs(q)
    BY <1>3, <1>5, <2>3 DEF Runs, Approves, Cancels, Operations
  <2>6. \A p \in Requests : ~SameRow(q, req[p])
    BY <2>3 DEF SameRow
  <2>7. q.op \in Operations
    BY <2>3 DEF Operations
  <2> QED
    BY <2>2, <2>3, <2>4, <2>5, <2>6, <2>7, BeginStep
<1>6. ASSUME NEW i \in Items, NEW qty \in Quantities, BeginSave(r, i, qty)
      PROVE  IInv'
  <2>1. PICK q : q = [Idle EXCEPT !.step = "commit", !.op = "save", !.on = i,
                                  !.lines = <<>>, !.num = qty]
    OBVIOUS
  <2>2. req' = [req EXCEPT ![r] = q] /\ UNCHANGED <<rows, locks>> /\ qty >= boq[i].executed
    BY <1>6, <2>1 DEF BeginSave, Begin
  <2>3. q.op = "save" /\ q.step = "commit" /\ q.on = i /\ q.num = qty
    BY <2>1 DEF Idle
  <2>4. q \in Request
    <3>1. qty \in Nat
      BY QuantitiesAssumption
    <3> QED
      BY <1>2, <2>1, <3>1 DEF Idle, Request, Steps, Operations
  <2>5. Runs(q)
    BY <1>3, <2>2, <2>3 DEF Runs, Saves, Operations
  <2>6. \A p \in Requests : ~SameRow(q, req[p])
    BY <2>3 DEF SameRow
  <2>7. q.op \in Operations
    BY <2>3 DEF Operations
  <2> QED
    BY <2>2, <2>3, <2>4, <2>5, <2>6, <2>7, BeginStep
<1>7. ASSUME NEW s \in SubBills, NEW lines \in Measures, BeginMeasure(r, s, lines)
      PROVE  IInv'
  <2>1. PICK q : q = [Idle EXCEPT !.step = "order", !.op = "measure", !.on = s,
                                  !.lines = lines, !.num = 0]
    OBVIOUS
  <2>2. /\ req' = [req EXCEPT ![r] = q] /\ UNCHANGED <<rows, locks>>
        /\ sub[s] = <<>> /\ Measure(lines, WorkLines) /\ \A p \in Requests : req[p].on # s
    BY <1>7, <2>1 DEF BeginMeasure, Begin, Fresh
  <2>3. q.op = "measure" /\ q.step = "order" /\ q.on = s /\ q.lines = lines
    BY <2>1 DEF Idle
  <2>4. q \in Request
    BY <1>2, <2>1 DEF Idle, Request, Steps, Operations
  <2>5. Runs(q)
    BY <1>3, <2>2, <2>3 DEF Runs, MeasuresWork, Operations
  <2>6. \A p \in Requests : ~SameRow(q, req[p])
    BY <2>2, <2>3 DEF SameRow
  <2>7. q.op \in Operations
    BY <2>3 DEF Operations
  <2> QED
    BY <2>2, <2>3, <2>4, <2>5, <2>6, <2>7, BeginStep
<1>8. ASSUME NEW b \in RaBills, BeginApprove(r, b) \/ BeginCancel(r, b)
      PROVE  IInv'
  BY <1>5, <1>8 DEF BeginApprove, BeginCancel
<1> QED
  BY <1>4, <1>6, <1>7, <1>8 DEF Start

-------------------------------------------------------------------------------
(* A request reads, checks and locks                                       *)

\* LockProject keeps the invariant.
LEMMA LockProjectKeeps ==
    ASSUME IInv, NEW r \in Requests, LockProject(r)
    PROVE  IInv'
<1>1. /\ req[r] \in Request /\ req \in [Requests -> Request] /\ Runs(req[r]) /\ OwnRows
      /\ TypeOK /\ L!LocksExclusive
  BY DEF IInv, TypeOK, RequestsSound
<1>2. PICK p : p = req[r]
  OBVIOUS
<1>3. PICK previous : previous = [i \in Items |-> boq[i].executed]
  OBVIOUS
<1>4. PICK q : q = [p EXCEPT !.step = "advance", !.previous = previous]
  OBVIOUS
<1>5. /\ p.op = "create" /\ p.step = "project" /\ L!Lock(r, "project")
      /\ Are("draft") = {} /\ UNCHANGED rows /\ req' = [req EXCEPT ![r] = q]
  BY <1>2, <1>3, <1>4 DEF LockProject, At
<1>6. p \in Request /\ previous \in [Items -> Nat] /\ "advance" \in Steps
  BY <1>1, <1>2, <1>3 DEF TypeOK, BoqItem, Steps
<1>7. q \in Request
  BY <1>4, <1>6 DEF Request
<1>8. q.step = "advance" /\ q.op = p.op /\ q.on = p.on /\ q.lines = p.lines
  BY <1>4, <1>6 DEF Request
<1>9. Creates(p) /\ NoDraft
  BY <1>1, <1>2, <1>5 DEF Runs, Are, NoDraft
<1>10. Runs(q)
  BY <1>5, <1>8, <1>9, NoneAssumption DEF Runs, Creates, Operations
<1>11. /\ L!LocksTypeOK' /\ L!LocksExclusive' /\ "project" \in locks'[r]
       /\ \A s \in Requests \ {r} : locks'[s] = locks[s]
  BY <1>1, <1>5, LockKeeps
<1>12. req'[r] = q
  BY <1>1, <1>5
<1>13. Holds(r)'
  BY <1>5, <1>8, <1>11, <1>12 DEF Holds
<1>14. \A s \in Requests : SameRow(q, req[s]) => s = r
  BY <1>1, <1>2, <1>8, OnlyOwn
<1> QED
  BY <1>5, <1>7, <1>10, <1>11, <1>13, <1>14, WorkStep

\* What is recovered so far is an integer.
LEMMA RecoveredIsInt ==
    ASSUME TypeOK
    PROVE  Recovered \in Int
<1>1. PICK S : S = Are("approved")
  OBVIOUS
<1>2. PICK f : f = [b \in S |-> ra[b].recovery]
  OBVIOUS
<1>3. S \subseteq RaBills /\ IsFiniteSet(S)
  BY <1>1, RowsAssumption, FS_Subset DEF Are
<1>4. f \in [S -> Int]
  BY <1>2, <1>3 DEF TypeOK, RaBill
<1>5. SumOver(f) \in Int
  BY <1>3, <1>4, SumIsInt
<1> QED
  BY <1>1, <1>2, <1>5 DEF Recovered

\* ReadAdvance keeps the invariant.
LEMMA ReadAdvanceKeeps ==
    ASSUME IInv, NEW r \in Requests, ReadAdvance(r)
    PROVE  IInv'
<1>1. /\ req[r] \in Request /\ req \in [Requests -> Request] /\ Runs(req[r]) /\ Holds(r)
      /\ OwnRows /\ TypeOK /\ L!LocksExclusive
  BY DEF IInv, TypeOK, RequestsSound
<1>2. PICK p : p = req[r]
  OBVIOUS
<1>3. PICK recovery : recovery = Recovery(Gross(p.lines), Advance - Recovered)
  OBVIOUS
<1>4. PICK num : num = Largest({ra[b].sequence : b \in RaBills}) + 1
  OBVIOUS
<1>5. PICK q : q = [p EXCEPT !.step = "commit", !.recovery = recovery, !.num = num]
  OBVIOUS
<1>6. /\ p.op = "create" /\ p.step = "advance"
      /\ UNCHANGED rows /\ UNCHANGED locks /\ req' = [req EXCEPT ![r] = q]
  BY <1>2, <1>3, <1>4, <1>5 DEF ReadAdvance, At
<1>7. p \in Request /\ "commit" \in Steps
  BY <1>1, <1>2 DEF Steps
<1>8. recovery \in Nat
  <2>1. p.lines \in Seq(Line)
    BY <1>7 DEF Request
  <2>2. Gross(p.lines) \in Nat
    BY <2>1, GrossIsNat
  <2>3. Advance - Recovered \in Int
    BY <1>1, RecoveredIsInt, QuantitiesAssumption
  <2> QED
    BY <1>3, <2>2, <2>3, RecoveryFits
<1>9. num \in Nat
  <2>1. Largest({ra[b].sequence : b \in RaBills}) \in Nat
    BY <1>1, LargestIsNat DEF TypeOK
  <2> QED
    BY <1>4, <2>1
<1>10. q \in Request
  BY <1>5, <1>7, <1>8, <1>9 DEF Request
<1>11. q.step = "commit" /\ q.op = p.op /\ q.on = p.on /\ q.lines = p.lines
  BY <1>5, <1>7 DEF Request
<1>12. Runs(q)
  BY <1>1, <1>2, <1>6, <1>11, NoneAssumption DEF Runs, Creates, Operations
<1>13. L!LocksTypeOK' /\ L!LocksExclusive' /\ \A s \in Requests \ {r} : locks'[s] = locks[s]
  BY <1>1, <1>6, LocksStay
<1>14. req'[r] = q
  BY <1>1, <1>6
<1>15. Holds(r)'
  BY <1>1, <1>2, <1>6, <1>11, <1>14 DEF Holds
<1>16. \A s \in Requests : SameRow(q, req[s]) => s = r
  BY <1>1, <1>2, <1>11, OnlyOwn
<1> QED
  BY <1>6, <1>10, <1>12, <1>13, <1>15, <1>16, WorkStep

\* LockBill keeps the invariant.
LEMMA LockBillKeeps ==
    ASSUME IInv, NEW r \in Requests, LockBill(r)
    PROVE  IInv'
<1>1. /\ req[r] \in Request /\ req \in [Requests -> Request] /\ Runs(req[r]) /\ OwnRows
      /\ TypeOK /\ L!LocksExclusive
  BY DEF IInv, TypeOK, RequestsSound
<1>2. PICK p : p = req[r]
  OBVIOUS
<1>3. PICK b : b = p.on
  OBVIOUS
<1>4. PICK step : step = IF p.op = "cancel" /\ p.step = "bill" /\ ra[b].status = "draft"
                         THEN "commit" ELSE "journal"
  OBVIOUS
<1>5. PICK was : was = ra[b].status
  OBVIOUS
<1>6. PICK q : q = [p EXCEPT !.step = step, !.was = was]
  OBVIOUS
<1>7. /\ p.op \in {"approve", "cancel"} /\ p.step = "bill" /\ L!Lock(r, b)
      /\ MayPass(r) /\ UNCHANGED rows /\ req' = [req EXCEPT ![r] = q]
  BY <1>2, <1>3, <1>4, <1>5, <1>6 DEF LockBill, At
<1>8. /\ p.op = "approve" => Approvable(b)
      /\ p.op = "cancel" => Cancellable(b)
  BY <1>2, <1>3, <1>7 DEF MayPass
<1>9. p \in Request /\ step \in Steps /\ step # "bill" /\ step \in {"journal", "commit"}
  BY <1>1, <1>2, <1>4 DEF Steps
<1>10. b \in RaBills /\ ra[b] # NoBill
  BY <1>1, <1>2, <1>3, <1>7 DEF Runs, Approves, Cancels
<1>11. was \in {"draft", "approved"}
  BY <1>5, <1>7, <1>8 DEF Approvable, Cancellable
<1>12. q \in Request
  BY <1>6, <1>9, <1>11 DEF Request
<1>13. q.step = step /\ q.op = p.op /\ q.on = b /\ q.was = was
  BY <1>3, <1>6, <1>9 DEF Request
<1>14. ASSUME p.op = "approve" PROVE Approves(q)
  BY <1>8, <1>9, <1>10, <1>13, <1>14 DEF Approves, Approvable
<1>15. ASSUME p.op = "cancel" PROVE Cancels(q)
  BY <1>5, <1>8, <1>9, <1>10, <1>11, <1>13, <1>15 DEF Cancels, Cancellable
<1>16. Runs(q)
  BY <1>7, <1>13, <1>14, <1>15, NoneAssumption DEF Runs, Operations
<1>17. /\ L!LocksTypeOK' /\ L!LocksExclusive' /\ locks'[r] = locks[r] \cup {b}
       /\ \A s \in Requests \ {r} : locks'[s] = locks[s]
  BY <1>1, <1>7, <1>10, LockKeeps
<1>18. req'[r] = q
  BY <1>1, <1>7
<1>19. Holds(r)'
  BY <1>7, <1>13, <1>17, <1>18 DEF Holds
<1>20. \A s \in Requests : SameRow(q, req[s]) => s = r
  BY <1>1, <1>2, <1>3, <1>13, OnlyOwn
<1> QED
  BY <1>7, <1>12, <1>16, <1>17, <1>19, <1>20, WorkStep

\* LockWorkOrder keeps the invariant.
LEMMA LockWorkOrderKeeps ==
    ASSUME IInv, NEW r \in Requests, LockWorkOrder(r)
    PROVE  IInv'
<1>1. /\ req[r] \in Request /\ req \in [Requests -> Request] /\ Runs(req[r]) /\ OwnRows
      /\ TypeOK /\ L!LocksExclusive
  BY DEF IInv, TypeOK, RequestsSound
<1>2. PICK p : p = req[r]
  OBVIOUS
<1>3. PICK q : q = [p EXCEPT !.step = "journal"]
  OBVIOUS
<1>4. /\ p.op = "measure" /\ p.step = "order" /\ L!Lock(r, "work_order")
      /\ Measurable(p.lines) /\ UNCHANGED rows /\ req' = [req EXCEPT ![r] = q]
  BY <1>2, <1>3 DEF LockWorkOrder, At
<1>5. p \in Request /\ "journal" \in Steps
  BY <1>1, <1>2 DEF Steps
<1>6. q \in Request
  BY <1>3, <1>5 DEF Request
<1>7. q.step = "journal" /\ q.op = p.op /\ q.on = p.on /\ q.lines = p.lines
  BY <1>3, <1>5 DEF Request
<1>8. Runs(q)
  BY <1>1, <1>2, <1>4, <1>7, NoneAssumption DEF Runs, MeasuresWork, Operations
<1>9. /\ L!LocksTypeOK' /\ L!LocksExclusive' /\ locks'[r] = locks[r] \cup {"work_order"}
      /\ \A s \in Requests \ {r} : locks'[s] = locks[s]
  BY <1>1, <1>4, LockKeeps
<1>10. req'[r] = q
  BY <1>1, <1>4
<1>11. Holds(r)'
  BY <1>4, <1>7, <1>9, <1>10 DEF Holds
<1>12. \A s \in Requests : SameRow(q, req[s]) => s = r
  BY <1>1, <1>2, <1>7, OnlyOwn
<1> QED
  BY <1>4, <1>6, <1>8, <1>9, <1>11, <1>12, WorkStep

\* TakeJournalNumber keeps the invariant.
LEMMA TakeJournalNumberKeeps ==
    ASSUME IInv, NEW r \in Requests, TakeJournalNumber(r)
    PROVE  IInv'
<1>1. /\ req[r] \in Request /\ req \in [Requests -> Request] /\ Runs(req[r]) /\ Holds(r)
      /\ OwnRows /\ TypeOK /\ L!LocksExclusive
  BY DEF IInv, TypeOK, RequestsSound
<1>2. PICK p : p = req[r]
  OBVIOUS
<1>3. PICK q : q = [p EXCEPT !.step = "commit"]
  OBVIOUS
<1>4. p.step = "journal" /\ L!Lock(r, "journal") /\ UNCHANGED rows /\ req' = [req EXCEPT ![r] = q]
  BY <1>2, <1>3 DEF TakeJournalNumber
<1>5. p \in Request /\ "commit" \in Steps
  BY <1>1, <1>2 DEF Steps
<1>6. q \in Request
  BY <1>3, <1>5 DEF Request
<1>7. /\ q.step = "commit" /\ q.op = p.op /\ q.on = p.on /\ q.lines = p.lines /\ q.was = p.was
      /\ q.fresh = p.fresh /\ q.num = p.num
  BY <1>3, <1>5 DEF Request
<1>8. p.op \in {"approve", "cancel", "measure"}
  <2>1. p.op \in Operations \cup {None}
    BY <1>5 DEF Request
  <2> QED
    BY <1>1, <1>2, <1>4, <2>1 DEF Operations, Runs, Creates, Saves
<1>9. Runs(q)
  BY <1>1, <1>2, <1>4, <1>7, <1>8, NoneAssumption
  DEF Runs, Approves, Cancels, MeasuresWork, Operations
<1>10. /\ L!LocksTypeOK' /\ L!LocksExclusive' /\ locks'[r] = locks[r] \cup {"journal"}
       /\ \A s \in Requests \ {r} : locks'[s] = locks[s]
  BY <1>1, <1>4, LockKeeps
<1>11. req'[r] = q
  BY <1>1, <1>4
<1>12. Holds(r)'
  BY <1>1, <1>2, <1>4, <1>7, <1>8, <1>10, <1>11 DEF Holds
<1>13. \A s \in Requests : SameRow(q, req[s]) => s = r
  BY <1>1, <1>2, <1>7, OnlyOwn
<1> QED
  BY <1>4, <1>6, <1>9, <1>10, <1>12, <1>13, WorkStep

\* A transaction that is rolled back leaves no trace.
LEMMA RollbackKeeps ==
    ASSUME IInv, NEW r \in Requests, End(r, {}), UNCHANGED rows
    PROVE  IInv'
<1>1. RowsSound' /\ OneDraft'
  BY DEF IInv, RowsSound, OneDraft, BillSound, rows
<1>2. Booked'
  <2>1. ra' = ra /\ boq' = boq
    BY DEF rows
  <2>2. \A i : Booking(i)' = Booking(i)
    BY <2>1 DEF Booking
  <2> QED
    BY <2>1, <2>2 DEF IInv, Booked
<1>3. \A i \in Items : boq[i].qty \in Nat /\ boq[i].executed \in Nat
  BY DEF IInv, TypeOK, BoqItem
<1>4. \A q \in Requests \ {r} : StaysFor(q)
  BY <1>3 DEF StaysFor, rows
<1>5. /\ boq' \in [Items -> BoqItem] /\ ra' \in [RaBills -> RaBill]
      /\ invoice' \in [RaBills -> Invoice] /\ executed' \in [WorkLines -> Nat]
      /\ sub' \in [SubBills -> Seq(Line)] /\ overtaken' \subseteq RaBills \cup Items
  BY DEF IInv, TypeOK, rows
<1> QED
  BY <1>1, <1>2, <1>4, <1>5, EndStep

-------------------------------------------------------------------------------
(* A request ends with a commit                                            *)

\* No two requests hold what they both need.
LEMMA HeldApart ==
    ASSUME IInv, NEW q \in Requests, NEW r \in Requests, q # r
    PROVE  /\ ~(/\ req[q].op = "create" /\ req[q].step # "project"
                /\ req[r].op = "create" /\ req[r].step # "project")
           /\ ~(/\ req[q].op = "measure" /\ req[q].step # "order"
                /\ req[r].op = "measure" /\ req[r].step # "order")
           /\ ~(/\ req[q].op \in {"approve", "cancel"} /\ req[q].step # "bill"
                /\ req[r].op \in {"approve", "cancel"} /\ req[r].step # "bill"
                /\ req[q].on = req[r].on)
           /\ ~SameRow(req[q], req[r])
<1>1. locks[q] \cap locks[r] = {} /\ Holds(q) /\ Holds(r)
  BY DEF IInv, L!LocksExclusive, RequestsSound
<1> QED
  BY <1>1 DEF Holds, IInv, OwnRows

\* What the bills that are approved measure is a function to the natural numbers.
LEMMA BookingTyped ==
    ASSUME ra \in [RaBills -> RaBill], NEW i
    PROVE  /\ Booking(i) \in [RaBills -> Nat]
           /\ \A b \in RaBills : QtyOf(ra[b].lines, i) \in Nat /\ ra[b].lines \in Seq(Line)
<1>1. \A b \in RaBills : ra[b].lines \in Seq(Line)
  BY DEF RaBill
<1>2. \A b \in RaBills : QtyOf(ra[b].lines, i) \in Nat
  BY <1>1, QtyIsNat
<1> QED
  BY <1>1, <1>2 DEF Booking

\* The quantities are numbers.
LEMMA BoqIsNat ==
    ASSUME boq \in [Items -> BoqItem]
    PROVE  \A i \in Items : boq[i].qty \in Nat /\ boq[i].executed \in Nat
BY DEF BoqItem

\* What a running bill's creation writes.
LEMMA CreateDoes ==
    ASSUME IInv, NEW r \in Requests, CommitCreate(r)
    PROVE  /\ req[r].op = "create" /\ req[r].step = "commit" /\ End(r, {})
           /\ req[r].on \in RaBills /\ ra[req[r].on] = NoBill /\ NoDraft
           /\ ra' \in [RaBills -> RaBill]
           /\ \A b \in RaBills : b # req[r].on => ra'[b] = ra[b]
           /\ ra'[req[r].on].status = "draft" /\ ra'[req[r].on].lines = req[r].lines
           /\ ra'[req[r].on].recovery = req[r].recovery
           /\ Measure(req[r].lines, Items)
           /\ UNCHANGED <<boq, invoice, executed, sub, overtaken>>
<1>1. /\ req[r] \in Request /\ Runs(req[r]) /\ ra \in [RaBills -> RaBill]
  BY DEF IInv, TypeOK, RequestsSound
<1>2. PICK p : p = req[r]
  OBVIOUS
<1>3. PICK x : x = [status |-> "draft", sequence |-> p.num, lines |-> p.lines,
                    previous |-> p.previous, recovery |-> p.recovery]
  OBVIOUS
<1>4. /\ p.op = "create" /\ p.step = "commit" /\ ra' = [ra EXCEPT ![p.on] = x]
      /\ End(r, {}) /\ UNCHANGED <<boq, invoice, executed, sub, overtaken>>
  BY <1>2, <1>3 DEF CommitCreate, At
<1>5. p.on \in RaBills /\ ra[p.on] = NoBill /\ NoDraft /\ Measure(p.lines, Items)
  BY <1>1, <1>2, <1>4 DEF Runs, Creates
<1>6. x \in RaBill /\ x.status = "draft" /\ x.lines = p.lines /\ x.recovery = p.recovery
  BY <1>1, <1>2, <1>3 DEF Request, RaBill
<1>7. ra'[p.on] = x /\ ra' \in [RaBills -> RaBill] /\ \A b \in RaBills : b # p.on => ra'[b] = ra[b]
  BY <1>1, <1>4, <1>5, <1>6
<1> QED
  BY <1>2, <1>4, <1>5, <1>6, <1>7

\* CommitCreate keeps the invariant.
LEMMA CommitCreateKeeps ==
    ASSUME IInv, NEW r \in Requests, CommitCreate(r)
    PROVE  IInv'
<1>1. TypeOK /\ RowsSound /\ Booked /\ OneDraft
  BY DEF IInv
<1>2. PICK b : b = req[r].on
  OBVIOUS
<1>3. /\ req[r].op = "create" /\ req[r].step = "commit" /\ End(r, {})
      /\ b \in RaBills /\ ra[b] = NoBill /\ NoDraft
      /\ ra' \in [RaBills -> RaBill]
      /\ \A c \in RaBills : c # b => ra'[c] = ra[c]
      /\ ra'[b].status = "draft" /\ ra'[b].lines = req[r].lines
      /\ Measure(req[r].lines, Items)
      /\ UNCHANGED <<boq, invoice, executed, sub, overtaken>>
  BY <1>2, CreateDoes
<1>4. RowsSound'
  BY <1>1, <1>3 DEF RowsSound, BillSound
<1>5. OneDraft'
  BY <1>3 DEF OneDraft, NoDraft
<1>6. Booked'
  <2>1. ASSUME NEW i PROVE Booking(i)' = Booking(i)
    BY <1>3, NoBillTyped DEF Booking
  <2> QED
    BY <1>1, <1>3, <2>1 DEF Booked
<1>7. ASSUME NEW q \in Requests \ {r} PROVE StaysFor(q)
  <2>1. /\ ~(req[q].op = "create" /\ req[q].step # "project")
        /\ ~SameRow(req[q], req[r])
    BY <1>3, HeldApart
  <2>2. Runs(req[q]) /\ req[q] \in Request
    BY DEF IInv, TypeOK, RequestsSound
  <2>3. req[q].op = "create" => req[q].on \in RaBills /\ req[q].on # b
    BY <1>2, <1>3, <2>1, <2>2 DEF Runs, Creates, SameRow
  <2>4. req[q].op \in {"approve", "cancel"} => req[q].on \in RaBills /\ req[q].on # b
    BY <1>3, <2>2 DEF Runs, Approves, Cancels
  <2>5. \A i \in Items : boq'[i].executed <= boq[i].executed /\ boq[i].qty <= boq'[i].qty
    BY <1>1, <1>3, BoqIsNat DEF TypeOK
  <2>6. \A c \in RaBills : ra[c] # NoBill => c # b
    BY <1>3
  <2> QED
    BY <1>3, <2>1, <2>3, <2>4, <2>5, <2>6 DEF StaysFor
<1>8. /\ boq' \in [Items -> BoqItem]
      /\ invoice' \in [RaBills -> Invoice] /\ executed' \in [WorkLines -> Nat]
      /\ sub' \in [SubBills -> Seq(Line)] /\ overtaken' \subseteq RaBills \cup Items
  BY <1>1, <1>3 DEF TypeOK
<1> QED
  BY <1>3, <1>4, <1>5, <1>6, <1>7, <1>8, EndStep

\* What an approval writes.
LEMMA ApproveDoes ==
    ASSUME IInv, NEW r \in Requests, CommitApprove(r)
    PROVE  /\ req[r].op = "approve" /\ req[r].step = "commit"
           /\ End(r, Past("cancel") \cup {q \in Requests : req[q].op = "save"})
           /\ req[r].on \in RaBills /\ ra[req[r].on].status = "draft"
           /\ req[r].fresh => WithinEach(ra[req[r].on].lines)
           /\ ra' \in [RaBills -> RaBill]
           /\ \A b \in RaBills : b # req[r].on => ra'[b] = ra[b]
           /\ ra'[req[r].on] = [ra[req[r].on] EXCEPT !.status = "approved"]
           /\ boq' \in [Items -> BoqItem]
           /\ \A i \in Items :
                  /\ boq'[i].qty = boq[i].qty
                  /\ boq'[i].executed = boq[i].executed + QtyOf(ra[req[r].on].lines, i)
           /\ Wrote(r)
           /\ invoice' \in [RaBills -> Invoice]
           /\ UNCHANGED <<executed, sub>>
<1>1. /\ req[r] \in Request /\ Runs(req[r]) /\ ra \in [RaBills -> RaBill]
      /\ boq \in [Items -> BoqItem] /\ invoice \in [RaBills -> Invoice]
  BY DEF IInv, TypeOK, RequestsSound
<1>2. PICK p : p = req[r]
  OBVIOUS
<1>3. PICK b : b = p.on
  OBVIOUS
<1>4. /\ p.op = "approve" /\ p.step = "commit" /\ ra' = [ra EXCEPT ![b].status = "approved"]
      /\ End(r, Past("cancel") \cup {q \in Requests : req[q].op = "save"})
      /\ boq' = Executed(b, 1) /\ invoice' = [invoice EXCEPT ![b].status = "posted"]
      /\ Wrote(r) /\ UNCHANGED <<executed, sub>>
  BY <1>2, <1>3 DEF CommitApprove, At
<1>5. b \in RaBills /\ ra[b].status = "draft" /\ (p.fresh => WithinEach(ra[b].lines))
  BY <1>1, <1>2, <1>3, <1>4 DEF Runs, Approves
<1>6. PICK x : x = [ra[b] EXCEPT !.status = "approved"]
  OBVIOUS
<1>7. x \in RaBill
  BY <1>1, <1>5, <1>6 DEF RaBill
<1>8. ra'[b] = x /\ ra' \in [RaBills -> RaBill] /\ \A c \in RaBills : c # b => ra'[c] = ra[c]
  BY <1>1, <1>4, <1>5, <1>6, <1>7
<1>9. invoice' \in [RaBills -> Invoice]
  <2>1. PICK y : y = [invoice[b] EXCEPT !.status = "posted"]
    OBVIOUS
  <2>2. y \in Invoice
    BY <1>1, <1>5, <2>1 DEF Invoice
  <2> QED
    BY <1>1, <1>4, <2>1, <2>2
<1>10. ASSUME NEW i \in Items
       PROVE  /\ boq'[i] \in BoqItem /\ boq'[i].qty = boq[i].qty
              /\ boq'[i].executed = boq[i].executed + QtyOf(ra[b].lines, i)
  <2>1. PICK n \in Nat : n = QtyOf(ra[b].lines, i)
    BY <1>1, <1>5, BookingTyped
  <2>2. PICK old \in BoqItem : old = boq[i]
    BY <1>1
  <2>3. PICK m : m = old.executed + 1 * n
    OBVIOUS
  <2>4. old.executed \in Nat
    BY DEF BoqItem
  <2>5. m \in Nat /\ m = old.executed + n
    BY <2>3, <2>4
  <2>6. PICK y : y = [old EXCEPT !.executed = m]
    OBVIOUS
  <2>7. y \in BoqItem /\ y.qty = old.qty /\ y.executed = m
    BY <2>5, <2>6 DEF BoqItem
  <2>8. boq'[i] = y
    BY <1>4, <2>1, <2>2, <2>3, <2>6 DEF Executed
  <2> QED
    BY <2>1, <2>2, <2>5, <2>7, <2>8
<1>11. boq' \in [Items -> BoqItem]
  BY <1>4, <1>10 DEF Executed
<1> QED
  BY <1>2, <1>3, <1>4, <1>5, <1>6, <1>8, <1>9, <1>10, <1>11

\* What a request overwrites is a bill or an item.
LEMMA WroteTyped ==
    ASSUME TypeOK, NEW r \in Requests, req[r].on \in RaBills \cup Items, Wrote(r)
    PROVE  overtaken' \subseteq RaBills \cup Items
BY DEF TypeOK, Wrote

\* CommitApprove keeps the invariant.
LEMMA CommitApproveKeeps ==
    ASSUME IInv, NEW r \in Requests, CommitApprove(r)
    PROVE  IInv'
<1>1. TypeOK /\ RowsSound /\ Booked /\ OneDraft
  BY DEF IInv
<1>2. PICK b : b = req[r].on
  OBVIOUS
<1>3. PICK S : S = Past("cancel") \cup {q \in Requests : req[q].op = "save"}
  OBVIOUS
<1>4. /\ req[r].op = "approve" /\ req[r].step = "commit" /\ End(r, S)
      /\ b \in RaBills /\ ra[b].status = "draft"
      /\ ra' \in [RaBills -> RaBill]
      /\ \A c \in RaBills : c # b => ra'[c] = ra[c]
      /\ ra'[b] = [ra[b] EXCEPT !.status = "approved"]
      /\ boq' \in [Items -> BoqItem]
      /\ Wrote(r) /\ invoice' \in [RaBills -> Invoice]
      /\ UNCHANGED <<executed, sub>>
  BY <1>2, <1>3, ApproveDoes
<1>5. /\ ra'[b].status = "approved" /\ ra'[b].lines = ra[b].lines /\ ra[b] # NoBill
      /\ ra'[b] # NoBill
  BY <1>1, <1>4, NoBillTyped DEF TypeOK, RaBill
<1>6. RowsSound'
  BY <1>1, <1>4, <1>5 DEF RowsSound, BillSound
<1>7. OneDraft'
  BY <1>1, <1>4, <1>5 DEF OneDraft
<1>8. ASSUME NEW i \in Items PROVE boq'[i].executed = SumOver(Booking(i)')
  <2>1. boq'[i].executed = boq[i].executed + QtyOf(ra[b].lines, i)
    BY <1>2, ApproveDoes
  <2>2. PICK f : f = Booking(i)
    OBVIOUS
  <2>3. PICK g : g = Booking(i)'
    OBVIOUS
  <2>4. f \in [RaBills -> Nat] /\ QtyOf(ra[b].lines, i) \in Nat
    BY <1>1, <1>4, <2>2, BookingTyped DEF TypeOK
  <2>5. f[b] = 0 /\ g[b] = QtyOf(ra[b].lines, i) /\ \A c \in RaBills \ {b} : f[c] = g[c]
    BY <1>4, <1>5, <2>2, <2>3 DEF Booking
  <2>6. g \in [RaBills -> Int] /\ f \in [RaBills -> Int]
    <3>1. \A c \in RaBills : g[c] \in Int
      BY <2>4, <2>5
    <3>2. DOMAIN g = RaBills /\ g = [c \in RaBills |-> g[c]]
      BY <2>3 DEF Booking
    <3> QED
      BY <2>4, <3>1, <3>2
  <2>7. SumOver(g) = SumOver(f) - f[b] + g[b]
    BY <1>4, <2>5, <2>6, SumChanges, RowsAssumption
  <2>8. SumOver(f) = boq[i].executed /\ boq[i].executed \in Nat
    BY <1>1, <2>2, BoqIsNat DEF Booked, TypeOK
  <2> QED
    BY <2>1, <2>3, <2>4, <2>5, <2>7, <2>8
<1>9. Booked'
  BY <1>8 DEF Booked
<1>10. ASSUME NEW q \in Requests \ {r} PROVE StaysFor(q)
  <2>1. /\ Runs(req[q]) /\ req[q] \in Request
        /\ req[q].op \in {"approve", "cancel"} /\ req[q].step # "bill" => req[q].on # b
    BY <1>2, <1>4, HeldApart DEF IInv, TypeOK, RequestsSound
  <2>2. req'[q].fresh => q \notin S
    BY <1>1, <1>4, EndDoes
  <2>3. req[q].op = "create" => req[q].on \in RaBills /\ req[q].on # b
    BY <1>5, <2>1 DEF Runs, Creates
  <2>4. req[q].op \in {"approve", "cancel"} => req[q].on \in RaBills
    BY <2>1 DEF Runs, Approves, Cancels
  <2>5. ~(req[q].op = "approve" /\ req[q].step # "bill")
    BY <1>1, <1>4, <2>1, <2>4 DEF Runs, Approves, OneDraft
  <2>6. req[q].op = "cancel" /\ req[q].step # "bill" => ~req'[q].fresh
    BY <1>3, <2>1, <2>2 DEF Runs, Cancels, Past
  <2>7. req[q].op = "save" => ~req'[q].fresh
    BY <1>3, <2>2
  <2>8. \A c \in RaBills : ra'[c].status = "draft" => ra[c].status = "draft"
    BY <1>4
  <2>9. \A c \in RaBills : ra[c] # NoBill => ra'[c] # NoBill
    BY <1>4, <1>5
  <2> QED
    BY <1>4, <2>1, <2>3, <2>4, <2>5, <2>6, <2>7, <2>8, <2>9 DEF StaysFor
<1>11. /\ executed' \in [WorkLines -> Nat]
       /\ sub' \in [SubBills -> Seq(Line)] /\ overtaken' \subseteq RaBills \cup Items
  BY <1>1, <1>2, <1>4, WroteTyped DEF TypeOK
<1> QED
  BY <1>4, <1>6, <1>7, <1>9, <1>10, <1>11, EndStep

\* What a cancellation writes.
LEMMA CancelDoes ==
    ASSUME IInv, NEW r \in Requests, CommitCancel(r)
    PROVE  /\ req[r].op = "cancel" /\ req[r].step = "commit" /\ End(r, {})
           /\ req[r].on \in RaBills /\ ra[req[r].on].status = req[r].was
           /\ req[r].was \in {"draft", "approved"}
           /\ req[r].was = "approved" /\ req[r].fresh =>
                  Latest(req[r].on) /\ ~invoice[req[r].on].paid
           /\ ra' \in [RaBills -> RaBill]
           /\ \A b \in RaBills : b # req[r].on => ra'[b] = ra[b]
           /\ ra'[req[r].on] = [ra[req[r].on] EXCEPT !.status = "cancelled"]
           /\ boq' \in [Items -> BoqItem]
           /\ \A i \in Items :
                  /\ boq'[i].qty = boq[i].qty
                  /\ req[r].was = "draft" => boq'[i].executed = boq[i].executed
                  /\ req[r].was = "approved" =>
                         boq'[i].executed = boq[i].executed - QtyOf(ra[req[r].on].lines, i)
           /\ Wrote(r)
           /\ invoice' \in [RaBills -> Invoice]
           /\ \A b \in RaBills : invoice'[b].paid = invoice[b].paid
           /\ UNCHANGED <<executed, sub>>
<1>1. /\ req[r] \in Request /\ Runs(req[r]) /\ ra \in [RaBills -> RaBill]
      /\ boq \in [Items -> BoqItem] /\ invoice \in [RaBills -> Invoice] /\ Booked
  BY DEF IInv, TypeOK, RequestsSound
<1>2. PICK p : p = req[r]
  OBVIOUS
<1>3. PICK b : b = p.on
  OBVIOUS
<1>4. /\ p.op = "cancel" /\ p.step = "commit" /\ ra' = [ra EXCEPT ![b].status = "cancelled"]
      /\ End(r, {}) /\ Wrote(r) /\ UNCHANGED <<executed, sub>>
      /\ p.was = "approved" =>
            boq' = Executed(b, -1) /\ invoice' = [invoice EXCEPT ![b].status = "cancelled"]
      /\ p.was # "approved" => UNCHANGED <<boq, invoice>>
  BY <1>2, <1>3 DEF CommitCancel, TakenBack, At
<1>5. /\ b \in RaBills /\ ra[b].status = p.was /\ p.was \in {"draft", "approved"}
      /\ p.was = "approved" /\ p.fresh => Latest(b) /\ ~invoice[b].paid
  BY <1>1, <1>2, <1>3, <1>4 DEF Runs, Cancels
<1>6. PICK x : x = [ra[b] EXCEPT !.status = "cancelled"]
  OBVIOUS
<1>7. x \in RaBill
  BY <1>1, <1>5, <1>6 DEF RaBill
<1>8. ra'[b] = x /\ ra' \in [RaBills -> RaBill] /\ \A c \in RaBills : c # b => ra'[c] = ra[c]
  BY <1>1, <1>4, <1>5, <1>6, <1>7
<1>9. invoice' \in [RaBills -> Invoice] /\ \A c \in RaBills : invoice'[c].paid = invoice[c].paid
  <2>1. PICK y : y = [invoice[b] EXCEPT !.status = "cancelled"]
    OBVIOUS
  <2>2. y \in Invoice /\ y.paid = invoice[b].paid
    BY <1>1, <1>5, <2>1 DEF Invoice
  <2>3. p.was = "approved" => invoice' = [invoice EXCEPT ![b] = y]
    BY <1>4, <2>1
  <2> QED
    BY <1>1, <1>4, <2>2, <2>3
<1>10. ASSUME NEW i \in Items, p.was = "approved"
       PROVE  /\ boq'[i] \in BoqItem /\ boq'[i].qty = boq[i].qty
              /\ boq'[i].executed = boq[i].executed - QtyOf(ra[b].lines, i)
  <2>1. PICK n \in Nat : n = QtyOf(ra[b].lines, i)
    BY <1>1, <1>5, BookingTyped
  <2>2. PICK old \in BoqItem : old = boq[i]
    BY <1>1
  <2>3. PICK m : m = old.executed + (-1) * n
    OBVIOUS
  <2>4. old.executed \in Nat
    BY DEF BoqItem
  <2>5. n <= old.executed
    <3>1. PICK f : f = Booking(i)
      OBVIOUS
    <3>2. f \in [RaBills -> Nat] /\ f[b] = n /\ SumOver(f) = old.executed
      BY <1>1, <1>5, <1>10, <2>1, <2>2, <3>1, BookingTyped DEF Booked, Booking
    <3> QED
      BY <1>5, <3>2, SumBounds, RowsAssumption
  <2>6. m \in Nat /\ m = old.executed - n
    BY <2>3, <2>4, <2>5
  <2>7. PICK y : y = [old EXCEPT !.executed = m]
    OBVIOUS
  <2>8. y \in BoqItem /\ y.qty = old.qty /\ y.executed = m
    BY <2>6, <2>7 DEF BoqItem
  <2>9. boq'[i] = y
    BY <1>4, <1>10, <2>1, <2>2, <2>3, <2>7 DEF Executed
  <2> QED
    BY <2>1, <2>2, <2>6, <2>8, <2>9
<1>11. boq' \in [Items -> BoqItem]
  <2>1. CASE p.was = "approved"
    BY <1>4, <1>10, <2>1 DEF Executed
  <2>2. CASE p.was # "approved"
    BY <1>1, <1>4, <2>2
  <2> QED
    BY <2>1, <2>2
<1>12. ASSUME NEW i \in Items, p.was = "draft"
       PROVE  boq'[i].qty = boq[i].qty /\ boq'[i].executed = boq[i].executed
  BY <1>4, <1>12
<1> QED
  BY <1>2, <1>3, <1>4, <1>5, <1>6, <1>8, <1>9, <1>10, <1>11, <1>12

\* A cancellation takes nothing away from what the other requests rely on.
LEMMA CancelTakesBack ==
    ASSUME IInv, NEW r \in Requests, CommitCancel(r)
    PROVE  \A i \in Items : /\ boq'[i].qty = boq[i].qty
                            /\ boq'[i].executed <= boq[i].executed
                            /\ boq[i].qty <= boq'[i].qty
<1>1. TypeOK
  BY DEF IInv
<1>2. PICK b \in RaBills : b = req[r].on
  BY CancelDoes
<1>3. \A i \in Items : QtyOf(ra[b].lines, i) \in Nat
  BY <1>1, BookingTyped DEF TypeOK
<1>4. \A i \in Items : boq[i].qty \in Nat /\ boq[i].executed \in Nat
  BY <1>1, BoqIsNat DEF TypeOK
<1>5. req[r].was \in {"draft", "approved"}
  BY CancelDoes
<1>6. ASSUME NEW i \in Items
      PROVE  /\ boq'[i].qty = boq[i].qty
             /\ req[r].was = "draft" => boq'[i].executed = boq[i].executed
             /\ req[r].was = "approved" =>
                    boq'[i].executed = boq[i].executed - QtyOf(ra[b].lines, i)
  BY <1>2, CancelDoes
<1> QED
  BY <1>3, <1>4, <1>5, <1>6

\* CommitCancel keeps the invariant.
LEMMA CommitCancelKeeps ==
    ASSUME IInv, NEW r \in Requests, CommitCancel(r)
    PROVE  IInv'
<1>1. TypeOK /\ RowsSound /\ Booked /\ OneDraft
  BY DEF IInv
<1>2. PICK b : b = req[r].on
  OBVIOUS
<1>3. /\ req[r].op = "cancel" /\ req[r].step = "commit" /\ End(r, {})
      /\ b \in RaBills /\ ra[b].status \in {"draft", "approved"}
      /\ ra' \in [RaBills -> RaBill]
      /\ \A c \in RaBills : c # b => ra'[c] = ra[c]
      /\ ra'[b] = [ra[b] EXCEPT !.status = "cancelled"]
      /\ boq' \in [Items -> BoqItem]
      /\ Wrote(r) /\ invoice' \in [RaBills -> Invoice]
      /\ \A c \in RaBills : invoice'[c].paid = invoice[c].paid
      /\ UNCHANGED <<executed, sub>>
  <2>1. ra[b].status = req[r].was /\ req[r].was \in {"draft", "approved"}
    BY <1>2, CancelDoes
  <2>2. ra[b].status \in {"draft", "approved"}
    BY <2>1
  <2> QED
    BY <1>2, <2>2, CancelDoes
<1>4. /\ ra'[b].status = "cancelled" /\ ra'[b].lines = ra[b].lines /\ ra[b] # NoBill
      /\ ra'[b] # NoBill
  BY <1>1, <1>3, NoBillTyped DEF TypeOK, RaBill
<1>5. RowsSound'
  BY <1>1, <1>3, <1>4 DEF RowsSound, BillSound
<1>6. OneDraft'
  <2>1. \A c \in RaBills : ra'[c].status = "draft" => ra[c].status = "draft"
    BY <1>3, <1>4
  <2> QED
    BY <1>1, <2>1 DEF OneDraft
<1>7. ASSUME NEW i \in Items PROVE boq'[i].executed = SumOver(Booking(i)')
  <2>1. PICK f : f = Booking(i)
    OBVIOUS
  <2>2. PICK g : g = Booking(i)'
    OBVIOUS
  <2>3. f \in [RaBills -> Nat] /\ QtyOf(ra[b].lines, i) \in Nat
    BY <1>1, <1>3, <2>1, BookingTyped DEF TypeOK
  <2>4. /\ f[b] = IF ra[b].status = "approved" THEN QtyOf(ra[b].lines, i) ELSE 0
        /\ g[b] = 0 /\ \A c \in RaBills \ {b} : f[c] = g[c]
    BY <1>3, <1>4, <2>1, <2>2 DEF Booking
  <2>5. g \in [RaBills -> Int] /\ f \in [RaBills -> Int]
    <3>1. \A c \in RaBills : g[c] \in Int
      BY <2>3, <2>4
    <3>2. DOMAIN g = RaBills /\ g = [c \in RaBills |-> g[c]]
      BY <2>2 DEF Booking
    <3> QED
      BY <2>3, <3>1, <3>2
  <2>6. SumOver(g) = SumOver(f) - f[b] + g[b]
    BY <1>3, <2>4, <2>5, SumChanges, RowsAssumption
  <2>7. SumOver(f) = boq[i].executed /\ boq[i].executed \in Nat
    BY <1>1, <2>1, BoqIsNat DEF Booked, TypeOK
  <2>8. boq'[i].executed = boq[i].executed - f[b]
    <3>1. /\ ra[b].status = req[r].was /\ req[r].was \in {"draft", "approved"}
          /\ req[r].was = "draft" => boq'[i].executed = boq[i].executed
          /\ req[r].was = "approved" =>
                 boq'[i].executed = boq[i].executed - QtyOf(ra[b].lines, i)
      BY <1>2, CancelDoes
    <3> QED
      BY <2>3, <2>4, <2>7, <3>1
  <2> QED
    BY <2>2, <2>3, <2>4, <2>6, <2>7, <2>8
<1>8. Booked'
  BY <1>7 DEF Booked
<1>9. ASSUME NEW q \in Requests \ {r} PROVE StaysFor(q)
  <2>1. /\ Runs(req[q]) /\ req[q] \in Request
        /\ req[q].op \in {"approve", "cancel"} /\ req[q].step # "bill" => req[q].on # b
    BY <1>2, <1>3, HeldApart DEF IInv, TypeOK, RequestsSound
  <2>2. req[q].op = "create" => req[q].on \in RaBills /\ req[q].on # b
    BY <1>4, <2>1 DEF Runs, Creates
  <2>3. req[q].op \in {"approve", "cancel"} => req[q].on \in RaBills
    BY <2>1 DEF Runs, Approves, Cancels
  <2>4. \A c \in RaBills : ra'[c].status = "draft" => ra[c].status = "draft"
    BY <1>3, <1>4
  <2>5. \A c \in RaBills : ra'[c].status = "approved" => ra[c].status = "approved" /\ ra'[c] = ra[c]
    BY <1>3, <1>4
  <2>6. \A c \in RaBills : ra[c] # NoBill => ra'[c] # NoBill
    BY <1>3, <1>4
  <2>7. \A i \in Items : boq'[i].executed <= boq[i].executed /\ boq[i].qty <= boq'[i].qty
    BY CancelTakesBack
  <2> QED
    BY <1>3, <2>1, <2>2, <2>3, <2>4, <2>5, <2>6, <2>7 DEF StaysFor
<1>10. /\ executed' \in [WorkLines -> Nat]
       /\ sub' \in [SubBills -> Seq(Line)] /\ overtaken' \subseteq RaBills \cup Items
  BY <1>1, <1>2, <1>3, WroteTyped DEF TypeOK
<1> QED
  BY <1>3, <1>5, <1>6, <1>8, <1>9, <1>10, EndStep

\* What a change of an item's quantity writes.
LEMMA SaveDoes ==
    ASSUME IInv, NEW r \in Requests, CommitSave(r)
    PROVE  /\ req[r].op = "save" /\ req[r].step = "commit"
           /\ End(r, IF req[r].num < boq[req[r].on].qty THEN Past("approve") ELSE {})
           /\ req[r].on \in Items /\ req[r].num \in Nat
           /\ req[r].fresh => boq[req[r].on].executed <= req[r].num
           /\ boq' \in [Items -> BoqItem]
           /\ \A i \in Items : /\ boq'[i].executed = boq[i].executed
                               /\ i # req[r].on => boq'[i].qty = boq[i].qty
           /\ boq'[req[r].on].qty = req[r].num
           /\ Wrote(r)
           /\ UNCHANGED <<ra, invoice, executed, sub>>
<1>1. /\ req[r] \in Request /\ Runs(req[r]) /\ boq \in [Items -> BoqItem]
  BY DEF IInv, TypeOK, RequestsSound
<1>2. PICK p : p = req[r]
  OBVIOUS
<1>3. PICK j : j = p.on
  OBVIOUS
<1>4. /\ p.op = "save" /\ p.step = "commit" /\ boq' = [boq EXCEPT ![j].qty = p.num]
      /\ End(r, IF p.num < boq[j].qty THEN Past("approve") ELSE {})
      /\ Wrote(r) /\ UNCHANGED <<ra, invoice, executed, sub>>
  BY <1>2, <1>3 DEF CommitSave, At, Wrote
<1>5. j \in Items /\ p.num \in Nat /\ (p.fresh => p.num >= boq[j].executed)
  BY <1>1, <1>2, <1>3, <1>4 DEF Runs, Saves, Request
<1>6. PICK x : x = [boq[j] EXCEPT !.qty = p.num]
  OBVIOUS
<1>7. x \in BoqItem /\ x.qty = p.num /\ x.executed = boq[j].executed
  BY <1>1, <1>5, <1>6 DEF BoqItem
<1>8. /\ boq'[j] = x /\ boq' \in [Items -> BoqItem]
      /\ \A i \in Items : i # j => boq'[i] = boq[i]
  BY <1>1, <1>4, <1>5, <1>6, <1>7
<1>9. p.fresh => boq[j].executed <= p.num
  BY <1>1, <1>5, BoqIsNat
<1> QED
  BY <1>2, <1>3, <1>4, <1>5, <1>7, <1>8, <1>9

\* CommitSave keeps the invariant.
LEMMA CommitSaveKeeps ==
    ASSUME IInv, NEW r \in Requests, CommitSave(r)
    PROVE  IInv'
<1>1. TypeOK /\ RowsSound /\ Booked /\ OneDraft
  BY DEF IInv
<1>2. PICK j : j = req[r].on
  OBVIOUS
<1>3. PICK S : S = IF req[r].num < boq[j].qty THEN Past("approve") ELSE {}
  OBVIOUS
<1>4. /\ req[r].op = "save" /\ End(r, S) /\ j \in Items /\ req[r].num \in Nat
      /\ boq' \in [Items -> BoqItem]
      /\ \A i \in Items : /\ boq'[i].executed = boq[i].executed
                          /\ i # j => boq'[i].qty = boq[i].qty
      /\ boq'[j].qty = req[r].num
      /\ Wrote(r) /\ UNCHANGED <<ra, invoice, executed, sub>>
  BY <1>2, <1>3, SaveDoes
<1>5. \A i \in Items : boq[i].qty \in Nat /\ boq[i].executed \in Nat
  BY <1>1, BoqIsNat DEF TypeOK
<1>6. RowsSound' /\ OneDraft'
  BY <1>1, <1>4 DEF RowsSound, BillSound, OneDraft
<1>7. Booked'
  <2>1. ASSUME NEW i PROVE Booking(i)' = Booking(i)
    BY <1>4 DEF Booking
  <2> QED
    BY <1>1, <1>4, <2>1 DEF Booked
<1>8. ASSUME NEW q \in Requests \ {r} PROVE StaysFor(q)
  <2>1. Runs(req[q])
    BY DEF IInv, RequestsSound
  <2>2. req'[q].fresh => q \notin S
    BY <1>1, <1>4, EndDoes
  <2>3. \A i \in Items : boq'[i].executed <= boq[i].executed
    BY <1>4, <1>5
  <2>4. ASSUME req[q].op = "approve", req[q].step # "bill", req'[q].fresh
        PROVE  \A i \in Items : boq'[i].executed <= boq[i].executed /\ boq[i].qty <= boq'[i].qty
    <3>1. q \in Past("approve")
      BY <2>1, <2>4 DEF Runs, Approves, Past
    <3>2. ~(req[r].num < boq[j].qty)
      BY <1>3, <2>2, <2>4, <3>1
    <3>3. \A i \in Items : boq[i].qty <= boq'[i].qty
      BY <1>4, <1>5, <3>2
    <3> QED
      BY <2>3, <3>3
  <2> QED
    BY <1>4, <2>3, <2>4 DEF StaysFor
<1>9. /\ ra' \in [RaBills -> RaBill] /\ invoice' \in [RaBills -> Invoice]
      /\ executed' \in [WorkLines -> Nat]
      /\ sub' \in [SubBills -> Seq(Line)] /\ overtaken' \subseteq RaBills \cup Items
  BY <1>1, <1>2, <1>4, WroteTyped DEF TypeOK
<1> QED
  BY <1>4, <1>6, <1>7, <1>8, <1>9, EndStep

\* What a subcontractor's bill writes.
LEMMA MeasureDoes ==
    ASSUME IInv, NEW r \in Requests, CommitMeasure(r)
    PROVE  /\ req[r].op = "measure" /\ req[r].step = "commit" /\ End(r, {})
           /\ req[r].on \in SubBills /\ sub[req[r].on] = <<>> /\ req[r].lines \in Seq(Line)
           /\ Measure(req[r].lines, WorkLines) /\ Measurable(req[r].lines)
           /\ sub' \in [SubBills -> Seq(Line)] /\ sub'[req[r].on] = req[r].lines
           /\ \A s \in SubBills : s # req[r].on => sub'[s] = sub[s]
           /\ executed' \in [WorkLines -> Nat]
           /\ \A w \in WorkLines : executed'[w] = executed[w] + QtyOf(req[r].lines, w)
           /\ UNCHANGED <<boq, ra, invoice, overtaken>>
<1>1. /\ req[r] \in Request /\ Runs(req[r]) /\ sub \in [SubBills -> Seq(Line)]
      /\ executed \in [WorkLines -> Nat]
  BY DEF IInv, TypeOK, RequestsSound
<1>2. PICK p : p = req[r]
  OBVIOUS
<1>3. /\ p.op = "measure" /\ p.step = "commit" /\ End(r, {})
      /\ sub' = [sub EXCEPT ![p.on] = p.lines]
      /\ executed' = [w \in WorkLines |-> executed[w] + QtyOf(p.lines, w)]
      /\ UNCHANGED <<boq, ra, invoice, overtaken>>
  BY <1>2 DEF CommitMeasure, At
<1>4. /\ p.on \in SubBills /\ sub[p.on] = <<>> /\ p.lines \in Seq(Line)
      /\ Measure(p.lines, WorkLines) /\ Measurable(p.lines)
  BY <1>1, <1>2, <1>3 DEF Runs, MeasuresWork, Request
<1>5. \A w \in WorkLines : executed[w] \in Nat /\ QtyOf(p.lines, w) \in Nat
  BY <1>1, <1>4, QtyIsNat
<1>6. executed' \in [WorkLines -> Nat]
  BY <1>3, <1>5
<1>7. /\ sub' \in [SubBills -> Seq(Line)] /\ sub'[p.on] = p.lines
      /\ \A s \in SubBills : s # p.on => sub'[s] = sub[s]
  BY <1>1, <1>3, <1>4
<1> QED
  BY <1>2, <1>3, <1>4, <1>6, <1>7

\* CommitMeasure keeps the invariant.
LEMMA CommitMeasureKeeps ==
    ASSUME IInv, NEW r \in Requests, CommitMeasure(r)
    PROVE  IInv'
<1>1. TypeOK /\ RowsSound /\ Booked /\ OneDraft
  BY DEF IInv
<1>2. PICK t : t = req[r].on
  OBVIOUS
<1>3. /\ req[r].op = "measure" /\ req[r].step = "commit" /\ End(r, {})
      /\ t \in SubBills /\ sub'[t] = req[r].lines /\ Measure(req[r].lines, WorkLines)
      /\ sub' \in [SubBills -> Seq(Line)]
      /\ \A s \in SubBills : s # t => sub'[s] = sub[s]
      /\ executed' \in [WorkLines -> Nat]
      /\ UNCHANGED <<boq, ra, invoice, overtaken>>
  BY <1>2, MeasureDoes
<1>4. RowsSound' /\ OneDraft'
  BY <1>1, <1>3 DEF RowsSound, BillSound, OneDraft
<1>5. Booked'
  <2>1. ASSUME NEW i PROVE Booking(i)' = Booking(i)
    BY <1>3 DEF Booking
  <2> QED
    BY <1>1, <1>3, <2>1 DEF Booked
<1>6. ASSUME NEW q \in Requests \ {r} PROVE StaysFor(q)
  <2>1. /\ Runs(req[q]) /\ ~SameRow(req[q], req[r])
        /\ ~(req[q].op = "measure" /\ req[q].step # "order")
    BY <1>3, HeldApart DEF IInv, RequestsSound
  <2>2. req[q].op = "measure" => req[q].on \in SubBills /\ req[q].on # t
    BY <1>2, <1>3, <2>1 DEF Runs, MeasuresWork, SameRow
  <2>3. \A i \in Items : boq'[i].executed <= boq[i].executed /\ boq[i].qty <= boq'[i].qty
    BY <1>1, <1>3, BoqIsNat DEF TypeOK
  <2> QED
    BY <1>3, <2>1, <2>2, <2>3 DEF StaysFor
<1>7. /\ boq' \in [Items -> BoqItem] /\ ra' \in [RaBills -> RaBill]
      /\ invoice' \in [RaBills -> Invoice] /\ overtaken' \subseteq RaBills \cup Items
  BY <1>1, <1>3 DEF TypeOK
<1> QED
  BY <1>3, <1>4, <1>5, <1>6, <1>7, EndStep

-------------------------------------------------------------------------------
(* The client pays                                                         *)

\* A step that writes only an invoice leaves what was sound so.
LEMMA InvoiceStep ==
    ASSUME IInv, UNCHANGED <<boq, ra, executed, sub, locks, overtaken>>,
           invoice' \in [RaBills -> Invoice], req' \in [Requests -> Request],
           \A q \in Requests : /\ SameButFresh(req[q], req'[q])
                               /\ req[q].op = "cancel" /\ req[q].step # "bill" /\ req'[q].fresh =>
                                      (invoice'[req[q].on].paid => invoice[req[q].on].paid)
    PROVE  IInv'
<1>1. TypeOK /\ RowsSound /\ Booked /\ OneDraft /\ L!LocksExclusive /\ OwnRows
  BY DEF IInv
<1>2. TypeOK'
  BY <1>1 DEF TypeOK, L!LocksTypeOK
<1>3. RowsSound' /\ OneDraft'
  BY <1>1 DEF RowsSound, BillSound, OneDraft
<1>4. Booked'
  <2>1. ASSUME NEW i PROVE Booking(i)' = Booking(i)
    BY DEF Booking
  <2> QED
    BY <1>1, <2>1 DEF Booked
<1>5. ASSUME NEW q \in Requests PROVE Runs(req[q])' /\ Holds(q)'
  <2>1. \A i \in Items : boq'[i].executed <= boq[i].executed /\ boq[i].qty <= boq'[i].qty
    BY <1>1, BoqIsNat DEF TypeOK
  <2>2. StaysFor(q)
    BY <2>1 DEF StaysFor
  <2>3. boq' \in [Items -> BoqItem] /\ SameButFresh(req[q], req'[q]) /\ locks'[q] = locks[q]
    BY <1>1 DEF TypeOK
  <2> QED
    BY <2>2, <2>3, Bystander
<1>6. OwnRows'
  BY <1>1 DEF OwnRows, SameButFresh, SameRow
<1>7. L!LocksExclusive'
  BY <1>1 DEF L!LocksExclusive
<1> QED
  BY <1>2, <1>3, <1>4, <1>5, <1>6, <1>7 DEF IInv, RequestsSound

\* A client's payment of a bill's invoice keeps the invariant.
LEMMA PayKeeps ==
    ASSUME IInv, NEW b \in RaBills, PayInvoice(b)
    PROVE  IInv'
<1>1. req \in [Requests -> Request] /\ invoice \in [RaBills -> Invoice]
  BY DEF IInv, TypeOK
<1>2. /\ invoice' = [invoice EXCEPT ![b].paid = TRUE]
      /\ req' = [q \in Requests |->
                  [req[q] EXCEPT !.fresh = @ /\ ~(q \in Past("cancel") /\ req[q].on = b)]]
      /\ UNCHANGED <<boq, ra, executed, sub, locks, overtaken>>
  BY DEF PayInvoice
<1>3. PICK y : y = [invoice[b] EXCEPT !.paid = TRUE]
  OBVIOUS
<1>4. y \in Invoice
  BY <1>1, <1>3 DEF Invoice
<1>5. invoice' \in [RaBills -> Invoice] /\ \A c \in RaBills : c # b => invoice'[c] = invoice[c]
  BY <1>1, <1>2, <1>3, <1>4
<1>6. ASSUME NEW q \in Requests
      PROVE  /\ req'[q] \in Request /\ SameButFresh(req[q], req'[q])
             /\ req'[q].fresh => ~(q \in Past("cancel") /\ req[q].on = b)
  <2>1. PICK p : p = req[q]
    OBVIOUS
  <2>2. PICK fresh \in BOOLEAN : fresh = (p.fresh /\ ~(q \in Past("cancel") /\ p.on = b))
    OBVIOUS
  <2>3. PICK x : x = [p EXCEPT !.fresh = fresh]
    OBVIOUS
  <2>4. req'[q] = x
    BY <1>2, <2>1, <2>2, <2>3
  <2>5. p \in Request
    BY <1>1, <2>1
  <2>6. x \in Request /\ x.fresh = fresh
    BY <2>3, <2>5 DEF Request
  <2>7. SameButFresh(p, x)
    BY <2>2, <2>3, <2>5, <2>6 DEF Request, SameButFresh
  <2> QED
    BY <2>1, <2>2, <2>4, <2>6, <2>7
<1>7. req' \in [Requests -> Request]
  BY <1>2, <1>6
<1>8. ASSUME NEW q \in Requests, req[q].op = "cancel", req[q].step # "bill", req'[q].fresh,
             invoice'[req[q].on].paid
      PROVE  invoice[req[q].on].paid
  <2>1. Runs(req[q])
    BY DEF IInv, RequestsSound
  <2>2. q \in Past("cancel") /\ req[q].on \in RaBills
    BY <1>8, <2>1 DEF Runs, Cancels, Past
  <2>3. req[q].on # b
    BY <1>6, <1>8, <2>2
  <2> QED
    BY <1>5, <1>8, <2>2, <2>3
<1> QED
  BY <1>2, <1>5, <1>6, <1>7, <1>8, InvoiceStep

\* So does the cancellation of that payment.
LEMMA UnpayKeeps ==
    ASSUME IInv, NEW b \in RaBills, UnpayInvoice(b)
    PROVE  IInv'
<1>1. req \in [Requests -> Request] /\ invoice \in [RaBills -> Invoice]
  BY DEF IInv, TypeOK
<1>2. PICK y : y = [status |-> "posted", paid |-> FALSE]
  OBVIOUS
<1>3. y \in Invoice /\ ~y.paid
  BY <1>2 DEF Invoice
<1>4. /\ invoice' = [invoice EXCEPT ![b] = y]
      /\ UNCHANGED <<boq, ra, executed, sub, req, locks, overtaken>>
  BY <1>2 DEF UnpayInvoice
<1>5. /\ invoice' \in [RaBills -> Invoice] /\ ~invoice'[b].paid
      /\ \A c \in RaBills : c # b => invoice'[c] = invoice[c]
  BY <1>1, <1>3, <1>4
<1>6. ASSUME NEW q \in Requests
      PROVE  /\ SameButFresh(req[q], req'[q])
             /\ req[q].op = "cancel" /\ req[q].step # "bill" /\ req'[q].fresh =>
                    (invoice'[req[q].on].paid => invoice[req[q].on].paid)
  <2>1. Runs(req[q])
    BY DEF IInv, RequestsSound
  <2>2. SameButFresh(req[q], req'[q])
    BY <1>4 DEF SameButFresh
  <2>3. req[q].op = "cancel" => req[q].on \in RaBills
    BY <2>1 DEF Runs, Cancels
  <2> QED
    BY <1>5, <2>2, <2>3
<1> QED
  BY <1>1, <1>4, <1>5, <1>6, InvoiceStep

-------------------------------------------------------------------------------
(* The invariant holds                                                     *)

\* A project with no bills and no measurements satisfies the invariant.
LEMMA InitEstablishes == Init => IInv
<1> SUFFICES ASSUME Init PROVE IInv
  OBVIOUS
<1>1. /\ boq \in [Items -> [qty : Quantities, executed : {0}]]
      /\ ra = [b \in RaBills |-> NoBill]
      /\ invoice = [b \in RaBills |-> [status |-> "none", paid |-> FALSE]]
      /\ executed = [w \in WorkLines |-> 0] /\ sub = [s \in SubBills |-> <<>>]
      /\ req = [r \in Requests |-> Idle] /\ L!NoLocks /\ overtaken = {}
  BY DEF Init
<1>2. boq \in [Items -> BoqItem] /\ \A i \in Items : boq[i].executed = 0
  <2>1. \A n \in Quantities : n \in Nat
    BY QuantitiesAssumption
  <2>2. \A x \in [qty : Quantities, executed : {0}] : x \in BoqItem /\ x.executed = 0
    BY <2>1 DEF BoqItem
  <2> QED
    BY <1>1, <2>2
<1>3. ra \in [RaBills -> RaBill] /\ \A b \in RaBills : ra[b] = NoBill /\ ra[b].status = "none"
  BY <1>1, NoBillTyped
<1>4. invoice \in [RaBills -> Invoice]
  <2>1. [status |-> "none", paid |-> FALSE] \in Invoice
    BY DEF Invoice
  <2> QED
    BY <1>1, <2>1
<1>5. executed \in [WorkLines -> Nat]
  BY <1>1
<1>6. sub \in [SubBills -> Seq(Line)] /\ \A s \in SubBills : Measure(sub[s], WorkLines)
  <2>1. PICK empty : empty = <<>>
    OBVIOUS
  <2>2. empty \in Seq(Line) /\ Measure(empty, {})
    BY <2>1, NoLinesMeasure
  <2>3. Measure(empty, WorkLines)
    BY <2>2 DEF Measure
  <2>4. sub = [s \in SubBills |-> empty]
    BY <1>1, <2>1
  <2> QED
    BY <2>2, <2>3, <2>4
<1>7. req \in [Requests -> Request] /\ \A r \in Requests : req[r] = Idle
  BY <1>1, IdleTyped
<1>8. L!LocksTypeOK /\ L!LocksExclusive
  BY <1>1 DEF L!NoLocks, L!LocksTypeOK, L!LocksExclusive
<1>9. TypeOK
  BY <1>1, <1>2, <1>3, <1>4, <1>5, <1>6, <1>7, <1>8 DEF TypeOK
<1>10. RowsSound /\ OneDraft
  <2>1. \A b \in RaBills : BillSound(b)
    BY <1>3 DEF BillSound
  <2>2. \A b \in RaBills : ra[b].status # "draft"
    BY <1>3
  <2> QED
    BY <1>6, <2>1, <2>2 DEF RowsSound, OneDraft
<1>11. Booked
  <2> SUFFICES ASSUME NEW i \in Items PROVE boq[i].executed = SumOver(Booking(i))
    BY DEF Booked
  <2>1. PICK f : f = Booking(i)
    OBVIOUS
  <2>2. f \in [RaBills -> Int] /\ \A b \in RaBills : f[b] = 0
    BY <1>3, <2>1 DEF Booking
  <2>3. SumOver(f) = 0
    BY <2>2, SumOfZeros, RowsAssumption
  <2> QED
    BY <1>2, <2>1, <2>3
<1>12. RequestsSound /\ OwnRows
  BY <1>7, IdleTyped DEF RequestsSound, OwnRows, Runs, Holds, SameRow, Operations
<1> QED
  BY <1>8, <1>9, <1>10, <1>11, <1>12 DEF IInv

\* Every step keeps the invariant.
LEMMA NextPreserves == IInv /\ [Next]_vars => IInv'
<1> SUFFICES ASSUME IInv, [Next]_vars PROVE IInv'
  OBVIOUS
<1>1. ASSUME NEW b \in RaBills, PayInvoice(b) \/ UnpayInvoice(b) PROVE IInv'
  BY <1>1, PayKeeps, UnpayKeeps
<1>2. ASSUME NEW r \in Requests, Start(r) PROVE IInv'
  BY <1>2, StartKeeps
<1>3. ASSUME NEW r \in Requests, Refuse(r) \/ Fail(r) PROVE IInv'
  <2>1. End(r, {}) /\ UNCHANGED rows
    BY <1>3 DEF Refuse, Fail
  <2> QED
    BY <2>1, RollbackKeeps
<1>4. ASSUME NEW r \in Requests, Proceed(r) PROVE IInv'
  BY <1>3, <1>4, LockProjectKeeps, ReadAdvanceKeeps, LockBillKeeps, LockWorkOrderKeeps,
     TakeJournalNumberKeeps, CommitCreateKeeps, CommitApproveKeeps, CommitCancelKeeps,
     CommitSaveKeeps, CommitMeasureKeeps DEF Proceed
<1>5. ASSUME UNCHANGED vars PROVE IInv'
  <2>1. UNCHANGED <<boq, ra, executed, sub, locks, overtaken>> /\ invoice' = invoice /\ req' = req
    BY <1>5 DEF vars, rows
  <2>2. invoice' \in [RaBills -> Invoice] /\ req' \in [Requests -> Request]
    BY <2>1 DEF IInv, TypeOK
  <2>3. \A q \in Requests : SameButFresh(req[q], req'[q])
    BY <2>1 DEF SameButFresh
  <2> QED
    BY <2>1, <2>2, <2>3, InvoiceStep
<1> QED
  BY <1>1, <1>2, <1>3, <1>4, <1>5 DEF Next

\* In every reachable state an item's executed quantity is what its approved bills measure,
\* one bill is a draft, and what requests rely on is there until they end: the inductive
\* invariant.
THEOREM Invariance == Spec => []IInv
BY InitEstablishes, NextPreserves, PTL DEF Spec

\* Every variable has its type; in particular no cancellation takes back more than was
\* executed (cancelRaBill).
THEOREM TypeCorrect == Spec => []TypeOK
<1>1. IInv => TypeOK
  BY DEF IInv
<1> QED
  BY <1>1, Invariance, PTL

-------------------------------------------------------------------------------
(* What the running bills measure                                          *)

\* The steps that write rows.
LEMMA RowSteps ==
    ASSUME [Next]_vars
    PROVE  \/ \E b \in RaBills : PayInvoice(b) \/ UnpayInvoice(b)
           \/ \E r \in Requests : \/ CommitCreate(r) \/ CommitApprove(r) \/ CommitCancel(r)
                                  \/ CommitSave(r) \/ CommitMeasure(r)
           \/ UNCHANGED rows
<1>1. ASSUME NEW r \in Requests, Start(r)
      PROVE  UNCHANGED rows
  BY <1>1 DEF Start, BeginCreate, BeginApprove, BeginCancel, BeginSave, BeginMeasure, Begin
<1>2. ASSUME NEW r \in Requests,
             \/ LockProject(r) \/ ReadAdvance(r) \/ LockBill(r) \/ LockWorkOrder(r)
             \/ TakeJournalNumber(r) \/ Refuse(r) \/ Fail(r)
      PROVE  UNCHANGED rows
  BY <1>2 DEF LockProject, ReadAdvance, LockBill, LockWorkOrder, TakeJournalNumber, Refuse, Fail
<1>3. UNCHANGED vars => UNCHANGED rows
  BY DEF vars
<1> QED
  BY <1>1, <1>2, <1>3 DEF Next, Proceed

\* Good(b, i) tells the approved bills that have to keep within an item's quantity, and
\* Kept(i) is what they measure of it.
Good(b, i) == ra[b].status = "approved" /\ ~Twice(ra[b].lines, i) /\ b \notin overtaken

Kept(i) == [b \in RaBills |-> IF Good(b, i) THEN QtyOf(ra[b].lines, i) ELSE 0]

WithinGood == \A i \in Items \ overtaken : SumOver(Kept(i)) <= boq[i].qty

\* They measure no more than is executed.
LEMMA KeptIsExecuted ==
    ASSUME TypeOK, Booked, NEW i \in Items
    PROVE  /\ Kept(i) \in [RaBills -> Nat] /\ SumOver(Kept(i)) \in Nat
           /\ SumOver(Kept(i)) <= boq[i].executed
<1>1. PICK f : f = Kept(i)
  OBVIOUS
<1>2. PICK g : g = Booking(i)
  OBVIOUS
<1>3. \A b \in RaBills : QtyOf(ra[b].lines, i) \in Nat
  BY BookingTyped DEF TypeOK
<1>4. f \in [RaBills -> Nat] /\ g \in [RaBills -> Nat] /\ \A b \in RaBills : f[b] <= g[b]
  BY <1>1, <1>2, <1>3 DEF Kept, Booking, Good
<1>5. SumOver(f) \in Nat
  BY <1>4, SumIsNat, RowsAssumption
<1>6. f \in [RaBills -> Int] /\ g \in [RaBills -> Int]
  BY <1>4
<1>7. SumOver(f) <= SumOver(g)
  BY <1>4, <1>6, SumMonotone, RowsAssumption
<1> QED
  BY <1>1, <1>2, <1>4, <1>5, <1>7 DEF Booked

\* What is measured stays within an item's quantity when no more is measured.
LEMMA KeptShrinks ==
    ASSUME TypeOK, Booked, TypeOK', Booked', NEW i \in Items, SumOver(Kept(i)) <= boq[i].qty,
           boq'[i].qty = boq[i].qty, \A b \in RaBills : Kept(i)'[b] <= Kept(i)[b]
    PROVE  SumOver(Kept(i)') <= boq'[i].qty
<1>1. PICK f : f = Kept(i)
  OBVIOUS
<1>2. PICK g : g = Kept(i)'
  OBVIOUS
<1>3. f \in [RaBills -> Nat] /\ SumOver(f) \in Nat
  BY <1>1, KeptIsExecuted
<1>4. g \in [RaBills -> Nat]
  <2>1. \A b \in RaBills : QtyOf(ra'[b].lines, i) \in Nat
    <3>1. \A b \in RaBills : ra'[b].lines \in Seq(Line)
      BY DEF TypeOK, RaBill
    <3> QED
      BY <3>1, QtyIsNat
  <2> QED
    BY <1>2, <2>1 DEF Kept
<1>5. g \in [RaBills -> Int] /\ f \in [RaBills -> Int]
  BY <1>3, <1>4
<1>6. SumOver(g) <= SumOver(f)
  BY <1>1, <1>2, <1>5, SumMonotone, RowsAssumption
<1>7. SumOver(g) \in Nat /\ boq[i].qty \in Nat
  BY <1>4, SumIsNat, RowsAssumption, BoqIsNat DEF TypeOK
<1> QED
  BY <1>1, <1>2, <1>3, <1>6, <1>7

\* An approval adds to an item what its bill measures, which was checked against the
\* item's quantity, and what was executed then.
LEMMA ApprovalFits ==
    ASSUME IInv, IInv', WithinGood, NEW r \in Requests, CommitApprove(r),
           NEW i \in Items \ overtaken'
    PROVE  SumOver(Kept(i)') <= boq'[i].qty
<1>1. TypeOK /\ Booked /\ TypeOK' /\ Booked' /\ RowsSound
  BY DEF IInv
<1>2. PICK b : b = req[r].on
  OBVIOUS
<1>3. /\ b \in RaBills /\ ra[b].status = "draft"
      /\ req[r].fresh => WithinEach(ra[b].lines)
      /\ \A c \in RaBills : c # b => ra'[c] = ra[c]
      /\ ra'[b] = [ra[b] EXCEPT !.status = "approved"]
      /\ boq'[i].qty = boq[i].qty
      /\ Wrote(r)
  BY <1>2, ApproveDoes
<1>4. ra'[b].lines = ra[b].lines /\ ra[b].lines \in Seq(Line)
  BY <1>1, <1>3 DEF TypeOK, RaBill
<1>5. /\ overtaken \subseteq overtaken' /\ overtaken' \subseteq overtaken \cup {b}
      /\ b \notin overtaken' => req[r].fresh
  BY <1>2, <1>3 DEF Wrote
<1>6. i \in Items /\ SumOver(Kept(i)) <= boq[i].qty
  BY <1>5 DEF WithinGood
<1>7. PICK f : f = Kept(i)
  OBVIOUS
<1>8. PICK g : g = Kept(i)'
  OBVIOUS
<1>9. f \in [RaBills -> Nat] /\ SumOver(f) \in Nat /\ SumOver(f) <= boq[i].executed
  BY <1>1, <1>6, <1>7, KeptIsExecuted
<1>10. \A c \in RaBills \ {b} : g[c] = f[c]
  BY <1>3, <1>5, <1>7, <1>8 DEF Kept, Good
<1>11. f[b] = 0
  BY <1>3, <1>7 DEF Kept, Good
<1>12. boq[i].qty \in Nat /\ boq[i].executed \in Nat
  BY <1>1, <1>6, BoqIsNat DEF TypeOK
<1>13. g[b] \in Nat /\ SumOver(f) + g[b] <= boq[i].qty
  <2>1. CASE ~Good(b, i)'
    <3>1. g[b] = 0
      BY <1>3, <1>8, <2>1 DEF Kept
    <3> QED
      BY <1>6, <1>7, <1>9, <1>12, <3>1
  <2>2. CASE Good(b, i)'
    <3>1. PICK lines : lines = ra[b].lines
      OBVIOUS
    <3>2. lines \in Seq(Line) /\ ~Twice(lines, i) /\ g[b] = QtyOf(lines, i) /\ WithinEach(lines)
      BY <1>3, <1>4, <1>5, <1>8, <2>2, <3>1 DEF Kept, Good
    <3>3. ASSUME NEW n \in DOMAIN lines, lines[n].of = i
          PROVE  SumOver(f) + lines[n].qty <= boq[i].qty
      <4>1. boq[i].executed + lines[n].qty <= boq[i].qty
        BY <3>2, <3>3 DEF WithinEach
      <4>2. lines[n].qty \in Nat
        BY <3>2, LinesAre
      <4> QED
        BY <1>9, <1>12, <4>1, <4>2
    <3>4. PICK e \in Nat : e = SumOver(f)
      BY <1>9
    <3>5. PICK limit \in Nat : limit = boq[i].qty
      BY <1>12
    <3>6. e <= limit /\ \A n \in DOMAIN lines : lines[n].of = i => e + lines[n].qty <= limit
      BY <1>6, <1>7, <3>3, <3>4, <3>5
    <3>7. e + QtyOf(lines, i) <= limit
      BY <3>2, <3>6, OneFits
    <3> QED
      BY <3>2, <3>4, <3>5, <3>7, QtyIsNat
  <2> QED
    BY <2>1, <2>2
<1>14. g \in [RaBills -> Int] /\ f \in [RaBills -> Int]
  <2>1. \A c \in RaBills : g[c] \in Int
    BY <1>9, <1>10, <1>13
  <2>2. DOMAIN g = RaBills /\ g = [c \in RaBills |-> g[c]]
    BY <1>8 DEF Kept
  <2> QED
    BY <1>9, <2>1, <2>2
<1>15. SumOver(g) = SumOver(f) - f[b] + g[b]
  BY <1>3, <1>10, <1>14, SumChanges, RowsAssumption
<1>16. SumOver(g) <= boq[i].qty
  BY <1>9, <1>11, <1>12, <1>13, <1>15
<1> QED
  BY <1>3, <1>8, <1>16

\* Every step keeps what good bills measure of an item within its quantity.
LEMMA WithinGoodKept ==
    ASSUME IInv, IInv', WithinGood, [Next]_vars
    PROVE  WithinGood'
<1>1. TypeOK /\ Booked /\ TypeOK' /\ Booked'
  BY DEF IInv
<1>2. \A i \in Items \ overtaken : SumOver(Kept(i)) <= boq[i].qty
  BY DEF WithinGood
<1>3. \A b \in RaBills : \A i : QtyOf(ra[b].lines, i) \in Nat
  BY <1>1, BookingTyped DEF TypeOK
<1>4. ASSUME ra' = ra, boq' = boq, overtaken' = overtaken
      PROVE  WithinGood'
  <2>1. ASSUME NEW i PROVE Kept(i)' = Kept(i)
    BY <1>4 DEF Kept, Good
  <2> QED
    BY <1>2, <1>4, <2>1 DEF WithinGood
<1>5. ASSUME NEW b \in RaBills, PayInvoice(b) \/ UnpayInvoice(b)
      PROVE  WithinGood'
  BY <1>4, <1>5 DEF PayInvoice, UnpayInvoice
<1>6. ASSUME NEW r \in Requests, CommitCreate(r)
      PROVE  WithinGood'
  <2>1. PICK b \in RaBills : b = req[r].on
    BY <1>6, CreateDoes
  <2>2. /\ ra[b] = NoBill /\ ra'[b].status = "draft" /\ \A c \in RaBills : c # b => ra'[c] = ra[c]
        /\ boq' = boq /\ overtaken' = overtaken
    BY <1>6, <2>1, CreateDoes
  <2>3. ASSUME NEW i PROVE Kept(i)' = Kept(i)
    BY <2>2, NoBillTyped DEF Kept, Good
  <2> QED
    BY <1>2, <2>2, <2>3 DEF WithinGood
<1>7. ASSUME NEW r \in Requests, CommitApprove(r)
      PROVE  WithinGood'
  BY <1>7, ApprovalFits DEF WithinGood
<1>8. ASSUME NEW r \in Requests, CommitCancel(r)
      PROVE  WithinGood'
  <2>1. PICK b \in RaBills : b = req[r].on
    BY <1>8, CancelDoes
  <2>2. /\ ra'[b] = [ra[b] EXCEPT !.status = "cancelled"]
        /\ \A c \in RaBills : c # b => ra'[c] = ra[c]
        /\ Wrote(r)
    BY <1>8, <2>1, CancelDoes
  <2>3. ra'[b].status = "cancelled"
    BY <1>1, <2>2 DEF TypeOK, RaBill
  <2>4. overtaken \subseteq overtaken' /\ overtaken' \subseteq overtaken \cup {b}
    BY <2>1, <2>2 DEF Wrote
  <2>5. ASSUME NEW i \in Items \ overtaken' PROVE SumOver(Kept(i)') <= boq'[i].qty
    <3>1. i \in Items /\ SumOver(Kept(i)) <= boq[i].qty
      BY <1>2, <2>4
    <3>2. boq'[i].qty = boq[i].qty
      BY <1>8, <3>1, CancelDoes
    <3>3. ASSUME NEW c \in RaBills PROVE Kept(i)'[c] <= Kept(i)[c]
      <4>1. CASE c = b
        <5>1. Kept(i)'[c] = 0
          BY <2>3, <4>1 DEF Kept, Good
        <5> QED
          BY <1>3, <5>1 DEF Kept
      <4>2. CASE c # b
        <5>1. Good(c, i)' <=> Good(c, i)
          BY <2>2, <2>4, <4>2 DEF Good
        <5>2. Kept(i)'[c] = Kept(i)[c]
          BY <2>2, <4>2, <5>1 DEF Kept
        <5>3. Kept(i)[c] \in Nat
          BY <1>3 DEF Kept
        <5> QED
          BY <5>2, <5>3
      <4> QED
        BY <4>1, <4>2
    <3> QED
      BY <1>1, <3>1, <3>2, <3>3, KeptShrinks
  <2> QED
    BY <2>5 DEF WithinGood
<1>9. ASSUME NEW r \in Requests, CommitSave(r)
      PROVE  WithinGood'
  <2>1. PICK j \in Items : j = req[r].on
    BY <1>9, SaveDoes
  <2>2. /\ ra' = ra /\ \A i \in Items : i # j => boq'[i].qty = boq[i].qty
        /\ req[r].fresh => boq[j].executed <= req[r].num
        /\ boq'[j].qty = req[r].num /\ req[r].num \in Nat /\ Wrote(r)
    BY <1>9, <2>1, SaveDoes
  <2>3. /\ overtaken \subseteq overtaken' /\ overtaken' \subseteq overtaken \cup {j}
        /\ j \notin overtaken' => req[r].fresh
    BY <2>1, <2>2 DEF Wrote
  <2>5. ASSUME NEW i \in Items \ overtaken' PROVE SumOver(Kept(i)') <= boq'[i].qty
    <3>1. \A b \in RaBills : Kept(i)'[b] <= Kept(i)[b]
      BY <1>3, <2>2, <2>3 DEF Kept, Good
    <3>2. CASE i # j
      BY <1>1, <1>2, <2>2, <2>3, <3>1, <3>2, KeptShrinks
    <3>3. CASE i = j
      <4>1. boq[i].executed <= boq'[i].qty
        BY <2>2, <2>3, <3>3
      <4>2. SumOver(Kept(i)) \in Nat /\ SumOver(Kept(i)) <= boq[i].executed
            /\ Kept(i) \in [RaBills -> Nat]
        BY <1>1, KeptIsExecuted
      <4>3. PICK f : f = Kept(i)
        OBVIOUS
      <4>4. PICK g : g = Kept(i)'
        OBVIOUS
      <4>5. g \in [RaBills -> Int] /\ f \in [RaBills -> Int]
        BY <1>3, <2>2, <4>3, <4>4 DEF Kept
      <4>6. SumOver(g) <= SumOver(f)
        BY <3>1, <4>3, <4>4, <4>5, SumMonotone, RowsAssumption
      <4>7. SumOver(g) \in Int /\ boq[i].executed \in Nat /\ boq'[i].qty \in Nat
        BY <1>1, <2>2, <3>3, <4>5, SumIsInt, RowsAssumption, BoqIsNat DEF TypeOK
      <4> QED
        BY <4>1, <4>2, <4>3, <4>4, <4>6, <4>7
    <3> QED
      BY <3>2, <3>3
  <2> QED
    BY <2>5 DEF WithinGood
<1>10. ASSUME NEW r \in Requests, CommitMeasure(r)
       PROVE  WithinGood'
  BY <1>4, <1>10, MeasureDoes
<1>11. ASSUME UNCHANGED rows PROVE WithinGood'
  BY <1>4, <1>11 DEF rows
<1> QED
  BY <1>5, <1>6, <1>7, <1>8, <1>9, <1>10, <1>11, RowSteps

\* Where every approved bill of an item is good, that is all that is executed of it.
LEMMA GoodIsWithin ==
    ASSUME IInv, WithinGood
    PROVE  WithinBoq
<1>1. TypeOK /\ Booked
  BY DEF IInv
<1> SUFFICES ASSUME NEW i \in Items
             PROVE  /\ boq[i].executed = SumOver([b \in Are("approved") |-> QtyOf(ra[b].lines, i)])
                    /\ \/ boq[i].executed <= boq[i].qty
                       \/ i \in overtaken
                       \/ \E b \in Are("approved") : Twice(ra[b].lines, i) \/ b \in overtaken
  BY DEF WithinBoq
<1>2. PICK f : f = Booking(i)
  OBVIOUS
<1>3. f \in [RaBills -> Int]
  BY <1>1, <1>2, BookingTyped DEF TypeOK
<1>4. boq[i].executed = SumOver([b \in Are("approved") |-> QtyOf(ra[b].lines, i)])
  <2>1. PICK T : T = Are("approved")
    OBVIOUS
  <2>2. PICK h : h = [b \in T |-> QtyOf(ra[b].lines, i)]
    OBVIOUS
  <2>3. T \in SUBSET RaBills /\ \A b \in RaBills \ T : f[b] = 0
    BY <1>2, <2>1 DEF Are, Booking
  <2>4. DOMAIN h = T /\ h = [b \in T |-> h[b]] /\ \A b \in T : h[b] = f[b]
    BY <1>2, <2>1, <2>2, <2>3 DEF Are, Booking
  <2>5. SumOver(h) = SumOver(f)
    BY <1>3, <2>3, <2>4, SumWhere, RowsAssumption
  <2> QED
    BY <1>1, <1>2, <2>1, <2>2, <2>5 DEF Booked
<1>5. ASSUME i \notin overtaken,
             ~\E b \in Are("approved") : Twice(ra[b].lines, i) \/ b \in overtaken
      PROVE  boq[i].executed <= boq[i].qty
  <2>1. \A b \in RaBills : ra[b].status = "approved" => Good(b, i)
    BY <1>5 DEF Are, Good
  <2>2. Kept(i) = Booking(i)
    BY <2>1 DEF Kept, Booking, Good
  <2> QED
    BY <1>1, <1>5, <2>2 DEF WithinGood, Booked
<1> QED
  BY <1>4, <1>5

\* What is executed of an item is what its approved bills measure, and within its quantity
\* unless a bill names the item twice, or the quantity was reduced under an approval that
\* had read it (approveRaBill, cancelRaBill, saveBoqItem).
THEOREM ExecutedWithinBoq == Spec => []WithinBoq
<1>1. Init => WithinGood
  <2> SUFFICES ASSUME Init PROVE WithinGood
    OBVIOUS
  <2>1. TypeOK /\ Booked
    BY InitEstablishes DEF IInv
  <2>2. ASSUME NEW i \in Items PROVE SumOver(Kept(i)) <= boq[i].qty
    <3>1. boq[i].executed = 0
      BY DEF Init
    <3>2. boq[i].qty \in Nat
      BY <2>1, BoqIsNat DEF TypeOK
    <3> QED
      BY <2>1, <3>1, <3>2, KeptIsExecuted
  <2> QED
    BY <2>2 DEF WithinGood
<1>2. IInv /\ WithinGood => WithinBoq
  BY GoodIsWithin
<1>3. IInv /\ IInv' /\ WithinGood /\ [Next]_vars => WithinGood'
  BY WithinGoodKept
<1> QED
  BY <1>1, <1>2, <1>3, Invariance, PTL DEF Spec

-------------------------------------------------------------------------------
(* The mobilization advance                                                *)

\* What the approved ones of some bills have recovered.
Takings(bills) == [b \in RaBills |-> IF bills[b].status = "approved" THEN bills[b].recovery ELSE 0]

SoFar(bills) ==
    SumOver([b \in {c \in RaBills : bills[c].status = "approved"} |-> bills[b].recovery])

\* What the bills recover is the sum of their recoveries, a whole number.
LEMMA SoFarIs ==
    ASSUME NEW bills \in [RaBills -> RaBill]
    PROVE  /\ SoFar(bills) = SumOver(Takings(bills)) /\ SoFar(bills) \in Nat
           /\ Takings(bills) \in [RaBills -> Nat]
           /\ \A b \in RaBills : bills[b].recovery \in Nat
<1>1. \A b \in RaBills : bills[b].recovery \in Nat
  BY DEF RaBill
<1>2. PICK f : f = Takings(bills)
  OBVIOUS
<1>3. f \in [RaBills -> Nat] /\ f \in [RaBills -> Int]
  BY <1>1, <1>2 DEF Takings
<1>4. PICK T : T = {c \in RaBills : bills[c].status = "approved"}
  OBVIOUS
<1>5. PICK h : h = [b \in T |-> bills[b].recovery]
  OBVIOUS
<1>6. T \in SUBSET RaBills /\ \A b \in RaBills \ T : f[b] = 0
  BY <1>2, <1>4 DEF Takings
<1>7. DOMAIN h = T /\ h = [b \in T |-> h[b]] /\ \A b \in T : h[b] = f[b]
  BY <1>2, <1>4, <1>5, <1>6 DEF Takings
<1>8. SumOver(h) = SumOver(f)
  BY <1>3, <1>6, <1>7, SumWhere, RowsAssumption
<1>9. SumOver(f) \in Nat
  BY <1>3, SumIsNat, RowsAssumption
<1> QED
  BY <1>1, <1>2, <1>3, <1>4, <1>5, <1>8, <1>9 DEF SoFar

\* When one bill changes, what is recovered changes by what it recovered and recovers.
LEMMA SoFarChanges ==
    ASSUME NEW old \in [RaBills -> RaBill], NEW new \in [RaBills -> RaBill], NEW b \in RaBills,
           \A c \in RaBills : c # b => new[c] = old[c]
    PROVE  SoFar(new) = SoFar(old)
                        - (IF old[b].status = "approved" THEN old[b].recovery ELSE 0)
                        + (IF new[b].status = "approved" THEN new[b].recovery ELSE 0)
<1>1. PICK f : f = Takings(old)
  OBVIOUS
<1>2. PICK g : g = Takings(new)
  OBVIOUS
<1>3. f \in [RaBills -> Int] /\ SoFar(old) = SumOver(f)
  BY <1>1, SoFarIs
<1>4. g \in [RaBills -> Int] /\ SoFar(new) = SumOver(g)
  BY <1>2, SoFarIs
<1>5. \A c \in RaBills \ {b} : f[c] = g[c]
  BY <1>1, <1>2 DEF Takings
<1>6. SumOver(g) = SumOver(f) - f[b] + g[b]
  BY <1>3, <1>4, <1>5, SumChanges, RowsAssumption
<1> QED
  BY <1>1, <1>2, <1>3, <1>4, <1>6 DEF Takings

\* The sum that the code takes over the approved bills is that sum.
LEMMA RecoveredIs == Recovered = SoFar(ra)
BY DEF Recovered, SoFar, Are

\* The advance covers what is recovered, with the draft, or with the bill that is about
\* to be drafted.
Reach ==
    /\ SoFar(ra) <= Advance
    /\ \A b \in RaBills : ra[b].status = "draft" => SoFar(ra) + ra[b].recovery <= Advance
    /\ \A r \in Requests : req[r].op = "create" /\ req[r].step = "commit" =>
           SoFar(ra) + req[r].recovery <= Advance

\* It stays so when no more is recovered, by no other draft and no other request.
LEMMA ReachStays ==
    ASSUME TypeOK, ra' \in [RaBills -> RaBill], Reach, SoFar(ra') <= SoFar(ra),
           \A b \in RaBills : ra'[b].status = "draft" =>
               ra[b].status = "draft" /\ ra'[b].recovery = ra[b].recovery,
           \A r \in Requests : req'[r].op = "create" /\ req'[r].step = "commit" =>
               /\ req[r].op = "create" /\ req[r].step = "commit"
               /\ req'[r].recovery = req[r].recovery
    PROVE  Reach'
<1>1. SoFar(ra) \in Nat
  BY SoFarIs DEF TypeOK
<1>2. SoFar(ra') \in Nat
  BY SoFarIs
<1>3. \A b \in RaBills : ra[b].recovery \in Nat
  BY SoFarIs DEF TypeOK
<1>4. \A r \in Requests : req[r].recovery \in Nat
  BY DEF TypeOK, Request
<1>5. Advance \in Nat
  BY QuantitiesAssumption
<1>6. SoFar(ra') <= Advance
  BY <1>1, <1>2, <1>5 DEF Reach
<1>7. ASSUME NEW b \in RaBills, ra'[b].status = "draft"
      PROVE  SoFar(ra') + ra'[b].recovery <= Advance
  <2>1. SoFar(ra) + ra[b].recovery <= Advance /\ ra'[b].recovery = ra[b].recovery
    BY <1>7 DEF Reach
  <2> QED
    BY <1>1, <1>2, <1>3, <1>5, <2>1
<1>8. ASSUME NEW r \in Requests, req'[r].op = "create", req'[r].step = "commit"
      PROVE  SoFar(ra') + req'[r].recovery <= Advance
  <2>1. SoFar(ra) + req[r].recovery <= Advance /\ req'[r].recovery = req[r].recovery
    BY <1>8 DEF Reach
  <2> QED
    BY <1>1, <1>2, <1>4, <1>5, <2>1
<1> QED
  BY <1>6, <1>7, <1>8 DEF Reach

\* A step that writes no running bill, and takes no request to a draft, leaves the
\* advance as it is.
LEMMA ReachUntouched ==
    ASSUME TypeOK, Reach, ra' = ra,
           \A r \in Requests : req'[r].op = "create" /\ req'[r].step = "commit" =>
               /\ req[r].op = "create" /\ req[r].step = "commit"
               /\ req'[r].recovery = req[r].recovery
    PROVE  Reach'
<1>1. SoFar(ra) \in Nat /\ ra \in [RaBills -> RaBill]
  BY SoFarIs DEF TypeOK
<1>2. SoFar(ra') <= SoFar(ra)
  BY <1>1
<1>3. \A b \in RaBills : ra'[b].status = "draft" =>
        ra[b].status = "draft" /\ ra'[b].recovery = ra[b].recovery
  OBVIOUS
<1> QED
  BY <1>1, <1>2, <1>3, ReachStays

\* The requests that do not end are drafting what they did, and what does end, nothing.
LEMMA EndDraftsNothing ==
    ASSUME TypeOK, NEW r \in Requests, NEW S, End(r, S)
    PROVE  \A q \in Requests : req'[q].op = "create" /\ req'[q].step = "commit" =>
               /\ q # r /\ req[q].op = "create" /\ req[q].step = "commit"
               /\ req'[q].recovery = req[q].recovery
<1>1. req'[r] = Idle /\ \A q \in Requests \ {r} : SameButFresh(req[q], req'[q])
  BY EndDoes
<1>2. req'[r].op # "create"
  BY <1>1, IdleTyped DEF Operations
<1> QED
  BY <1>1, <1>2 DEF SameButFresh

\* computeRaBill recovers no more than is outstanding.
LEMMA ReadAdvanceReaches ==
    ASSUME IInv, Reach, NEW r \in Requests, ReadAdvance(r)
    PROVE  Reach'
<1>1. TypeOK /\ req \in [Requests -> Request] /\ ra \in [RaBills -> RaBill]
  BY DEF IInv, TypeOK
<1>2. PICK p : p = req[r]
  OBVIOUS
<1>3. PICK recovery : recovery = Recovery(Gross(p.lines), Advance - Recovered)
  OBVIOUS
<1>4. PICK num : num = Largest({ra[b].sequence : b \in RaBills}) + 1
  OBVIOUS
<1>5. PICK q : q = [p EXCEPT !.step = "commit", !.recovery = recovery, !.num = num]
  OBVIOUS
<1>6. req' = [req EXCEPT ![r] = q] /\ ra' = ra
  BY <1>2, <1>3, <1>4, <1>5 DEF ReadAdvance, rows
<1>7. p \in Request
  BY <1>1, <1>2
<1>8. q.recovery = recovery
  BY <1>5, <1>7 DEF Request
<1>9. SoFar(ra) \in Nat /\ Recovered = SoFar(ra) /\ Advance \in Nat /\ SoFar(ra) <= Advance
  BY <1>1, RecoveredIs, SoFarIs, QuantitiesAssumption DEF Reach
<1>10. Gross(p.lines) \in Nat
  <2>1. p.lines \in Seq(Line)
    BY <1>7 DEF Request
  <2> QED
    BY <2>1, GrossIsNat
<1>11. PICK outstanding \in Nat : outstanding = Advance - Recovered
  BY <1>9
<1>12. recovery \in Nat /\ recovery <= outstanding
  <2>1. outstanding \in Int /\ outstanding >= 0
    OBVIOUS
  <2>2. Recovery(Gross(p.lines), outstanding) <= outstanding
        /\ Recovery(Gross(p.lines), outstanding) \in Nat
    BY <1>10, <2>1, RecoveryFits
  <2> QED
    BY <1>3, <1>11, <2>2
<1>13. SoFar(ra) + recovery <= Advance
  BY <1>9, <1>11, <1>12
<1>14. req'[r] = q /\ \A s \in Requests : s # r => req'[s] = req[s]
  BY <1>1, <1>6
<1> QED
  BY <1>6, <1>8, <1>13, <1>14 DEF Reach

\* An approval recovers what its bill was drafted with; there is no other draft then, and
\* none on its way.
LEMMA ApprovalReaches ==
    ASSUME IInv, Reach, NEW r \in Requests, CommitApprove(r)
    PROVE  Reach'
<1>1. TypeOK /\ OneDraft /\ ra \in [RaBills -> RaBill] /\ RequestsSound
  BY DEF IInv, TypeOK
<1>2. PICK b : b = req[r].on
  OBVIOUS
<1>3. /\ b \in RaBills /\ ra[b].status = "draft" /\ ra' \in [RaBills -> RaBill]
      /\ \A c \in RaBills : c # b => ra'[c] = ra[c]
      /\ ra'[b] = [ra[b] EXCEPT !.status = "approved"]
  BY <1>2, ApproveDoes
<1>4. ra'[b].status = "approved" /\ ra'[b].recovery = ra[b].recovery
  BY <1>1, <1>3 DEF RaBill
<1>5. SoFar(ra) \in Nat /\ ra[b].recovery \in Nat /\ SoFar(ra) + ra[b].recovery <= Advance
  BY <1>1, <1>3, SoFarIs DEF Reach
<1>6. SoFar(ra') = SoFar(ra) + ra[b].recovery
  <2>1. SoFar(ra') = SoFar(ra)
                     - (IF ra[b].status = "approved" THEN ra[b].recovery ELSE 0)
                     + (IF ra'[b].status = "approved" THEN ra'[b].recovery ELSE 0)
    BY <1>1, <1>3, SoFarChanges
  <2> QED
    BY <1>3, <1>4, <1>5, <2>1
<1>7. \A c \in RaBills : ra'[c].status # "draft"
  BY <1>1, <1>3, <1>4 DEF OneDraft
<1>8. ASSUME NEW q \in Requests, req'[q].op = "create", req'[q].step = "commit"
      PROVE  FALSE
  <2>1. End(r, Past("cancel") \cup {s \in Requests : req[s].op = "save"})
    BY ApproveDoes
  <2>2. req[q].op = "create" /\ req[q].step = "commit"
    BY <1>1, <1>8, <2>1, EndDraftsNothing
  <2>3. NoDraft
    BY <1>1, <2>2 DEF RequestsSound, Runs, Creates
  <2> QED
    BY <1>3, <2>3 DEF NoDraft
<1>9. SoFar(ra') <= Advance
  BY <1>5, <1>6
<1> QED
  BY <1>7, <1>8, <1>9 DEF Reach

\* A draft recovers no more than what is left of the advance.
LEMMA CreationReaches ==
    ASSUME IInv, Reach, NEW r \in Requests, CommitCreate(r)
    PROVE  Reach'
<1>1. TypeOK /\ ra \in [RaBills -> RaBill]
  BY DEF IInv, TypeOK
<1>2. PICK b : b = req[r].on
  OBVIOUS
<1>3. /\ req[r].op = "create" /\ req[r].step = "commit" /\ End(r, {})
      /\ b \in RaBills /\ ra[b] = NoBill /\ NoDraft /\ ra' \in [RaBills -> RaBill]
      /\ \A c \in RaBills : c # b => ra'[c] = ra[c]
      /\ ra'[b].status = "draft" /\ ra'[b].recovery = req[r].recovery
  BY <1>2, CreateDoes
<1>4. SoFar(ra) \in Nat /\ SoFar(ra) + req[r].recovery <= Advance
  BY <1>1, <1>3, SoFarIs DEF Reach
<1>5. SoFar(ra') = SoFar(ra)
  <2>1. SoFar(ra') = SoFar(ra)
                     - (IF ra[b].status = "approved" THEN ra[b].recovery ELSE 0)
                     + (IF ra'[b].status = "approved" THEN ra'[b].recovery ELSE 0)
    BY <1>1, <1>3, SoFarChanges
  <2>2. ra[b].status # "approved" /\ ra'[b].status # "approved"
    BY <1>3, NoBillTyped
  <2> QED
    BY <1>4, <2>1, <2>2
<1>6. \A c \in RaBills : ra'[c].status = "draft" => c = b
  BY <1>3 DEF NoDraft
<1>7. ASSUME NEW q \in Requests, req'[q].op = "create", req'[q].step = "commit"
      PROVE  FALSE
  <2>1. q # r /\ req[q].op = "create" /\ req[q].step = "commit"
    BY <1>1, <1>3, <1>7, EndDraftsNothing
  <2> QED
    BY <1>3, <2>1, HeldApart
<1> QED
  BY <1>3, <1>4, <1>5, <1>6, <1>7 DEF Reach

\* A cancellation gives back what its bill recovered.
LEMMA CancellationReaches ==
    ASSUME IInv, Reach, NEW r \in Requests, CommitCancel(r)
    PROVE  Reach'
<1>1. TypeOK /\ ra \in [RaBills -> RaBill]
  BY DEF IInv, TypeOK
<1>2. PICK b : b = req[r].on
  OBVIOUS
<1>3. /\ End(r, {}) /\ b \in RaBills /\ ra' \in [RaBills -> RaBill]
      /\ \A c \in RaBills : c # b => ra'[c] = ra[c]
      /\ ra'[b] = [ra[b] EXCEPT !.status = "cancelled"]
  BY <1>2, CancelDoes
<1>4. ra'[b].status = "cancelled"
  BY <1>1, <1>3 DEF RaBill
<1>5. SoFar(ra) \in Nat /\ ra[b].recovery \in Nat
  BY <1>1, <1>3, SoFarIs
<1>6. SoFar(ra') <= SoFar(ra)
  <2>1. SoFar(ra') = SoFar(ra)
                     - (IF ra[b].status = "approved" THEN ra[b].recovery ELSE 0)
                     + (IF ra'[b].status = "approved" THEN ra'[b].recovery ELSE 0)
    BY <1>1, <1>3, SoFarChanges
  <2> QED
    BY <1>4, <1>5, <2>1
<1>7. \A c \in RaBills : ra'[c].status = "draft" =>
        ra[c].status = "draft" /\ ra'[c].recovery = ra[c].recovery
  BY <1>3, <1>4
<1>8. \A q \in Requests : req'[q].op = "create" /\ req'[q].step = "commit" =>
        /\ req[q].op = "create" /\ req[q].step = "commit"
        /\ req'[q].recovery = req[q].recovery
  BY <1>1, <1>3, EndDraftsNothing
<1> QED
  BY <1>1, <1>3, <1>6, <1>7, <1>8, ReachStays

\* A request that is not about to write a draft.
LEMMA ReachOfOne ==
    ASSUME TypeOK, Reach, ra' = ra, NEW r \in Requests, NEW q, req' = [req EXCEPT ![r] = q],
           ~(q.op = "create" /\ q.step = "commit")
    PROVE  Reach'
<1>1. req \in [Requests -> Request]
  BY DEF TypeOK
<1>2. req'[r] = q /\ \A s \in Requests : s # r => req'[s] = req[s]
  BY <1>1
<1> QED
  BY <1>2, ReachUntouched

\* Every step keeps recoveries within the advance.
LEMMA ReachKept ==
    ASSUME IInv, Reach, [Next]_vars
    PROVE  Reach'
<1>1. TypeOK /\ req \in [Requests -> Request] /\ RequestsSound
  BY DEF IInv, TypeOK
<1>2. ASSUME NEW b \in RaBills, PayInvoice(b) \/ UnpayInvoice(b)
      PROVE  Reach'
  <2>1. ra' = ra
    BY <1>2 DEF PayInvoice, UnpayInvoice
  <2>2. ASSUME NEW q \in Requests
        PROVE  /\ req'[q].op = req[q].op /\ req'[q].step = req[q].step
               /\ req'[q].recovery = req[q].recovery
    <3>1. CASE UnpayInvoice(b)
      BY <3>1 DEF UnpayInvoice
    <3>2. CASE PayInvoice(b)
      <4>1. PICK p \in Request : p = req[q]
        BY <1>1
      <4>2. PICK fresh : fresh = (p.fresh /\ ~(q \in Past("cancel") /\ p.on = b))
        OBVIOUS
      <4>3. PICK x : x = [p EXCEPT !.fresh = fresh]
        OBVIOUS
      <4>4. req'[q] = x
        BY <3>2, <4>1, <4>2, <4>3 DEF PayInvoice
      <4>5. x.op = p.op /\ x.step = p.step /\ x.recovery = p.recovery
        BY <4>3 DEF Request
      <4> QED
        BY <4>1, <4>4, <4>5
    <3> QED
      BY <1>2, <3>1, <3>2
  <2> QED
    BY <1>1, <2>1, <2>2, ReachUntouched
<1>3. ASSUME NEW r \in Requests, NEW step, NEW op, NEW on, NEW lines, NEW num,
             Begin(r, step, op, on, lines, num), ~(op = "create" /\ step = "commit")
      PROVE  Reach'
  <2>1. PICK q : q = [Idle EXCEPT !.step = step, !.op = op, !.on = on,
                                  !.lines = lines, !.num = num]
    OBVIOUS
  <2>2. q.op = op /\ q.step = step
    BY <2>1 DEF Idle
  <2>3. ra' = ra /\ req' = [req EXCEPT ![r] = q]
    BY <1>3, <2>1 DEF Begin, rows
  <2> QED
    BY <1>1, <1>3, <2>2, <2>3, ReachOfOne
<1>4. ASSUME NEW r \in Requests, Start(r)
      PROVE  Reach'
  BY <1>3, <1>4 DEF Start, BeginCreate, BeginApprove, BeginCancel, BeginSave, BeginMeasure
<1>5. ASSUME NEW r \in Requests, NEW S, End(r, S), ra' = ra
      PROVE  Reach'
  BY <1>1, <1>5, EndDraftsNothing, ReachUntouched
<1>6. ASSUME NEW r \in Requests, Refuse(r) \/ Fail(r) \/ CommitSave(r) \/ CommitMeasure(r)
      PROVE  Reach'
  <2>1. \E S : End(r, S)
    BY <1>6 DEF Refuse, Fail, CommitSave, CommitMeasure
  <2>2. ra' = ra
    BY <1>6 DEF Refuse, Fail, CommitSave, CommitMeasure, rows
  <2> QED
    BY <1>5, <2>1, <2>2
<1>7. ASSUME NEW r \in Requests,
             LockProject(r) \/ LockBill(r) \/ LockWorkOrder(r) \/ TakeJournalNumber(r)
      PROVE  Reach'
  <2>1. PICK p \in Request : p = req[r]
    BY <1>1
  <2>2. ra' = ra
    BY <1>7 DEF LockProject, LockBill, LockWorkOrder, TakeJournalNumber, rows
  <2>3. CASE LockProject(r)
    <3>1. PICK previous : previous = [i \in Items |-> boq[i].executed]
      OBVIOUS
    <3>2. PICK q : q = [p EXCEPT !.step = "advance", !.previous = previous]
      OBVIOUS
    <3>3. q.step = "advance" /\ req' = [req EXCEPT ![r] = q]
      BY <2>1, <2>3, <3>1, <3>2 DEF LockProject, Request
    <3> QED
      BY <1>1, <2>2, <3>3, ReachOfOne
  <2>4. CASE LockBill(r)
    <3>1. PICK step : step = IF p.op = "cancel" /\ p.step = "bill" /\ ra[p.on].status = "draft"
                             THEN "commit" ELSE "journal"
      OBVIOUS
    <3>2. PICK was : was = ra[p.on].status
      OBVIOUS
    <3>3. PICK q : q = [p EXCEPT !.step = step, !.was = was]
      OBVIOUS
    <3>4. req' = [req EXCEPT ![r] = q] /\ p.op \in {"approve", "cancel"}
      BY <2>1, <2>4, <3>1, <3>2, <3>3 DEF LockBill, At
    <3>5. q.op = p.op
      BY <3>3 DEF Request
    <3> QED
      BY <1>1, <2>2, <3>4, <3>5, ReachOfOne
  <2>5. CASE LockWorkOrder(r)
    <3>1. PICK q : q = [p EXCEPT !.step = "journal"]
      OBVIOUS
    <3>2. q.step = "journal" /\ req' = [req EXCEPT ![r] = q]
      BY <2>1, <2>5, <3>1 DEF LockWorkOrder, Request
    <3> QED
      BY <1>1, <2>2, <3>2, ReachOfOne
  <2>6. CASE TakeJournalNumber(r)
    <3>1. PICK q : q = [p EXCEPT !.step = "commit"]
      OBVIOUS
    <3>2. q.op = p.op /\ req' = [req EXCEPT ![r] = q] /\ p.step = "journal"
      BY <2>1, <2>6, <3>1 DEF TakeJournalNumber, Request
    <3>3. p.op # "create"
      BY <1>1, <2>1, <3>2 DEF RequestsSound, Runs, Creates
    <3> QED
      BY <1>1, <2>2, <3>2, <3>3, ReachOfOne
  <2> QED
    BY <1>7, <2>3, <2>4, <2>5, <2>6
<1>8. ASSUME NEW r \in Requests, Proceed(r)
      PROVE  Reach'
  BY <1>6, <1>7, <1>8, ReadAdvanceReaches, CreationReaches, ApprovalReaches,
     CancellationReaches DEF Proceed
<1>9. ASSUME UNCHANGED vars PROVE Reach'
  BY <1>9 DEF vars, rows, Reach
<1> QED
  BY <1>2, <1>4, <1>6, <1>8, <1>9 DEF Next

\* The approved bills never recover more than the advance, however many requests draft,
\* approve and cancel bills at once (createRaBill, computeRaBill).
THEOREM RecoveredWithinAdvance == Spec => []AdvanceWithinReach
<1>1. Init => Reach
  <2> SUFFICES ASSUME Init PROVE Reach
    OBVIOUS
  <2>1. \A b \in RaBills : ra[b].status = "none"
    BY NoBillTyped DEF Init
  <2>2. ra \in [RaBills -> RaBill]
    BY InitEstablishes DEF IInv, TypeOK
  <2>3. PICK f : f = Takings(ra)
    OBVIOUS
  <2>4. SoFar(ra) = SumOver(f) /\ f \in [RaBills -> Nat]
    BY <2>2, <2>3, SoFarIs
  <2>5. f \in [RaBills -> Int] /\ \A b \in RaBills : f[b] = 0
    BY <2>1, <2>3, <2>4 DEF Takings
  <2>6. SoFar(ra) = 0
    BY <2>4, <2>5, SumOfZeros, RowsAssumption
  <2>7. \A r \in Requests : req[r].op # "create"
    BY IdleTyped DEF Init, Operations
  <2> QED
    BY <2>1, <2>6, <2>7, QuantitiesAssumption DEF Reach
<1>2. Reach => AdvanceWithinReach
  BY RecoveredIs DEF Reach, AdvanceWithinReach
<1>3. IInv /\ Reach /\ [Next]_vars => Reach'
  BY ReachKept
<1> QED
  BY <1>1, <1>2, <1>3, Invariance, PTL DEF Spec

-------------------------------------------------------------------------------
(* Cancelling from the latest bill back                                    *)

\* An approved bill is cancelled only when no later one is approved and nothing is paid.
LEMMA CancelOnlyLatest ==
    ASSUME IInv, [Next]_vars, NEW b \in RaBills \ overtaken',
           ra[b].status = "approved", ra'[b].status = "cancelled"
    PROVE  (\A c \in Are("approved") : ra[c].sequence <= ra[b].sequence) /\ ~invoice[b].paid
<1>1. ASSUME ra' = ra PROVE FALSE
  BY <1>1
<1>2. ASSUME NEW c \in RaBills, PayInvoice(c) \/ UnpayInvoice(c) PROVE FALSE
  BY <1>1, <1>2 DEF PayInvoice, UnpayInvoice
<1>3. ASSUME NEW r \in Requests, CommitCreate(r) PROVE FALSE
  <2>1. PICK c \in RaBills : c = req[r].on
    BY <1>3, CreateDoes
  <2>2. ra'[c].status = "draft" /\ \A d \in RaBills : d # c => ra'[d] = ra[d]
    BY <1>3, <2>1, CreateDoes
  <2> QED
    BY <2>2
<1>4. ASSUME NEW r \in Requests, CommitApprove(r) PROVE FALSE
  <2>1. PICK c \in RaBills : c = req[r].on
    BY <1>4, ApproveDoes
  <2>2. ra[c].status = "draft" /\ \A d \in RaBills : d # c => ra'[d] = ra[d]
    BY <1>4, <2>1, ApproveDoes
  <2> QED
    BY <2>2
<1>5. ASSUME NEW r \in Requests, CommitSave(r) \/ CommitMeasure(r) PROVE FALSE
  BY <1>1, <1>5 DEF CommitSave, CommitMeasure
<1>6. ASSUME NEW r \in Requests, CommitCancel(r)
      PROVE  Latest(b) /\ ~invoice[b].paid
  <2>1. PICK c \in RaBills : c = req[r].on
    BY <1>6, CancelDoes
  <2>2. /\ \A d \in RaBills : d # c => ra'[d] = ra[d]
        /\ ra[c].status = req[r].was
        /\ req[r].was = "approved" /\ req[r].fresh => Latest(c) /\ ~invoice[c].paid
        /\ Wrote(r)
    BY <1>6, <2>1, CancelDoes
  <2>3. b = c
    BY <2>2
  <2>4. req[r].fresh
    BY <2>1, <2>2, <2>3 DEF Wrote
  <2> QED
    BY <2>2, <2>3, <2>4
<1>7. ASSUME UNCHANGED rows PROVE FALSE
  BY <1>1, <1>7 DEF rows
<1> QED
  BY <1>2, <1>3, <1>4, <1>5, <1>6, <1>7, RowSteps DEF Latest

\* Bills are cancelled from the latest one back and before they are paid, unless another was
\* approved, or the invoice paid, after the request had looked (cancelRaBill).
THEOREM LatestCancelled == Spec => CancelledIsLatest
<1>1. IInv /\ [Next]_vars =>
        \A b \in RaBills \ overtaken' :
            ra[b].status = "approved" /\ ra'[b].status = "cancelled" =>
                /\ \A c \in Are("approved") : ra[c].sequence <= ra[b].sequence
                /\ ~invoice[b].paid
  BY CancelOnlyLatest
<1> QED
  BY <1>1, Invariance, PTL DEF Spec, CancelledIsLatest

-------------------------------------------------------------------------------
(* Subcontractors' bills                                                   *)

\* A bill that is measured fits what its work order has left, as every bill before did.
LEMMA MeasureKeepsOnce ==
    ASSUME IInv, MeasuredOnce, NEW r \in Requests, CommitMeasure(r), NEW w \in WorkLines
    PROVE  /\ executed'[w] = SumOver([s \in SubBills |-> QtyOf(sub'[s], w)])
           /\ executed'[w] <= Ordered[w] \/ \E s \in SubBills : Twice(sub'[s], w)
<1>1. sub \in [SubBills -> Seq(Line)] /\ executed \in [WorkLines -> Nat]
  BY DEF IInv, TypeOK
<1>2. PICK t : t = req[r].on
  OBVIOUS
<1>3. PICK lines : lines = req[r].lines
  OBVIOUS
<1>4. /\ t \in SubBills /\ sub[t] = <<>> /\ lines \in Seq(Line) /\ Measurable(lines)
      /\ sub' \in [SubBills -> Seq(Line)] /\ sub'[t] = lines
      /\ \A s \in SubBills : s # t => sub'[s] = sub[s]
      /\ executed'[w] = executed[w] + QtyOf(lines, w)
  BY <1>2, <1>3, MeasureDoes
<1>5. PICK f : f = [s \in SubBills |-> QtyOf(sub[s], w)]
  OBVIOUS
<1>6. PICK g : g = [s \in SubBills |-> QtyOf(sub'[s], w)]
  OBVIOUS
<1>7. f \in [SubBills -> Int] /\ g \in [SubBills -> Int]
  <2>1. \A s \in SubBills : QtyOf(sub[s], w) \in Nat /\ QtyOf(sub'[s], w) \in Nat
    BY <1>1, <1>4, QtyIsNat
  <2> QED
    BY <1>5, <1>6, <2>1
<1>8. f[t] = 0 /\ g[t] = QtyOf(lines, w) /\ \A s \in SubBills \ {t} : f[s] = g[s]
  <2>1. QtyOf(sub[t], w) = 0
    BY <1>4, NoLinesMeasure
  <2>2. t \in SubBills /\ sub'[t] = lines /\ \A s \in SubBills : s # t => sub'[s] = sub[s]
    BY <1>4
  <2>3. f[t] = QtyOf(sub[t], w) /\ g[t] = QtyOf(sub'[t], w)
    BY <1>5, <1>6, <2>2
  <2>4. \A s \in SubBills \ {t} : f[s] = g[s]
    BY <1>5, <1>6, <2>2
  <2> QED
    BY <2>1, <2>2, <2>3, <2>4
<1>9. SumOver(g) = SumOver(f) - f[t] + g[t]
  <2>1. IsFiniteSet(SubBills) /\ t \in SubBills
    BY <1>4, RowsAssumption
  <2>2. \A s \in SubBills \ {t} : f[s] = g[s]
    BY <1>8
  <2> QED
    BY <1>7, <2>1, <2>2, SumChanges
<1>10. executed[w] = SumOver(f) /\ executed[w] \in Nat
  BY <1>1, <1>5 DEF MeasuredOnce
<1>11. QtyOf(lines, w) \in Nat
  BY <1>4, QtyIsNat
<1>12. executed'[w] = SumOver(g)
  BY <1>4, <1>8, <1>9, <1>10, <1>11
<1>13. ASSUME ~\E s \in SubBills : Twice(sub'[s], w)
       PROVE  executed'[w] <= Ordered[w]
  <2>1. ~\E s \in SubBills : Twice(sub[s], w)
    BY <1>4, <1>13, NoLinesMeasure
  <2>2. PICK e \in Nat : e = executed[w]
    BY <1>10
  <2>3. PICK limit \in Nat : limit = Ordered[w]
    BY QuantitiesAssumption
  <2>4. e <= limit
    BY <2>1, <2>2, <2>3 DEF MeasuredOnce
  <2>5. ~Twice(lines, w)
    BY <1>4, <1>13
  <2>6. \A n \in DOMAIN lines : lines[n].of = w => e + lines[n].qty <= limit
    BY <1>4, <2>2, <2>3 DEF Measurable
  <2>7. e + QtyOf(lines, w) <= limit
    BY <1>4, <2>4, <2>5, <2>6, OneFits
  <2> QED
    BY <1>4, <2>2, <2>3, <2>7
<1> QED
  BY <1>6, <1>12, <1>13

\* Every step measures each work order's work once.
LEMMA MeasuredOnceKept ==
    ASSUME IInv, MeasuredOnce, [Next]_vars
    PROVE  MeasuredOnce'
<1>1. ASSUME sub' = sub, executed' = executed PROVE MeasuredOnce'
  BY <1>1 DEF MeasuredOnce
<1>2. ASSUME NEW b \in RaBills, PayInvoice(b) \/ UnpayInvoice(b) PROVE MeasuredOnce'
  BY <1>1, <1>2 DEF PayInvoice, UnpayInvoice
<1>3. ASSUME NEW r \in Requests,
             CommitCreate(r) \/ CommitApprove(r) \/ CommitCancel(r) \/ CommitSave(r)
      PROVE  MeasuredOnce'
  BY <1>1, <1>3 DEF CommitCreate, CommitApprove, CommitCancel, CommitSave
<1>4. ASSUME NEW r \in Requests, CommitMeasure(r) PROVE MeasuredOnce'
  BY <1>4, MeasureKeepsOnce DEF MeasuredOnce
<1>5. ASSUME UNCHANGED rows PROVE MeasuredOnce'
  BY <1>1, <1>5 DEF rows
<1> QED
  BY <1>2, <1>3, <1>4, <1>5, RowSteps

\* A line of the work order is measured up to its quantity by any number of bills entered at
\* once, unless one bill names the line twice (createSubcontractBill).
THEOREM WorkMeasuredOnce == Spec => []MeasuredOnce
<1>1. Init => MeasuredOnce
  <2> SUFFICES ASSUME Init, NEW w \in WorkLines
               PROVE  executed[w] = SumOver([s \in SubBills |-> QtyOf(sub[s], w)])
                      /\ executed[w] <= Ordered[w]
    BY DEF MeasuredOnce
  <2>1. PICK f : f = [s \in SubBills |-> QtyOf(sub[s], w)]
    OBVIOUS
  <2>2. \A s \in SubBills : QtyOf(sub[s], w) = 0
    <3>1. \A s \in SubBills : sub[s] = <<>>
      BY DEF Init
    <3> QED
      BY <3>1, NoLinesMeasure
  <2>3. f \in [SubBills -> Int] /\ \A s \in SubBills : f[s] = 0
    BY <2>1, <2>2
  <2>4. SumOver(f) = 0
    BY <2>3, SumOfZeros, RowsAssumption
  <2>5. executed[w] = 0 /\ Ordered[w] \in Nat
    BY QuantitiesAssumption DEF Init
  <2> QED
    BY <2>1, <2>4, <2>5
<1>2. IInv /\ MeasuredOnce /\ [Next]_vars => MeasuredOnce'
  BY MeasuredOnceKept
<1> QED
  BY <1>1, <1>2, Invariance, PTL DEF Spec

================================================================================
