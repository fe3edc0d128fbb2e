----------------------------- MODULE PeopleProofs -----------------------------
(***************************************************************************)
(* What People promises, for any employees, terms and settings, any leave  *)
(* that is asked for and any sheets that are saved, and any number of      *)
(* requests at once.                                                       *)
(***************************************************************************)
EXTENDS People, SumTheorems, SequenceTheorems

-------------------------------------------------------------------------------
(* A payslip is made of whole numbers                                      *)

\* Slabs are numbered from 1, and a ceiling is a number.
LEMMA SlabsAre ==
    /\ Len(Settings.slabs) \in Nat /\ DOMAIN Settings.slabs = 1 .. Len(Settings.slabs)
    /\ \A k \in 1 .. Len(Settings.slabs) : /\ Settings.slabs[k].upTo \in Nat \cup {None}
                                           /\ Settings.slabs[k].rate \in Nat
<1>1. PICK slabs \in Seq(Slab) : slabs = Settings.slabs
  BY SettingsAssumption
<1>2. Len(slabs) \in Nat /\ DOMAIN slabs = 1 .. Len(slabs)
  BY LenProperties
<1>3. \A k \in 1 .. Len(slabs) : slabs[k] \in Slab
  BY ElementOfSeq
<1>4. \A k \in 1 .. Len(slabs) : slabs[k].upTo \in Nat \cup {None} /\ slabs[k].rate \in Nat
  BY <1>3 DEF Slab
<1> QED
  BY <1>1, <1>2, <1>4

\* The ceiling of the slab below.
Floor(k) == IF k = 1 THEN 0 ELSE Settings.slabs[k - 1].upTo

\* What is left above k slabs, by what is left above one less.
LeftStep(left, thirds, k) ==
    IF k = 0 THEN thirds ELSE left[k - 1] - Width(k, Floor(k), left[k - 1])

\* A solution up to n slabs.
LeftUpTo(left, thirds, n) ==
    \A k \in 0 .. Len(Settings.slabs) : k <= n => left[k] = LeftStep(left, thirds, k)

\* The recursion that Left is written as has a solution.
LEMMA LeftsExist ==
    ASSUME NEW thirds
    PROVE  \A n \in Nat : \E left : LeftUpTo(left, thirds, n)
<1> DEFINE Q == {n \in Nat : \E left : LeftUpTo(left, thirds, n)}
<1>0. Len(Settings.slabs) \in Nat
  BY SlabsAre
<1>1. 0 \in Q
  <2>1. LeftUpTo([k \in 0 .. Len(Settings.slabs) |-> thirds], thirds, 0)
    BY <1>0 DEF LeftUpTo, LeftStep
  <2> QED BY <2>1
<1>2. ASSUME NEW n \in Nat, n \in Q PROVE n + 1 \in Q
  <2>1. PICK left : LeftUpTo(left, thirds, n)
    BY <1>2
  <2> DEFINE more == [k \in 0 .. Len(Settings.slabs) |->
                         IF k <= n THEN left[k] ELSE LeftStep(left, thirds, k)]
  <2>2. ASSUME NEW k \in 0 .. Len(Settings.slabs), k <= n + 1
        PROVE  more[k] = LeftStep(more, thirds, k)
    <3>1. more[k] = LeftStep(left, thirds, k)
      BY <2>1 DEF LeftUpTo
    <3>2. k # 0 => more[k - 1] = left[k - 1]
      BY <1>0, <2>2
    <3> HIDE DEF more
    <3> QED BY <3>1, <3>2 DEF LeftStep
  <2> HIDE DEF more
  <2>3. LeftUpTo(more, thirds, n + 1)
    BY <2>2 DEF LeftUpTo
  <2> QED BY <2>3
<1> HIDE DEF Q
<1>3. Nat \subseteq Q
  BY <1>1, <1>2, NaturalInduction
<1> QED
  BY <1>3 DEF Q

\* Left is what its definition says.
LEMMA LeftUnfolds ==
    ASSUME NEW thirds
    PROVE  \A k \in 0 .. Len(Settings.slabs) :
              Left(thirds)[k] = LeftStep(Left(thirds), thirds, k)
<1> DEFINE S == 0 .. Len(Settings.slabs)
           Is(g) == g = [k \in S |-> LeftStep(g, thirds, k)]
<1>0. Len(Settings.slabs) \in Nat
  BY SlabsAre
<1>1. PICK left : LeftUpTo(left, thirds, Len(Settings.slabs))
  BY <1>0, LeftsExist
<1> DEFINE g == [k \in S |-> left[k]]
<1>2. \A k \in S : g[k] = LeftStep(g, thirds, k)
  <2>1. \A k \in S : g[k] = LeftStep(left, thirds, k)
    BY <1>0, <1>1 DEF LeftUpTo
  <2>2. \A k \in S : k # 0 => left[k - 1] = g[k - 1]
    BY <1>0
  <2> HIDE DEF g
  <2> QED BY <2>1, <2>2 DEF LeftStep
<1>3. g = [k \in S |-> g[k]]
  OBVIOUS
<1>4. g = [k \in S |-> LeftStep(g, thirds, k)]
  <2> HIDE DEF g
  <2> QED BY <1>2, <1>3
<1>5. Is(g)
  BY <1>4
<1> HIDE DEF g
<1>6. Left(thirds) = CHOOSE h : Is(h)
  BY DEF Left, LeftStep, Floor
<1>7. Is(CHOOSE h : Is(h))
  <2> HIDE DEF Is
  <2> QED BY <1>5
<1> DEFINE f == Left(thirds)
<1>8. f = [k \in S |-> LeftStep(f, thirds, k)]
  BY <1>6, <1>7
<1> HIDE DEF f
<1>9. \A k \in S : f[k] = LeftStep(f, thirds, k)
  BY <1>8
<1> QED
  BY <1>9 DEF f

\* What is left is a whole number, and above a slab without a ceiling nothing is.
LEMMA LeftIsInt ==
    ASSUME NEW thirds \in Int
    PROVE  \A k \in 0 .. Len(Settings.slabs) : Left(thirds)[k] \in Int
<1> DEFINE left == Left(thirds)
           slabs == Settings.slabs
           Whole(k) == left[k] \in Int /\ (k > 0 /\ slabs[k].upTo = None => left[k] <= 0)
           Q == {k \in Nat : k <= Len(slabs) => Whole(k)}
<1>0. /\ Len(slabs) \in Nat
      /\ \A k \in 1 .. Len(slabs) : slabs[k].upTo \in Nat \cup {None}
  BY SlabsAre
<1>1. \A k \in 0 .. Len(slabs) : left[k] = LeftStep(left, thirds, k)
  BY LeftUnfolds
<1> HIDE DEF left
<1>2. 0 \in Q
  BY <1>0, <1>1 DEF LeftStep
<1>3. ASSUME NEW n \in Nat, n \in Q, n + 1 <= Len(slabs) PROVE Whole(n + 1)
  <2>1. Whole(n)
    BY <1>0, <1>3
  <2>2. PICK x \in Int : x = left[n]
    BY <2>1
  <2>3. left[n + 1] = x - Width(n + 1, Floor(n + 1), x)
    BY <1>0, <1>1, <1>3, <2>2 DEF LeftStep
  <2>4. PICK upTo : upTo = slabs[n + 1].upTo /\ (upTo \in Nat \/ upTo = None)
    BY <1>0, <1>3
  <2>5. CASE x <= 0
    BY <2>2, <2>3, <2>5 DEF Width
  <2>6. CASE x > 0 /\ upTo = None
    BY <2>2, <2>3, <2>4, <2>6 DEF Width
  <2>7. CASE x > 0 /\ upTo # None
    <3>1. Floor(n + 1) \in Int
      <4>1. CASE n = 0
        BY <4>1 DEF Floor
      <4>2. CASE n # 0
        <5>1. n > 0 /\ n \in 1 .. Len(slabs) /\ slabs[n].upTo # None
          BY <1>0, <1>3, <2>1, <2>2, <2>7, <4>2
        <5>2. slabs[n].upTo \in Nat
          BY <1>0, <5>1
        <5>3. Floor(n + 1) = slabs[n].upTo
          BY <4>2 DEF Floor
        <5> QED BY <5>2, <5>3
      <4> QED BY <4>1, <4>2
    <3>2. PICK floor \in Int : floor = Floor(n + 1)
      BY <3>1
    <3>3. left[n + 1] = x - Least(x, 3 * (upTo - floor))
      BY <2>3, <2>4, <2>7, <3>2 DEF Width
    <3>4. left[n + 1] \in Int
      BY <2>4, <2>7, <3>3 DEF Least
    <3> QED BY <2>4, <2>7, <3>4
  <2> QED BY <2>2, <2>4, <2>5, <2>6, <2>7
<1>4. ASSUME NEW n \in Nat, n \in Q PROVE n + 1 \in Q
  BY <1>3, <1>4
<1> HIDE DEF Q
<1>5. Nat \subseteq Q
  BY <1>2, <1>4, NaturalInduction
<1>6. \A k \in 0 .. Len(slabs) : left[k] \in Int
  BY <1>0, <1>5 DEF Q
<1> QED
  BY <1>6 DEF left

\* A quotient is a whole number.
LEMMA RoundIsInt ==
    ASSUME NEW n \in Int, NEW d \in Nat \ {0}
    PROVE  Round(n, d) \in Int
<1>1. 2 * n + d \in Int /\ 2 * d \in Nat \ {0}
  OBVIOUS
<1> QED
  BY <1>1 DEF Round

\* The tax on a whole number is one.
LEMMA TaxIsInt ==
    ASSUME NEW thirds \in Int
    PROVE  AnnualTax(thirds) \in Int
<1>1. PICK left : left = Left(thirds)
  OBVIOUS
<1>2. PICK slabs : slabs = Settings.slabs
  OBVIOUS
<1>3. PICK f : f = [k \in DOMAIN slabs |-> (left[k - 1] - left[k]) * slabs[k].rate]
  OBVIOUS
<1>4. /\ Len(slabs) \in Nat /\ DOMAIN slabs = 1 .. Len(slabs)
      /\ \A k \in 1 .. Len(slabs) : slabs[k].rate \in Nat
  BY <1>2, SlabsAre
<1>5. IsFiniteSet(DOMAIN slabs)
  BY <1>4, FS_Interval
<1>6. \A k \in 0 .. Len(slabs) : left[k] \in Int
  BY <1>1, <1>2, LeftIsInt
<1>7. ASSUME NEW k \in DOMAIN slabs PROVE f[k] \in Int
  <2>1. k - 1 \in 0 .. Len(slabs) /\ k \in 0 .. Len(slabs)
    BY <1>4
  <2>2. PICK a \in Int, b \in Int, c \in Int :
           a = left[k - 1] /\ b = left[k] /\ c = slabs[k].rate
    BY <1>4, <1>6, <2>1
  <2>3. f[k] = (a - b) * c
    BY <1>3, <2>2
  <2> QED BY <2>3
<1>8. f \in [DOMAIN slabs -> Int]
  BY <1>3, <1>7
<1>9. SumOver(f) \in Int
  BY <1>5, <1>8, SumIsInt
<1>10. PICK tax \in Int : tax = Round(SumOver(f), 300)
  BY <1>9, RoundIsInt
<1>11. AnnualTax(thirds) = IF tax > 0 /\ tax < Settings.minimumTax THEN Settings.minimumTax ELSE tax
  BY <1>1, <1>2, <1>3, <1>10 DEF AnnualTax
<1> QED
  BY <1>11, SettingsAssumption

\* The columns of a payslip that the ledger entry is made from.
Pay == [site : BOOLEAN, gross : Int, bonus : Int, absence : Int, pf : Int, tds : Int, net : Int]

\* A payslip has a whole number in every column.
LEMMA PayslipTyped ==
    ASSUME NEW t \in Term, NEW present \in Int, NEW unpaid \in Int, NEW hours \in Int,
           NEW withBonus \in BOOLEAN
    PROVE  Payslip(t, present, unpaid, hours, withBonus) \in Pay
<1>1. /\ t.daily \in BOOLEAN /\ t.site \in BOOLEAN /\ t.taxed \in BOOLEAN
      /\ t.wage \in Nat /\ t.basic \in Nat /\ t.allowances \in Nat /\ t.pf \in Nat
      /\ t.overtime \in Nat
  BY DEF Term
<1>2. CASE t.daily
  <2>1. Round(t.wage * present, 2) \in Int /\ Round(t.wage * 2 * hours, 8) \in Int
    BY <1>1, RoundIsInt
  <2>2. PICK gross \in Int : gross = Round(t.wage * present, 2) + Round(t.wage * 2 * hours, 8)
    BY <2>1
  <2>3. Payslip(t, present, unpaid, hours, withBonus)
        = [site |-> t.site, gross |-> gross, bonus |-> 0, absence |-> 0, pf |-> 0, tds |-> 0,
           net |-> gross]
    BY <1>2, <2>2 DEF Payslip
  <2> QED BY <1>1, <2>3 DEF Pay
<1>3. CASE ~t.daily
  <2>1. PICK fixed \in Int : fixed = t.basic + t.allowances
    BY <1>1
  <2>2. PICK absence \in Int : absence = Round(t.basic * unpaid, 60)
    BY <1>1, RoundIsInt
  <2>3. PICK worked \in Int :
           worked = IF t.overtime > 0 THEN t.overtime * hours ELSE Round(t.basic * 2 * hours, 208)
    BY <1>1, RoundIsInt
  <2>4. PICK once \in Int : once = Round(t.basic * Settings.bonusPercent, 100)
    <3>1. t.basic * Settings.bonusPercent \in Int
      BY <1>1, SettingsAssumption
    <3> QED BY <3>1, RoundIsInt
  <2>5. PICK bonus \in Int : bonus = IF withBonus THEN once ELSE 0
    OBVIOUS
  <2>6. PICK pf \in Int : pf = Round(t.basic * t.pf, 100)
    BY <1>1, RoundIsInt
  <2>7. PICK annual \in Int : annual = 12 * fixed + 2 * once
    OBVIOUS
  <2>8. PICK thirds \in Int : thirds = 3 * annual - Least(annual, 3 * Settings.exemptionCap)
    BY SettingsAssumption DEF Least
  <2>9. PICK tds \in Int : tds = IF t.taxed THEN Round(AnnualTax(thirds), 12) ELSE 0
    BY <1>1, TaxIsInt, RoundIsInt
  <2>10. PICK gross \in Int : gross = fixed + worked + bonus
    OBVIOUS
  <2>11. PICK net \in Int : net = gross - absence - pf - tds
    OBVIOUS
  <2>12. Payslip(t, present, unpaid, hours, withBonus)
         = [site |-> t.site, gross |-> gross, bonus |-> bonus, absence |-> absence, pf |-> pf,
            tds |-> tds, net |-> net]
    BY <1>3, <2>1, <2>2, <2>3, <2>4, <2>5, <2>6, <2>7, <2>8, <2>9, <2>10, <2>11 DEF Payslip
  <2> QED BY <1>1, <2>12 DEF Pay
<1> QED
  BY <1>1, <1>2, <1>3

-------------------------------------------------------------------------------
(* The invariant                                                           *)

Steps == {"idle", "commit", "document", "run", "number", "sheet", "leaves"}

Sheet    == [Employees -> [Days -> Record \cup {None}]]
SlipRow  == [pay : Pay, twice : SUBSET Days]
Payslips == [Employees -> SlipRow \cup {None}]
Run      == [status : {"none", "draft", "finalized"}, slips : Payslips, net : Int]
AllTerms == [Employees -> Term \cup {None}]
Request  == [step : Steps, op : {"request", "decide", "generate", "finalize", "pay", None},
             leave : Leaves \cup {None}, form : Forms \cup {None},
             to : {"approved", "rejected", None}, bonus : BOOLEAN,
             terms : AllTerms \cup {None}, sheet : Sheet \cup {None}, seen : Nat]

RowsTyped ==
    /\ terms \in AllTerms /\ attendance \in Sheet
    /\ leave \in [Leaves -> LeaveRequest] /\ used \in [Employees -> [Types -> Nat]]
    /\ run \in Run /\ payments \in Nat /\ ledger \in [Accounts -> Int]

TypeOK == RowsTyped /\ req \in [Requests -> Request] /\ L!LocksTypeOK

\* What a request of each kind has, and what of it still holds.
Asks(q) ==
    /\ q.op = "request" /\ q.step = "commit"
    /\ q.leave \in Leaves /\ leave[q.leave] = NoLeave /\ q.form \in Forms
    /\ q.seen + Cardinality(LeaveDays(q.form.from, q.form.to)) <= Entitled[q.form.type]

Decides(q) ==
    /\ q.op = "decide" /\ q.step \in {"document", "commit"}
    /\ q.leave \in Leaves /\ leave[q.leave].status # "none"
    /\ q.to \in {"approved", "rejected"}
    /\ q.step = "commit" => leave[q.leave].status = "pending"

Generates(q) ==
    /\ q.op = "generate" /\ q.step \in {"run", "number", "sheet", "leaves"}
    /\ q.step \in {"sheet", "leaves"} => run.status \in {"none", "draft"}
    /\ q.step = "leaves" => q.terms \in AllTerms /\ q.sheet \in Sheet

Finalizes(q) ==
    /\ q.op = "finalize" /\ q.step \in {"run", "commit"}
    /\ q.step = "commit" => run.status = "draft"

Pays(q) == q.op = "pay" /\ q.step = "commit" /\ q.seen = 0 /\ run.status = "finalized"

Does(q) == q = Idle \/ Asks(q) \/ Decides(q) \/ Generates(q) \/ Finalizes(q) \/ Pays(q)

\* It holds the rows that it relies on.
Holds(r) ==
    /\ At(r, "decide", "commit") => LeaveRow(req[r].leave) \in locks[r]
    /\ req[r].op = "generate" /\ req[r].step \in {"sheet", "leaves"} =>
          (IF run.status = "none" THEN RunNumber ELSE RunRow) \in locks[r]
    /\ At(r, "finalize", "commit") => RunRow \in locks[r]

\* Two requests never make the same leave request.
OwnLeave ==
    \A q, r \in Requests :
        At(q, "request", "commit") /\ At(r, "request", "commit") /\ req[q].leave = req[r].leave
           => q = r

\* A request for leave has a form once it is made.
FormsSound == \A l \in Leaves : leave[l].status # "none" => leave[l].form \in Forms

IInv == /\ TypeOK /\ L!LocksExclusive /\ FormsSound /\ OwnLeave
        /\ \A r \in Requests : Does(req[r]) /\ Holds(r)

-------------------------------------------------------------------------------
(* Payslips and postings                                                   *)

\* The days of a leave are finitely many.
LEMMA LeaveIsFinite ==
    ASSUME NEW f \in Forms
    PROVE  /\ f.employee \in Employees /\ f.type \in Types /\ f.from \in Days /\ f.to \in Days
           /\ Cardinality(LeaveDays(f.from, f.to)) \in Nat
<1>1. /\ f.employee \in Employees /\ f.type \in Types
      /\ f.from \in Days /\ f.to \in Days
  BY InputsAssumption DEF Form
<1>2. \A d \in Days : d \in Int
  BY DaysAssumption
<1>3. IsFiniteSet(f.from .. f.to)
  BY <1>1, <1>2, FS_Interval
<1>4. IsFiniteSet(LeaveDays(f.from, f.to))
  BY <1>3, FS_Subset DEF LeaveDays
<1> QED
  BY <1>1, <1>4, FS_CardinalityType

\* A subset of the days has a number of elements.
LEMMA DaysAreCounted ==
    ASSUME NEW S \in SUBSET Days
    PROVE  IsFiniteSet(S) /\ Cardinality(S) \in Nat
BY DaysAssumption, FS_Subset, FS_CardinalityType

\* What a run computes is a payslip.
LEMMA SlipTyped ==
    ASSUME TypeOK, NEW r \in Requests, req[r].op = "generate", req[r].step = "leaves",
           Does(req[r]), NEW e \in Employees, req[r].terms[e] # None
    PROVE  Slip(r, e) \in SlipRow
<1>1. Generates(req[r])
  BY DEF Does, Idle, Asks, Decides, Finalizes, Pays
<1>2. req[r].terms[e] \in Term /\ req[r].sheet \in Sheet /\ req[r].bonus \in BOOLEAN
  BY <1>1 DEF Generates, AllTerms, TypeOK, Request
<1>3. \A marks : Marked(r, e, marks) \in SUBSET Days
  BY DaysAssumption DEF Marked
<1>4. PICK recorded \in SUBSET Days : recorded = Marked(r, e, Marks)
  BY <1>3
<1>5. PICK half \in Nat : half = Cardinality(Marked(r, e, {"half_day"}))
  BY <1>3, DaysAreCounted
<1>6. PICK absent \in SUBSET Days : absent = Marked(r, e, {"absent"})
  BY <1>3
<1>7. PICK unpaid \in SUBSET Days : unpaid = Away(e, Unpaid) \cap Month
  BY DaysAssumption
<1>8. Cardinality(absent) \in Nat /\ Cardinality(unpaid) \in Nat
      /\ Cardinality(Marked(r, e, {"present", "late"})) \in Nat
  BY <1>3, DaysAreCounted
<1>9. PICK present \in Int :
         present = IF recorded # {}
                   THEN 2 * Cardinality(Marked(r, e, {"present", "late"})) + half
                   ELSE IF req[r].terms[e].daily THEN 0 ELSE 2 * Settings.workingDays
  BY <1>8, SettingsAssumption
<1>10. PICK away \in Int : away = 2 * Cardinality(absent) + half + 2 * Cardinality(unpaid)
  BY <1>8
<1>11. PICK f : f = [d \in recorded |-> req[r].sheet[e][d].hours]
  OBVIOUS
<1>12. ASSUME NEW d \in recorded PROVE req[r].sheet[e][d].hours \in Int
  <2>1. req[r].sheet[e][d] \in Record \cup {None} /\ req[r].sheet[e][d] # None
    BY <1>2, <1>4, <1>12 DEF Sheet, Marked
  <2>2. req[r].sheet[e][d] \in Record
    BY <2>1
  <2> QED BY <2>2 DEF Record
<1>13. f \in [recorded -> Int]
  BY <1>11, <1>12
<1>14. IsFiniteSet(recorded)
  BY DaysAreCounted
<1>15. PICK hours \in Int : hours = SumOver(f)
  BY <1>13, <1>14, SumIsInt
<1>16. PICK pay : pay = Payslip(req[r].terms[e], present, away, hours, req[r].bonus)
  OBVIOUS
<1>17. pay \in Pay
  BY <1>2, <1>16, PayslipTyped
<1>18. Slip(r, e) = [pay |-> pay, twice |-> absent \cap unpaid]
  BY <1>4, <1>5, <1>6, <1>7, <1>9, <1>10, <1>11, <1>15, <1>16 DEF Slip
<1> QED
  BY <1>6, <1>17, <1>18 DEF SlipRow

\* A column of the payslips of some employees adds up to a whole number.
LEMMA ColumnIsInt ==
    ASSUME NEW slips \in Payslips, NEW S, S \subseteq {e \in Employees : slips[e] # None}
    PROVE  \A field \in {"gross", "bonus", "absence", "pf", "tds", "net"} :
              SumOver([e \in S |-> slips[e].pay[field]]) \in Int
<1>1. IsFiniteSet(S)
  BY InputsAssumption, FS_Subset
<1>2. ASSUME NEW field \in {"gross", "bonus", "absence", "pf", "tds", "net"}
      PROVE  SumOver([e \in S |-> slips[e].pay[field]]) \in Int
  <2>1. PICK f : f = [e \in S |-> slips[e].pay[field]]
    OBVIOUS
  <2>2. \A e \in S : slips[e].pay \in Pay
    BY DEF Payslips, SlipRow
  <2>3. \A e \in S : slips[e].pay[field] \in Int
    BY <2>2 DEF Pay
  <2>4. f \in [S -> Int]
    BY <2>1, <2>3
  <2> QED BY <1>1, <2>1, <2>4, SumIsInt
<1> QED
  BY <1>2

\* The postings are whole numbers, and the net pay is what becomes payable.
LEMMA PostingsTyped ==
    ASSUME NEW slips \in Payslips
    PROVE  /\ \A a \in Accounts : Postings(slips)[a] \in Int
           /\ Postings(slips)["cash"] = 0 /\ Postings(slips)["salary_payable"] = -Net(slips)
           /\ Net(slips) \in Int
<1> DEFINE on(site) == {e \in Employees : slips[e] # None /\ slips[e].pay.site = site}
           total(S, field) == SumOver([e \in S |-> slips[e].pay[field]])
           fields == {"gross", "bonus", "absence", "pf", "tds", "net"}
<1>1. PICK T : T = on(TRUE)
  OBVIOUS
<1>2. PICK F : F = on(FALSE)
  OBVIOUS
<1>3. PICK U : U = {k \in Employees : slips[k] # None}
  OBVIOUS
<1>4. T \cup F = U /\ T \subseteq U /\ F \subseteq U
  BY <1>1, <1>2, <1>3 DEF Payslips, SlipRow, Pay
<1>5. \A field \in fields : total(T, field) \in Int /\ total(F, field) \in Int /\ total(U, field) \in Int
  BY <1>3, <1>4, ColumnIsInt
<1>6. \A e \in U : slips[e].pay["net"] = slips[e].pay.net
  OBVIOUS
<1>7. Net(slips) = total(U, "net")
  BY <1>3, <1>6 DEF Net
<1>8. Postings(slips)
      = [labor_cost |-> total(T, "gross") - total(T, "bonus") - total(T, "absence"),
         salary_expense |-> total(F, "gross") - total(F, "bonus") - total(F, "absence"),
         bonus_expense |-> total(U, "bonus"), pf_expense |-> total(U, "pf"),
         salary_payable |-> -total(U, "net"), tds_payable |-> -total(U, "tds"),
         pf_payable |-> -2 * total(U, "pf"), cash |-> 0]
  BY <1>1, <1>2, <1>3, <1>4 DEF Postings
<1> HIDE DEF total
<1>9. /\ Postings(slips).labor_cost = total(T, "gross") - total(T, "bonus") - total(T, "absence")
      /\ Postings(slips).salary_expense = total(F, "gross") - total(F, "bonus") - total(F, "absence")
      /\ Postings(slips).bonus_expense = total(U, "bonus")
      /\ Postings(slips).pf_expense = total(U, "pf")
      /\ Postings(slips).salary_payable = -total(U, "net")
      /\ Postings(slips).tds_payable = -total(U, "tds")
      /\ Postings(slips).pf_payable = -2 * total(U, "pf")
      /\ Postings(slips).cash = 0
  BY <1>8
<1>10. ASSUME NEW a \in Accounts PROVE Postings(slips)[a] \in Int
  BY <1>5, <1>9 DEF Accounts
<1> QED
  BY <1>5, <1>7, <1>9, <1>10

-------------------------------------------------------------------------------
(* Every step keeps the invariant                                          *)

\* No row of one kind is a row of another.
LEMMA RowsDiffer ==
    /\ RunRow # RunNumber
    /\ \A l \in Leaves : LeaveRow(l) # RunRow
    /\ \A k, l \in Leaves : LeaveRow(k) = LeaveRow(l) => k = l
BY DEF LeaveRow, RunRow, RunNumber

\* Nobody takes or gives back a row.
LEMMA LocksStay ==
    ASSUME L!LocksTypeOK, L!LocksExclusive, UNCHANGED locks
    PROVE  L!LocksTypeOK' /\ L!LocksExclusive' /\ \A q \in Requests : locks'[q] = locks[q]
BY DEF L!LocksTypeOK, L!LocksExclusive

\* A request takes one more row.
LEMMA LockKeeps ==
    ASSUME L!LocksTypeOK, L!LocksExclusive, NEW r \in Requests,
           NEW row \in {LeaveRow(l) : l \in Leaves} \cup {RunRow, RunNumber}, L!Lock(r, row)
    PROVE  /\ L!LocksTypeOK' /\ L!LocksExclusive' /\ row \in locks'[r]
           /\ locks[r] \subseteq locks'[r]
           /\ \A q \in Requests \ {r} : locks'[q] = locks[q]
BY DEF L!LocksTypeOK, L!LocksExclusive, L!Lock, L!Available

\* A request gives all its rows back.
LEMMA EndKeeps ==
    ASSUME L!LocksTypeOK, L!LocksExclusive, NEW r \in Requests, L!EndTransaction(r)
    PROVE  /\ L!LocksTypeOK' /\ L!LocksExclusive' /\ locks'[r] = {}
           /\ \A q \in Requests \ {r} : locks'[q] = locks[q]
BY DEF L!LocksTypeOK, L!LocksExclusive, L!EndTransaction

\* What a request relies on is in the leave requests and the run.
LEMMA DoesStays ==
    ASSUME UNCHANGED <<leave, run>>, NEW q
    PROVE  Does(q)' <=> Does(q)
BY DEF Does, Asks, Decides, Generates, Finalizes, Pays

\* A request at rest has the type of a request and knows nothing.
LEMMA IdleDoes == Idle \in Request /\ Idle.op = None /\ Idle.step = "idle" /\ Does(Idle)
BY DEF Idle, Request, Steps, Does

\* A request goes on from req[r] to p, and the others find what they rely on.
LEMMA StepKeeps ==
    ASSUME IInv, NEW r \in Requests, NEW p \in Request, req' = [req EXCEPT ![r] = p],
           RowsTyped', FormsSound', L!LocksTypeOK', L!LocksExclusive',
           \A q \in Requests \ {r} : locks'[q] = locks[q],
           Does(p)', Holds(r)',
           \A q \in Requests \ {r} : Does(req[q])',
           run'.status = run.status \/ \A q \in Requests \ {r} :
              ~(req[q].op = "generate" /\ req[q].step \in {"sheet", "leaves"}),
           p.op = "request" /\ p.step = "commit" =>
              \A q \in Requests \ {r} : At(q, "request", "commit") => req[q].leave # p.leave
    PROVE  IInv'
<1>1. /\ req' \in [Requests -> Request] /\ req'[r] = p
      /\ \A q \in Requests \ {r} : req'[q] = req[q]
  BY DEF IInv, TypeOK
<1>2. TypeOK'
  BY <1>1 DEF TypeOK
<1>3. OwnLeave'
  <2>1. OwnLeave
    BY DEF IInv
  <2> QED
    BY <1>1, <2>1 DEF OwnLeave, At
<1>4. ASSUME NEW q \in Requests \ {r} PROVE Does(req[q])' /\ Holds(q)'
  <2>1. Holds(q)
    BY DEF IInv
  <2>2. Holds(q)'
    BY <1>1, <2>1, RowsDiffer DEF Holds, At
  <2> QED
    BY <2>2
<1>5. Does(req[r])'
  BY <1>1
<1> QED
  BY <1>2, <1>3, <1>4, <1>5 DEF IInv

\* No row is written.
LEMMA QuietStep ==
    ASSUME IInv, NEW r \in Requests, NEW p \in Request, req' = [req EXCEPT ![r] = p],
           UNCHANGED rows, L!LocksTypeOK', L!LocksExclusive',
           \A q \in Requests \ {r} : locks'[q] = locks[q],
           Does(p), Holds(r)',
           p.op = "request" /\ p.step = "commit" =>
              \A q \in Requests \ {r} : At(q, "request", "commit") => req[q].leave # p.leave
    PROVE  IInv'
<1>1. RowsTyped' /\ FormsSound' /\ run' = run
  BY DEF IInv, TypeOK, RowsTyped, FormsSound, rows
<1>2. \A q : Does(q)' <=> Does(q)
  BY DoesStays DEF rows
<1>3. ASSUME NEW q \in Requests \ {r} PROVE Does(req[q])'
  <2>1. PICK x : x = req[q]
    OBVIOUS
  <2>2. req'[q] = x /\ Does(x)
    BY <2>1 DEF IInv, TypeOK
  <2>3. Does(x)'
    BY <1>2, <2>2
  <2> QED BY <2>2, <2>3
<1> QED
  BY <1>1, <1>2, <1>3, StepKeeps

\* A request that is under way is of one of the kinds.
LEMMA KindOf ==
    ASSUME IInv, NEW r \in Requests, NEW q, q = req[r], q.step # "idle"
    PROVE  /\ q \in Request /\ Holds(r)
           /\ q.op \in {"request", "decide", "generate", "finalize", "pay"}
           /\ q.op = "request" => Asks(q)
           /\ q.op = "decide" => Decides(q)
           /\ q.op = "generate" => Generates(q)
           /\ q.op = "finalize" => Finalizes(q)
           /\ q.op = "pay" => Pays(q)
<1>1. q \in Request /\ Holds(r) /\ Does(q)
  BY DEF IInv, TypeOK
<1>2. q # Idle
  BY DEF Idle
<1> QED
  BY <1>1, <1>2 DEF Does, Asks, Decides, Generates, Finalizes, Pays

\* A request that begins with a well-typed record keeps the invariant.
LEMMA BeginKeeps ==
    ASSUME IInv, NEW r \in Requests, NEW p \in Request, Begin(r, p), Does(p),
           p.step \notin {"sheet", "leaves"},
           p.step = "commit" => p.op \in {"request", "pay"},
           p.op = "request" => \A q \in Requests : req[q].leave # p.leave
    PROVE  IInv'
<1>1. UNCHANGED rows /\ UNCHANGED locks /\ req' = [req EXCEPT ![r] = p]
  BY DEF Begin
<1>2. L!LocksTypeOK' /\ L!LocksExclusive' /\ \A q \in Requests : locks'[q] = locks[q]
  BY <1>1, LocksStay DEF IInv, TypeOK
<1>3. req'[r] = p
  BY <1>1 DEF IInv, TypeOK
<1>4. Holds(r)'
  BY <1>3 DEF Holds, At
<1> QED
  BY <1>1, <1>2, <1>4, QuietStep

\* BeginRequestLeave keeps the invariant.
LEMMA BeginRequestLeaveKeeps ==
    ASSUME IInv, NEW r \in Requests, NEW l \in Leaves, NEW f \in Forms, BeginRequestLeave(r, l, f)
    PROVE  IInv'
<1>1. PICK seen : seen = Balance(f)
  OBVIOUS
<1>2. PICK p : p = [Idle EXCEPT !.op = "request", !.step = "commit", !.leave = l, !.form = f,
                                !.seen = seen]
  OBVIOUS
<1>3. /\ Begin(r, p) /\ leave[l] = NoLeave /\ \A q \in Requests : req[q].leave # l
      /\ seen + Cardinality(LeaveDays(f.from, f.to)) <= Entitled[f.type]
  BY <1>1, <1>2 DEF BeginRequestLeave, Sufficient
<1>4. seen \in Nat
  BY <1>1, LeaveIsFinite DEF Balance, IInv, TypeOK, RowsTyped
<1>5. /\ p \in Request /\ p.op = "request" /\ p.step = "commit" /\ p.leave = l /\ p.form = f
      /\ p.seen = seen
  BY <1>2, <1>4 DEF Idle, Request, Steps
<1>6. Does(p)
  BY <1>3, <1>5 DEF Does, Asks
<1> QED
  BY <1>3, <1>5, <1>6, BeginKeeps

\* BeginDecide keeps the invariant.
LEMMA BeginDecideKeeps ==
    ASSUME IInv, NEW r \in Requests, NEW l \in Leaves, NEW to \in {"approved", "rejected"},
           BeginDecide(r, l, to)
    PROVE  IInv'
<1>1. PICK p : p = [Idle EXCEPT !.op = "decide", !.step = "document", !.leave = l, !.to = to]
  OBVIOUS
<1>2. Begin(r, p) /\ leave[l].status # "none"
  BY <1>1 DEF BeginDecide
<1>3. p \in Request /\ p.op = "decide" /\ p.step = "document" /\ p.leave = l /\ p.to = to
  BY <1>1 DEF Idle, Request, Steps
<1>4. Does(p)
  BY <1>2, <1>3 DEF Does, Decides
<1> QED
  BY <1>2, <1>3, <1>4, BeginKeeps

\* BeginGenerate keeps the invariant.
LEMMA BeginGenerateKeeps ==
    ASSUME IInv, NEW r \in Requests, NEW bonus \in Bonuses, BeginGenerate(r, bonus)
    PROVE  IInv'
<1>1. PICK p : p = [Idle EXCEPT !.op = "generate", !.step = "run", !.bonus = bonus]
  OBVIOUS
<1>2. Begin(r, p)
  BY <1>1 DEF BeginGenerate
<1>3. p \in Request /\ p.op = "generate" /\ p.step = "run"
  BY <1>1, InputsAssumption DEF Idle, Request, Steps
<1>4. Does(p)
  BY <1>3 DEF Does, Generates
<1> QED
  BY <1>2, <1>3, <1>4, BeginKeeps

\* BeginFinalize keeps the invariant.
LEMMA BeginFinalizeKeeps ==
    ASSUME IInv, NEW r \in Requests, BeginFinalize(r)
    PROVE  IInv'
<1>1. PICK p : p = [Idle EXCEPT !.op = "finalize", !.step = "run"]
  OBVIOUS
<1>2. Begin(r, p)
  BY <1>1 DEF BeginFinalize
<1>3. p \in Request /\ p.op = "finalize" /\ p.step = "run"
  BY <1>1 DEF Idle, Request, Steps
<1>4. Does(p)
  BY <1>3 DEF Does, Finalizes
<1> QED
  BY <1>2, <1>3, <1>4, BeginKeeps

\* BeginPay keeps the invariant.
LEMMA BeginPayKeeps ==
    ASSUME IInv, NEW r \in Requests, BeginPay(r)
    PROVE  IInv'
<1>1. PICK p : p = [Idle EXCEPT !.op = "pay", !.step = "commit", !.seen = 0]
  OBVIOUS
<1>2. Begin(r, p) /\ run.status = "finalized"
  BY <1>1 DEF BeginPay
<1>3. p \in Request /\ p.op = "pay" /\ p.step = "commit" /\ p.seen = 0
  BY <1>1 DEF Idle, Request, Steps
<1>4. Does(p)
  BY <1>2, <1>3 DEF Does, Pays
<1> QED
  BY <1>2, <1>3, <1>4, BeginKeeps

\* It ends: what it did not commit is undone.
LEMMA EndStep ==
    ASSUME IInv, NEW r \in Requests, End(r), UNCHANGED rows
    PROVE  IInv'
<1>1. req' = [req EXCEPT ![r] = Idle] /\ L!EndTransaction(r)
  BY DEF End
<1>2. L!LocksTypeOK' /\ L!LocksExclusive' /\ \A q \in Requests \ {r} : locks'[q] = locks[q]
  BY <1>1, EndKeeps DEF IInv, TypeOK
<1>3. req'[r] = Idle
  BY <1>1 DEF IInv, TypeOK
<1>4. Holds(r)'
  BY <1>3 DEF Holds, At, Idle
<1>5. PICK p \in Request : p = Idle
  BY IdleDoes
<1>6. Does(p)
  BY <1>5, IdleDoes
<1>7. p.step = "idle"
  BY <1>5, IdleDoes
<1> QED
  BY <1>1, <1>2, <1>4, <1>5, <1>6, <1>7, QuietStep

\* What a request of one kind goes on with.
LEMMA GotoIs ==
    ASSUME IInv, NEW r \in Requests, NEW step \in Steps, Goto(r, step)
    PROVE  \E p \in Request : /\ req' = [req EXCEPT ![r] = p] /\ p.step = step
                              /\ p.op = req[r].op /\ p.leave = req[r].leave /\ p.to = req[r].to
                              /\ req'[r] = p
<1>1. PICK q : q = req[r]
  OBVIOUS
<1>2. PICK p : p = [q EXCEPT !.step = step]
  OBVIOUS
<1>3. q \in Request /\ req \in [Requests -> Request]
  BY <1>1 DEF IInv, TypeOK
<1>4. p \in Request /\ p.step = step /\ p.op = q.op /\ p.leave = q.leave /\ p.to = q.to
  BY <1>2, <1>3 DEF Request
<1>5. req' = [req EXCEPT ![r] = p]
  BY <1>1, <1>2 DEF Goto
<1>6. req'[r] = p
  BY <1>3, <1>5
<1> QED
  BY <1>1, <1>4, <1>5, <1>6

\* LockLeave keeps the invariant.
LEMMA LockLeaveKeeps ==
    ASSUME IInv, NEW r \in Requests, LockLeave(r)
    PROVE  IInv'
<1>1. PICK q : q = req[r]
  OBVIOUS
<1>2. /\ q.op = "decide" /\ q.step = "document" /\ leave[q.leave].status = "pending"
      /\ L!Lock(r, LeaveRow(q.leave)) /\ Goto(r, "commit") /\ UNCHANGED rows
  BY <1>1 DEF LockLeave, At
<1>3. Decides(q)
  BY <1>1, <1>2, KindOf
<1>4. PICK p \in Request : /\ req' = [req EXCEPT ![r] = p] /\ p.step = "commit" /\ p.op = "decide"
                           /\ p.leave = q.leave /\ p.to = q.to /\ req'[r] = p
  BY <1>1, <1>2, GotoIs DEF Steps
<1>5. Does(p)
  BY <1>2, <1>3, <1>4 DEF Does, Decides
<1>6. LeaveRow(q.leave) \in {LeaveRow(l) : l \in Leaves} \cup {RunRow, RunNumber}
  BY <1>3 DEF Decides
<1>7. /\ L!LocksTypeOK' /\ L!LocksExclusive' /\ LeaveRow(q.leave) \in locks'[r]
      /\ \A x \in Requests \ {r} : locks'[x] = locks[x]
  BY <1>2, <1>6, LockKeeps DEF IInv, TypeOK
<1>8. Holds(r)'
  BY <1>4, <1>7 DEF Holds, At
<1> QED
  BY <1>2, <1>4, <1>5, <1>7, <1>8, QuietStep

\* LockRun keeps the invariant.
LEMMA LockRunKeeps ==
    ASSUME IInv, NEW r \in Requests, LockRun(r)
    PROVE  IInv'
<1>1. PICK q : q = req[r]
  OBVIOUS
<1>2. PICK to : to = IF q.op = "generate" THEN "sheet" ELSE "commit"
  OBVIOUS
<1>3. /\ q.step = "run" /\ run.status = "draft" /\ L!Lock(r, RunRow)
      /\ Goto(r, to) /\ UNCHANGED rows
  BY <1>1, <1>2 DEF LockRun
<1>4. q.op \in {"generate", "finalize"}
  BY <1>1, <1>3, KindOf DEF Asks, Decides, Pays
<1>5. PICK p \in Request : /\ req' = [req EXCEPT ![r] = p] /\ p.step = to /\ p.op = q.op
                           /\ req'[r] = p
  BY <1>1, <1>2, <1>3, GotoIs DEF Steps
<1>6. Does(p)
  BY <1>2, <1>3, <1>4, <1>5 DEF Does, Generates, Finalizes
<1>7. /\ L!LocksTypeOK' /\ L!LocksExclusive' /\ RunRow \in locks'[r]
      /\ \A x \in Requests \ {r} : locks'[x] = locks[x]
  BY <1>3, LockKeeps DEF IInv, TypeOK
<1>8. run'.status = "draft"
  BY <1>3 DEF rows
<1>9. Holds(r)'
  BY <1>2, <1>4, <1>5, <1>7, <1>8 DEF Holds, At
<1>10. p.op # "request"
  BY <1>4, <1>5
<1> QED
  BY <1>3, <1>5, <1>6, <1>7, <1>9, <1>10, QuietStep

\* FindNoRun keeps the invariant.
LEMMA FindNoRunKeeps ==
    ASSUME IInv, NEW r \in Requests, FindNoRun(r)
    PROVE  IInv'
<1>1. /\ req[r].op = "generate" /\ Goto(r, "number") /\ UNCHANGED rows /\ UNCHANGED locks
  BY DEF FindNoRun, At
<1>2. PICK p \in Request : /\ req' = [req EXCEPT ![r] = p] /\ p.step = "number"
                           /\ p.op = "generate" /\ req'[r] = p
  BY <1>1, GotoIs DEF Steps
<1>3. Does(p)
  BY <1>2 DEF Does, Generates
<1>4. L!LocksTypeOK' /\ L!LocksExclusive' /\ \A q \in Requests : locks'[q] = locks[q]
  BY <1>1, LocksStay DEF IInv, TypeOK
<1>5. Holds(r)'
  BY <1>2 DEF Holds, At
<1> QED
  BY <1>1, <1>2, <1>3, <1>4, <1>5, QuietStep

\* InsertRun keeps the invariant.
LEMMA InsertRunKeeps ==
    ASSUME IInv, NEW r \in Requests, InsertRun(r)
    PROVE  IInv'
<1>1. PICK q : q = req[r]
  OBVIOUS
<1>2. /\ q.step = "number" /\ run.status = "none" /\ L!Lock(r, RunNumber)
      /\ Goto(r, "sheet") /\ UNCHANGED rows
  BY <1>1 DEF InsertRun
<1>3. q.op = "generate"
  BY <1>1, <1>2, KindOf DEF Asks, Decides, Finalizes, Pays
<1>4. PICK p \in Request : /\ req' = [req EXCEPT ![r] = p] /\ p.step = "sheet"
                           /\ p.op = "generate" /\ req'[r] = p
  BY <1>1, <1>2, <1>3, GotoIs DEF Steps
<1>5. Does(p)
  BY <1>2, <1>4 DEF Does, Generates
<1>6. /\ L!LocksTypeOK' /\ L!LocksExclusive' /\ RunNumber \in locks'[r]
      /\ \A x \in Requests \ {r} : locks'[x] = locks[x]
  BY <1>2, LockKeeps DEF IInv, TypeOK
<1>7. run'.status = "none"
  BY <1>2 DEF rows
<1>8. Holds(r)'
  BY <1>4, <1>6, <1>7 DEF Holds, At
<1> QED
  BY <1>2, <1>4, <1>5, <1>6, <1>8, QuietStep

\* ReadSheet keeps the invariant.
LEMMA ReadSheetKeeps ==
    ASSUME IInv, NEW r \in Requests, ReadSheet(r)
    PROVE  IInv'
<1>1. PICK q : q = req[r]
  OBVIOUS
<1>2. PICK p : p = [q EXCEPT !.step = "leaves", !.terms = terms, !.sheet = attendance]
  OBVIOUS
<1>3. q.step = "sheet" /\ UNCHANGED rows /\ UNCHANGED locks /\ req' = [req EXCEPT ![r] = p]
  BY <1>1, <1>2 DEF ReadSheet
<1>4. q.op = "generate" /\ q \in Request /\ Generates(q) /\ Holds(r)
  BY <1>1, <1>3, KindOf DEF Asks, Decides, Finalizes, Pays
<1>5. terms \in AllTerms /\ attendance \in Sheet /\ req \in [Requests -> Request]
  BY DEF IInv, TypeOK, RowsTyped
<1>6. /\ p \in Request /\ p.op = "generate" /\ p.step = "leaves"
      /\ p.terms = terms /\ p.sheet = attendance
  BY <1>2, <1>4, <1>5 DEF Request, Steps
<1>7. Does(p)
  BY <1>3, <1>4, <1>5, <1>6 DEF Does, Generates
<1>8. L!LocksTypeOK' /\ L!LocksExclusive' /\ \A x \in Requests : locks'[x] = locks[x]
  BY <1>3, LocksStay DEF IInv, TypeOK
<1>9. req'[r] = p /\ run' = run
  BY <1>3, <1>5, <1>6 DEF rows
<1>10. Holds(r)'
  BY <1>1, <1>3, <1>4, <1>6, <1>8, <1>9 DEF Holds, At
<1> QED
  BY <1>3, <1>6, <1>7, <1>8, <1>10, QuietStep

\* Nothing a request relies on is written.
LEMMA RequestsStay ==
    ASSUME IInv, RowsTyped', UNCHANGED <<leave, run, req, locks>>
    PROVE  IInv'
<1>1. TypeOK' /\ L!LocksExclusive' /\ FormsSound' /\ OwnLeave'
  BY LocksStay DEF IInv, TypeOK, FormsSound, OwnLeave, At
<1>2. ASSUME NEW r \in Requests PROVE Does(req[r])' /\ Holds(r)'
  <2>1. PICK q : q = req[r]
    OBVIOUS
  <2>2. Does(q) /\ Holds(r) /\ req'[r] = q
    BY <2>1 DEF IInv
  <2>3. Does(q)'
    BY <2>2, DoesStays
  <2>4. Holds(r)'
    BY <2>2 DEF Holds, At
  <2> QED BY <2>2, <2>3, <2>4
<1> QED
  BY <1>1, <1>2 DEF IInv

\* A change of an employee's terms keeps the invariant.
LEMMA SetTermsKeeps ==
    ASSUME IInv, NEW e \in Employees, NEW t \in Terms[e], SetTerms(e, t)
    PROVE  IInv'
<1>1. t \in Term \cup {None}
  BY InputsAssumption
<1>2. terms' \in AllTerms
  BY <1>1 DEF SetTerms, IInv, TypeOK, RowsTyped, AllTerms
<1>3. RowsTyped'
  BY <1>2 DEF SetTerms, IInv, TypeOK, RowsTyped
<1> QED
  BY <1>3, RequestsStay DEF SetTerms

\* What the sheet says after a day of it was saved.
LEMMA SaveBulkDoes ==
    ASSUME IInv, NEW sheet \in Sheets, SaveBulk(sheet)
    PROVE  /\ attendance' \in Sheet /\ sheet.day \in Days
           /\ \A e \in Employees, d \in Days :
                 attendance'[e][d] = attendance[e][d] \/ (d = sheet.day /\ e \in DOMAIN sheet.records)
           /\ UNCHANGED <<terms, leave, used, run, payments, ledger, req, locks>>
           /\ overtaken \subseteq overtaken'
           /\ \A e \in DOMAIN sheet.records :
                 sheet.day \in Away(e, Types) => <<"day", e, sheet.day>> \in overtaken'
<1>1. PICK d \in Days : d = sheet.day
  BY InputsAssumption
<1>2. PICK records : records = sheet.records
  OBVIOUS
<1>3. DOMAIN records \subseteq Employees /\ records \in [DOMAIN records -> Record]
  BY <1>2, InputsAssumption
<1>4. attendance \in Sheet
  BY DEF IInv, TypeOK, RowsTyped
<1>5. attendance' = [e \in Employees |-> IF e \in DOMAIN records
                                         THEN [attendance[e] EXCEPT ![d] = records[e]]
                                         ELSE attendance[e]]
  BY <1>1, <1>2 DEF SaveBulk
<1>6. ASSUME NEW e \in Employees
      PROVE  /\ attendance'[e] \in [Days -> Record \cup {None}]
             /\ \A x \in Days : attendance'[e][x] = attendance[e][x] \/ (x = d /\ e \in DOMAIN records)
  <2>1. attendance[e] \in [Days -> Record \cup {None}]
    BY <1>4 DEF Sheet
  <2>2. CASE e \in DOMAIN records
    <3>1. records[e] \in Record
      BY <1>3, <2>2
    <3>2. attendance'[e] = [attendance[e] EXCEPT ![d] = records[e]]
      BY <1>5, <2>2
    <3> QED BY <2>1, <2>2, <3>1, <3>2
  <2>3. CASE e \notin DOMAIN records
    BY <1>5, <2>1, <2>3
  <2> QED BY <2>2, <2>3
<1>7. attendance' \in Sheet
  BY <1>5, <1>6 DEF Sheet
<1>8. overtaken' = overtaken \cup {<<"day", e, d>> : e \in {k \in DOMAIN records : d \in Away(k, Types)}}
  BY <1>1, <1>2 DEF SaveBulk
<1> QED
  BY <1>1, <1>2, <1>6, <1>7, <1>8 DEF SaveBulk

\* Saving a sheet of attendance keeps the invariant.
LEMMA SaveBulkKeeps ==
    ASSUME IInv, NEW sheet \in Sheets, SaveBulk(sheet)
    PROVE  IInv'
<1>1. RowsTyped'
  BY SaveBulkDoes DEF IInv, TypeOK, RowsTyped
<1> QED
  BY <1>1, SaveBulkDoes, RequestsStay

\* The row that a request for leave inserts.
LEMMA CommitRequestLeaveDoes ==
    ASSUME IInv, NEW r \in Requests, CommitRequestLeave(r)
    PROVE  \E l \in Leaves, f \in Forms, row \in LeaveRequest :
              /\ l = req[r].leave /\ f = req[r].form /\ req[r].op = "request" /\ req[r].step = "commit"
              /\ row.status = "pending" /\ row.form = f
              /\ row.days = Cardinality(LeaveDays(f.from, f.to))
              /\ req[r].seen + row.days <= Entitled[f.type]
              /\ leave[l] = NoLeave /\ leave' = [leave EXCEPT ![l] = row] /\ leave'[l] = row
              /\ \A k \in Leaves \ {l} : leave'[k] = leave[k]
              /\ overtaken' = IF InTheWay(f) = {} /\ Undecided(f) = {} /\ Balance(f) = req[r].seen
                              THEN overtaken ELSE overtaken \cup {l}
              /\ End(r) /\ UNCHANGED <<terms, attendance, used, run, payments, ledger>>
<1>1. PICK q : q = req[r]
  OBVIOUS
<1>2. q.op = "request" /\ q.step = "commit" /\ Asks(q)
  BY <1>1, KindOf DEF CommitRequestLeave, At
<1>3. PICK l \in Leaves, f \in Forms : l = q.leave /\ f = q.form
  BY <1>2 DEF Asks
<1>4. PICK row : row = [status |-> "pending", form |-> f, days |-> Cardinality(LeaveDays(f.from, f.to))]
  OBVIOUS
<1>5. Cardinality(LeaveDays(f.from, f.to)) \in Nat
  BY LeaveIsFinite
<1>6. row \in LeaveRequest
  BY <1>4, <1>5 DEF LeaveRequest, LeaveStatus
<1>7. leave' = [leave EXCEPT ![l] = row]
  BY <1>1, <1>3, <1>4 DEF CommitRequestLeave
<1>8. leave'[l] = row /\ \A k \in Leaves \ {l} : leave'[k] = leave[k]
  BY <1>7 DEF IInv, TypeOK, RowsTyped
<1>9. /\ overtaken' = IF InTheWay(f) = {} /\ Undecided(f) = {} /\ Balance(f) = q.seen
                      THEN overtaken ELSE overtaken \cup {l}
      /\ End(r) /\ UNCHANGED <<terms, attendance, used, run, payments, ledger>>
  BY <1>1, <1>3 DEF CommitRequestLeave, Wrote
<1>10. leave[l] = NoLeave /\ q.seen + row.days <= Entitled[f.type]
  BY <1>2, <1>3, <1>4 DEF Asks
<1> QED
  BY <1>1, <1>2, <1>3, <1>4, <1>6, <1>7, <1>8, <1>9, <1>10

\* A request that commits is done, and holds nothing any more.
LEMMA EndIs ==
    ASSUME IInv, NEW r \in Requests, End(r)
    PROVE  /\ req' = [req EXCEPT ![r] = Idle] /\ req'[r] = Idle /\ Holds(r)'
           /\ L!LocksTypeOK' /\ L!LocksExclusive'
           /\ \A q \in Requests \ {r} : locks'[q] = locks[q] /\ req'[q] = req[q]
<1>1. req' = [req EXCEPT ![r] = Idle] /\ L!EndTransaction(r)
  BY DEF End
<1>2. req'[r] = Idle /\ \A q \in Requests \ {r} : req'[q] = req[q]
  BY <1>1 DEF IInv, TypeOK
<1>3. Holds(r)'
  BY <1>2 DEF Holds, At, Idle
<1> QED
  BY <1>1, <1>2, <1>3, EndKeeps DEF IInv, TypeOK

\* It commits, and the others find what they rely on.
LEMMA CommitStep ==
    ASSUME IInv, NEW r \in Requests, End(r), RowsTyped', FormsSound',
           \A q \in Requests \ {r} : Does(req[q])',
           run'.status = run.status \/ \A q \in Requests \ {r} :
              ~(req[q].op = "generate" /\ req[q].step \in {"sheet", "leaves"})
    PROVE  IInv'
<1>1. PICK p \in Request : p = Idle /\ p.step = "idle" /\ p.op = None
  BY IdleDoes
<1>2. Does(p)'
  BY <1>1 DEF Does
<1>3. Holds(r)' /\ req' = [req EXCEPT ![r] = p] /\ L!LocksTypeOK' /\ L!LocksExclusive'
      /\ \A q \in Requests \ {r} : locks'[q] = locks[q]
  BY <1>1, EndIs
<1> QED
  BY <1>1, <1>2, <1>3, StepKeeps

\* CommitRequestLeave keeps the invariant.
LEMMA CommitRequestLeaveKeeps ==
    ASSUME IInv, NEW r \in Requests, CommitRequestLeave(r)
    PROVE  IInv'
<1>1. PICK l \in Leaves, f \in Forms, row \in LeaveRequest :
         /\ l = req[r].leave /\ req[r].op = "request" /\ req[r].step = "commit"
         /\ row.status = "pending" /\ row.form = f /\ leave[l] = NoLeave
         /\ leave' = [leave EXCEPT ![l] = row] /\ leave'[l] = row
         /\ \A k \in Leaves \ {l} : leave'[k] = leave[k]
         /\ End(r) /\ UNCHANGED <<terms, attendance, used, run, payments, ledger>>
  BY CommitRequestLeaveDoes
<1>2. RowsTyped'
  BY <1>1 DEF IInv, TypeOK, RowsTyped
<1>3. FormsSound'
  BY <1>1 DEF IInv, FormsSound
<1>4. ASSUME NEW x \in Requests \ {r} PROVE Does(req[x])'
  <2>1. PICK q : q = req[x]
    OBVIOUS
  <2>2. req'[x] = q /\ Does(q)
    BY <1>1, <2>1, EndIs DEF IInv
  <2>3. Asks(q) => q.leave # l
    BY <1>1, <2>1 DEF Asks, IInv, OwnLeave, At
  <2>4. Decides(q) => q.leave # l
    BY <1>1 DEF Decides, NoLeave
  <2>5. Does(q)'
    BY <1>1, <2>2, <2>3, <2>4 DEF Does, Asks, Decides, Generates, Finalizes, Pays
  <2> QED BY <2>2, <2>5
<1> QED
  BY <1>1, <1>2, <1>3, <1>4, CommitStep

\* A day of leave on the sheet.
LEMMA OnLeaveIs ==
    ASSUME NEW record \in Record \cup {None}
    PROVE  OnLeave(record) \in Record /\ OnLeave(record).mark = "leave" /\ OnLeave(record) # None
<1>1. PICK hours : hours = IF record = None THEN 0 ELSE record.hours
  OBVIOUS
<1>2. hours \in Nat
  BY <1>1 DEF Record
<1>3. OnLeave(record) = [mark |-> "leave", hours |-> hours]
  BY <1>1 DEF OnLeave
<1>4. OnLeave(record) \in Record /\ OnLeave(record).mark = "leave"
  BY <1>2, <1>3 DEF Record, Marks
<1>5. None \notin Record
  BY InputsAssumption
<1> QED
  BY <1>4, <1>5

\* What the approval of a request of form f writes besides the request.
Approves(f, days) ==
    /\ used'[f.employee][f.type] = used[f.employee][f.type] + days
    /\ \A e \in Employees, t \in Types :
          used'[e][t] = used[e][t] \/ (e = f.employee /\ t = f.type)
    /\ \A e \in Employees, d \in Days :
          IF e = f.employee /\ d \in LeaveDays(f.from, f.to)
          THEN attendance'[e][d] \in Record /\ attendance'[e][d].mark = "leave"
          ELSE attendance'[e][d] = attendance[e][d]
    /\ (\E q \in Requests : Reading(q)) =>
          \A d \in LeaveDays(f.from, f.to) : <<"day", f.employee, d>> \in overtaken'

\* What an approval writes: the days used and the attendance of the days of leave, of one
\* employee.
LEMMA ApproveDoes ==
    ASSUME IInv, NEW l \in Leaves, NEW f \in Forms, Approve(l, f)
    PROVE  /\ Approves(f, leave[l].days)
           /\ used' \in [Employees -> [Types -> Nat]] /\ attendance' \in Sheet
           /\ overtaken \subseteq overtaken'
           /\ RunRow \in overtaken' => RunRow \in overtaken
<1>1. PICK e \in Employees, t \in Types : e = f.employee /\ t = f.type
  BY LeaveIsFinite
<1>2. PICK days : days = LeaveDays(f.from, f.to)
  OBVIOUS
<1>3. PICK n \in Nat : n = leave[l].days
  BY DEF IInv, TypeOK, RowsTyped, LeaveRequest
<1>4. used \in [Employees -> [Types -> Nat]] /\ attendance \in Sheet
  BY DEF IInv, TypeOK, RowsTyped
<1>5. PICK now : now = [d \in Days |-> IF d \in days THEN OnLeave(attendance[e][d]) ELSE attendance[e][d]]
  OBVIOUS
<1>6. /\ used' = [used EXCEPT ![e][t] = @ + n]
      /\ attendance' = [attendance EXCEPT ![e] = now]
      /\ overtaken' = overtaken \cup {<<"day", e, d>> : d \in IF \E q \in Requests : Reading(q) THEN days
                                                           ELSE {}}
  BY <1>1, <1>2, <1>3, <1>5 DEF Approve
<1>7. /\ used' \in [Employees -> [Types -> Nat]] /\ used'[e][t] = used[e][t] + n
      /\ \A x \in Employees, y \in Types : used'[x][y] = used[x][y] \/ (x = e /\ y = t)
  BY <1>4, <1>6
<1>8. ASSUME NEW d \in Days
      PROVE  /\ now[d] \in Record \cup {None}
             /\ d \in days => now[d] \in Record /\ now[d].mark = "leave"
             /\ d \notin days => now[d] = attendance[e][d]
  <2>1. attendance[e][d] \in Record \cup {None}
    BY <1>4 DEF Sheet
  <2> QED BY <1>5, <2>1, OnLeaveIs
<1>9. now \in [Days -> Record \cup {None}]
  BY <1>5, <1>8
<1>10. attendance' \in Sheet /\ attendance'[e] = now
       /\ \A x \in Employees \ {e} : attendance'[x] = attendance[x]
  BY <1>4, <1>6, <1>9 DEF Sheet
<1>11. \A x \in Employees, d \in Days :
          IF x = e /\ d \in days THEN attendance'[x][d] \in Record /\ attendance'[x][d].mark = "leave"
          ELSE attendance'[x][d] = attendance[x][d]
  BY <1>8, <1>10
<1>12. (\E q \in Requests : Reading(q)) => \A d \in days : <<"day", e, d>> \in overtaken'
  BY <1>6
<1>13. overtaken \subseteq overtaken' /\ (RunRow \in overtaken' => RunRow \in overtaken)
  BY <1>6 DEF RunRow
<1>14. Approves(f, n)
  BY <1>1, <1>2, <1>7, <1>11, <1>12 DEF Approves
<1> QED
  BY <1>3, <1>7, <1>10, <1>13, <1>14

\* What a decision writes: the request's row, and an approval's days when it approves.
LEMMA CommitDecideDoes ==
    ASSUME IInv, NEW r \in Requests, CommitDecide(r)
    PROVE  \E l \in Leaves, f \in Forms, to \in {"approved", "rejected"}, row \in LeaveRequest :
              /\ l = req[r].leave /\ LeaveRow(l) \in locks[r]
              /\ leave[l].status = "pending" /\ leave[l].form = f
              /\ row.status = to /\ row.form = f /\ row.days = leave[l].days
              /\ leave' = [leave EXCEPT ![l] = row] /\ leave'[l] = row
              /\ \A k \in Leaves \ {l} : leave'[k] = leave[k]
              /\ used' \in [Employees -> [Types -> Nat]] /\ attendance' \in Sheet
              /\ overtaken \subseteq overtaken' /\ (RunRow \in overtaken' => RunRow \in overtaken)
              /\ IF to = "approved" THEN Approves(f, leave[l].days)
                                    ELSE UNCHANGED <<used, attendance, overtaken>>
              /\ End(r) /\ UNCHANGED <<terms, run, payments, ledger>>
<1>1. PICK q : q = req[r]
  OBVIOUS
<1>2. q.op = "decide" /\ q.step = "commit" /\ Decides(q) /\ Holds(r)
  BY <1>1, KindOf DEF CommitDecide, At
<1>3. PICK l \in Leaves, to \in {"approved", "rejected"} : l = q.leave /\ to = q.to
  BY <1>2 DEF Decides
<1>4. leave[l].status = "pending" /\ LeaveRow(l) \in locks[r]
  BY <1>1, <1>2, <1>3 DEF Decides, Holds, At
<1>5. PICK f \in Forms : f = leave[l].form
  BY <1>4 DEF IInv, FormsSound
<1>6. PICK old : old = leave[l]
  OBVIOUS
<1>7. PICK row : row = [old EXCEPT !.status = to]
  OBVIOUS
<1>8. old \in LeaveRequest /\ leave \in [Leaves -> LeaveRequest]
  BY <1>6 DEF IInv, TypeOK, RowsTyped
<1>9. row \in LeaveRequest /\ row.status = to /\ row.form = f /\ row.days = old.days
  BY <1>5, <1>6, <1>7, <1>8 DEF LeaveRequest, LeaveStatus
<1>10. leave' = [leave EXCEPT ![l] = row]
  BY <1>1, <1>3, <1>6, <1>7 DEF CommitDecide
<1>11. leave'[l] = row /\ \A k \in Leaves \ {l} : leave'[k] = leave[k]
  BY <1>8, <1>10
<1>12. /\ IF to = "approved" THEN Approve(l, f) ELSE UNCHANGED <<used, attendance, overtaken>>
       /\ End(r) /\ UNCHANGED <<terms, run, payments, ledger>>
  BY <1>1, <1>3, <1>5 DEF CommitDecide
<1>13. /\ used' \in [Employees -> [Types -> Nat]] /\ attendance' \in Sheet
       /\ overtaken \subseteq overtaken' /\ (RunRow \in overtaken' => RunRow \in overtaken)
       /\ to = "approved" => Approves(f, leave[l].days)
  <2>1. CASE to = "approved"
    BY <1>12, <2>1, ApproveDoes
  <2>2. CASE to # "approved"
    BY <1>12, <2>2 DEF IInv, TypeOK, RowsTyped
  <2> QED
    BY <2>1, <2>2
<1>14. /\ l = req[r].leave /\ leave[l].form = f /\ row.days = leave[l].days
       /\ IF to = "approved" THEN Approves(f, leave[l].days)
                             ELSE UNCHANGED <<used, attendance, overtaken>>
  BY <1>1, <1>3, <1>5, <1>6, <1>9, <1>12, <1>13
<1> row \in LeaveRequest
  BY <1>9
<1> WITNESS l \in Leaves, f \in Forms, to \in {"approved", "rejected"}, row \in LeaveRequest
<1> QED
  BY <1>4, <1>9, <1>10, <1>11, <1>12, <1>13, <1>14

\* CommitDecide keeps the invariant.
LEMMA CommitDecideKeeps ==
    ASSUME IInv, NEW r \in Requests, CommitDecide(r)
    PROVE  IInv'
<1>1. PICK l \in Leaves, f \in Forms, to \in {"approved", "rejected"}, row \in LeaveRequest :
         /\ l = req[r].leave /\ LeaveRow(l) \in locks[r]
         /\ leave[l].status = "pending" /\ leave[l].form = f
         /\ row.status = to /\ row.form = f /\ row.days = leave[l].days
         /\ leave' = [leave EXCEPT ![l] = row] /\ leave'[l] = row
         /\ \A k \in Leaves \ {l} : leave'[k] = leave[k]
         /\ used' \in [Employees -> [Types -> Nat]] /\ attendance' \in Sheet
         /\ End(r) /\ UNCHANGED <<terms, run, payments, ledger>>
  BY CommitDecideDoes
<1>2. RowsTyped'
  BY <1>1 DEF IInv, TypeOK, RowsTyped
<1>3. FormsSound'
  BY <1>1 DEF IInv, FormsSound
<1>4. ASSUME NEW x \in Requests \ {r} PROVE Does(req[x])'
  <2>1. PICK q : q = req[x]
    OBVIOUS
  <2>2. req'[x] = q /\ Does(q) /\ Holds(x)
    BY <1>1, <2>1, EndIs DEF IInv
  <2>3. Asks(q) => q.leave # l
    BY <1>1 DEF Asks, NoLeave
  <2>4. LeaveRow(l) \notin locks[x]
    BY <1>1 DEF IInv, L!LocksExclusive
  <2>5. Decides(q) /\ q.step = "commit" => q.leave # l
    BY <2>1, <2>2, <2>4 DEF Decides, Holds, At
  <2>6. Decides(q) => Decides(q)'
    BY <1>1, <2>5 DEF Decides
  <2>7. Asks(q) => Asks(q)'
    BY <1>1, <2>3 DEF Asks
  <2>8. /\ Generates(q) => Generates(q)'
        /\ Finalizes(q) => Finalizes(q)'
        /\ Pays(q) => Pays(q)'
    BY <1>1 DEF Generates, Finalizes, Pays
  <2>9. Does(q)'
    BY <2>2, <2>6, <2>7, <2>8 DEF Does
  <2> QED BY <2>2, <2>9
<1> QED
  BY <1>1, <1>2, <1>3, <1>4, CommitStep

\* Nobody else computes or finalizes the run, or pays it, before it is finalized.
LEMMA RunIsHeld ==
    ASSUME IInv, NEW r \in Requests,
           (req[r].op = "generate" /\ req[r].step = "leaves") \/ At(r, "finalize", "commit")
    PROVE  /\ run.status \in {"none", "draft"}
           /\ req[r].op = "finalize" => run.status = "draft"
           /\ \A x \in Requests \ {r} :
                 /\ ~(req[x].op = "generate" /\ req[x].step \in {"sheet", "leaves"})
                 /\ ~At(x, "finalize", "commit") /\ ~Pays(req[x])
<1>1. PICK q : q = req[r]
  OBVIOUS
<1>2. (q.op = "generate" => Generates(q)) /\ (q.op = "finalize" => Finalizes(q)) /\ Holds(r)
  BY <1>1, KindOf DEF At
<1>3. run.status \in {"none", "draft"} /\ (q.op = "finalize" => run.status = "draft")
  BY <1>1, <1>2 DEF Generates, Finalizes, At
<1>4. (IF run.status = "none" THEN RunNumber ELSE RunRow) \in locks[r]
  BY <1>1, <1>2, <1>3 DEF Holds, At
<1>5. ASSUME NEW x \in Requests \ {r}
      PROVE  /\ ~(req[x].op = "generate" /\ req[x].step \in {"sheet", "leaves"})
             /\ ~At(x, "finalize", "commit") /\ ~Pays(req[x])
  <2>1. Holds(x)
    BY DEF IInv
  <2>2. (IF run.status = "none" THEN RunNumber ELSE RunRow) \notin locks[x]
    BY <1>4 DEF IInv, L!LocksExclusive
  <2>3. At(x, "finalize", "commit") => run.status = "draft" /\ RunRow \in locks[x]
    <3>1. PICK p : p = req[x]
      OBVIOUS
    <3>2. At(x, "finalize", "commit") => Finalizes(p)
      BY <3>1, KindOf DEF At
    <3> QED BY <2>1, <3>1, <3>2 DEF Finalizes, Holds, At
  <2>4. ~Pays(req[x])
    BY <1>3 DEF Pays
  <2> QED BY <2>1, <2>2, <2>3, <2>4 DEF Holds
<1> QED
  BY <1>1, <1>3, <1>5

\* The draft that a run writes.
LEMMA CommitGenerateDoes ==
    ASSUME IInv, NEW r \in Requests, CommitGenerate(r)
    PROVE  \E slips \in Payslips :
              /\ req[r].op = "generate" /\ req[r].step = "leaves"
              /\ \A e \in Employees : slips[e] = IF req[r].terms[e] = None THEN None ELSE Slip(r, e)
              /\ run' \in Run /\ run'.status = "draft" /\ run'.slips = slips /\ run'.net = Net(slips)
              /\ End(r) /\ UNCHANGED <<terms, attendance, leave, used, payments, ledger, overtaken>>
<1>1. req[r].op = "generate" /\ req[r].step = "leaves"
  BY DEF CommitGenerate, At
<1>2. PICK slips : slips = [e \in Employees |-> IF req[r].terms[e] = None THEN None ELSE Slip(r, e)]
  OBVIOUS
<1>3. ASSUME NEW e \in Employees PROVE slips[e] \in SlipRow \cup {None}
  <2>1. TypeOK /\ Does(req[r])
    BY DEF IInv
  <2> QED BY <1>1, <1>2, <2>1, SlipTyped
<1>4. slips \in Payslips
  BY <1>2, <1>3 DEF Payslips
<1>5. Net(slips) \in Int
  BY <1>4, PostingsTyped
<1>6. PICK net \in Int : net = Net(slips)
  BY <1>5
<1>7. run' = [status |-> "draft", slips |-> slips, net |-> net]
  BY <1>2, <1>6 DEF CommitGenerate
<1>8. run' \in Run /\ run'.status = "draft" /\ run'.slips = slips /\ run'.net = net
  BY <1>4, <1>7 DEF Run
<1> QED
  BY <1>1, <1>2, <1>4, <1>6, <1>8 DEF CommitGenerate

\* CommitGenerate keeps the invariant.
LEMMA CommitGenerateKeeps ==
    ASSUME IInv, NEW r \in Requests, CommitGenerate(r)
    PROVE  IInv'
<1>1. /\ req[r].op = "generate" /\ req[r].step = "leaves"
      /\ run' \in Run /\ run'.status = "draft" /\ End(r)
      /\ UNCHANGED <<terms, attendance, leave, used, payments, ledger, overtaken>>
  BY CommitGenerateDoes
<1>2. RowsTyped' /\ FormsSound'
  BY <1>1 DEF IInv, TypeOK, RowsTyped, FormsSound
<1>3. ASSUME NEW x \in Requests \ {r} PROVE Does(req[x])'
  <2>1. PICK q : q = req[x]
    OBVIOUS
  <2>2. req'[x] = q /\ Does(q)
    BY <1>1, <2>1, EndIs DEF IInv
  <2>3. ~(q.op = "finalize" /\ q.step = "commit") /\ ~Pays(q)
    BY <1>1, <2>1, RunIsHeld DEF At
  <2>4. Does(q)'
    BY <1>1, <2>2, <2>3 DEF Does, Asks, Decides, Generates, Finalizes
  <2> QED BY <2>2, <2>4
<1> QED
  BY <1>1, <1>2, <1>3, RunIsHeld, CommitStep

\* The entry that finalizing the run posts.
LEMMA CommitFinalizeDoes ==
    ASSUME IInv, NEW r \in Requests, CommitFinalize(r)
    PROVE  /\ req[r].op = "finalize" /\ req[r].step = "commit" /\ run.status = "draft"
           /\ run' \in Run /\ run'.status = "finalized" /\ run'.slips = run.slips /\ run'.net = run.net
           /\ ledger' \in [Accounts -> Int]
           /\ \A a \in Accounts : /\ ledger'[a] = ledger[a] + Postings(run.slips)[a]
                                  /\ Postings(run.slips)[a] \in Int /\ ledger[a] \in Int
           /\ End(r) /\ UNCHANGED <<terms, attendance, leave, used, payments, overtaken>>
<1>1. At(r, "finalize", "commit")
  BY DEF CommitFinalize
<1>2. run.status = "draft" /\ req[r].op = "finalize" /\ req[r].step = "commit"
  BY <1>1, RunIsHeld DEF At
<1>3. run \in Run /\ run.slips \in Payslips /\ ledger \in [Accounts -> Int]
  BY DEF IInv, TypeOK, RowsTyped, Run
<1>4. run' = [run EXCEPT !.status = "finalized"]
  BY DEF CommitFinalize
<1>5. run' \in Run /\ run'.status = "finalized" /\ run'.slips = run.slips /\ run'.net = run.net
  BY <1>3, <1>4 DEF Run
<1>6. PICK lines : lines = Postings(run.slips)
  OBVIOUS
<1>7. \A a \in Accounts : lines[a] \in Int
  BY <1>3, <1>6, PostingsTyped
<1>8. ledger' = [a \in Accounts |-> ledger[a] + lines[a]]
  BY <1>6 DEF CommitFinalize
<1>9. ledger' \in [Accounts -> Int] /\ \A a \in Accounts : ledger'[a] = ledger[a] + lines[a]
  BY <1>3, <1>7, <1>8
<1> QED
  BY <1>2, <1>3, <1>5, <1>6, <1>7, <1>9 DEF CommitFinalize

\* CommitFinalize keeps the invariant.
LEMMA CommitFinalizeKeeps ==
    ASSUME IInv, NEW r \in Requests, CommitFinalize(r)
    PROVE  IInv'
<1>1. /\ At(r, "finalize", "commit") /\ run' \in Run /\ run'.status = "finalized" /\ End(r)
      /\ ledger' \in [Accounts -> Int]
      /\ UNCHANGED <<terms, attendance, leave, used, payments, overtaken>>
  BY CommitFinalizeDoes DEF At
<1>2. RowsTyped' /\ FormsSound'
  BY <1>1 DEF IInv, TypeOK, RowsTyped, FormsSound
<1>3. ASSUME NEW x \in Requests \ {r} PROVE Does(req[x])'
  <2>1. PICK q : q = req[x]
    OBVIOUS
  <2>2. req'[x] = q /\ Does(q)
    BY <1>1, <2>1, EndIs DEF IInv
  <2>3. /\ ~(q.op = "finalize" /\ q.step = "commit") /\ ~Pays(q)
        /\ ~(q.op = "generate" /\ q.step \in {"sheet", "leaves"})
    BY <1>1, <2>1, RunIsHeld DEF At
  <2>4. Does(q)'
    BY <1>1, <2>2, <2>3 DEF Does, Asks, Decides, Generates, Finalizes
  <2> QED BY <2>2, <2>4
<1> QED
  BY <1>1, <1>2, <1>3, RunIsHeld, CommitStep

\* The entry that pays the run.
LEMMA CommitPayDoes ==
    ASSUME IInv, NEW r \in Requests, CommitPay(r)
    PROVE  /\ run.status = "finalized" /\ payments' = payments + 1 /\ payments \in Nat
           /\ ledger' \in [Accounts -> Int] /\ ledger \in [Accounts -> Int] /\ run.net \in Int
           /\ ledger'["salary_payable"] = ledger["salary_payable"] + run.net
           /\ ledger'["cash"] = ledger["cash"] - run.net
           /\ \A a \in Accounts \ {"salary_payable", "cash"} : ledger'[a] = ledger[a]
           /\ RunRow \notin overtaken' => RunRow \notin overtaken /\ payments = 0
           /\ overtaken \subseteq overtaken'
           /\ End(r) /\ UNCHANGED <<terms, attendance, leave, used, run>>
<1>1. PICK q : q = req[r]
  OBVIOUS
<1>2. Pays(q)
  BY <1>1, KindOf DEF CommitPay, At
<1>3. PICK net : net = run.net
  OBVIOUS
<1>4. ledger' = [ledger EXCEPT !["salary_payable"] = @ + net, !["cash"] = @ - net]
  BY <1>3 DEF CommitPay
<1>5. ledger \in [Accounts -> Int] /\ net \in Int /\ payments \in Nat
  BY <1>3 DEF IInv, TypeOK, RowsTyped, Run
<1>6. "salary_payable" \in Accounts /\ "cash" \in Accounts
  BY DEF Accounts
<1>7. /\ ledger' \in [Accounts -> Int]
      /\ ledger'["salary_payable"] = ledger["salary_payable"] + net
      /\ ledger'["cash"] = ledger["cash"] - net
      /\ \A a \in Accounts \ {"salary_payable", "cash"} : ledger'[a] = ledger[a]
  BY <1>4, <1>5, <1>6
<1>8. /\ payments' = payments + 1 /\ End(r) /\ UNCHANGED <<terms, attendance, leave, used, run>>
      /\ overtaken' = IF payments = q.seen THEN overtaken ELSE overtaken \cup {RunRow}
  BY <1>1 DEF CommitPay, Wrote
<1> QED
  BY <1>2, <1>3, <1>5, <1>7, <1>8 DEF Pays

\* CommitPay keeps the invariant.
LEMMA CommitPayKeeps ==
    ASSUME IInv, NEW r \in Requests, CommitPay(r)
    PROVE  IInv'
<1>1. /\ payments' \in Nat /\ ledger' \in [Accounts -> Int] /\ End(r)
      /\ UNCHANGED <<terms, attendance, leave, used, run>>
  BY CommitPayDoes
<1>2. RowsTyped' /\ FormsSound'
  BY <1>1 DEF IInv, TypeOK, RowsTyped, FormsSound
<1>3. ASSUME NEW x \in Requests \ {r} PROVE Does(req[x])'
  <2>1. PICK q : q = req[x]
    OBVIOUS
  <2>2. req'[x] = q /\ Does(q)
    BY <1>1, <2>1, EndIs DEF IInv
  <2>3. Does(q)'
    BY <1>1, <2>2, DoesStays
  <2> QED BY <2>2, <2>3
<1> QED
  BY <1>1, <1>2, <1>3, CommitStep

\* A request that begins, goes on or fails keeps the invariant.
LEMMA RequestKeeps ==
    ASSUME IInv, NEW r \in Requests, Start(r) \/ Proceed(r) \/ Fail(r)
    PROVE  IInv'
<1>1. Refuse(r) \/ Fail(r) => IInv'
  BY EndStep DEF Refuse, Fail
<1>2. Start(r) => IInv'
  BY BeginRequestLeaveKeeps, BeginDecideKeeps, BeginGenerateKeeps, BeginFinalizeKeeps, BeginPayKeeps
     DEF Start
<1> QED
  BY <1>1, <1>2, CommitRequestLeaveKeeps, LockLeaveKeeps, CommitDecideKeeps, LockRunKeeps,
     FindNoRunKeeps, InsertRunKeeps, ReadSheetKeeps, CommitGenerateKeeps, CommitFinalizeKeeps,
     CommitPayKeeps DEF Proceed

\* No leave, no attendance and no run satisfy the invariant.
LEMMA InitEstablishes == Init => IInv
<1> SUFFICES ASSUME Init PROVE IInv
  OBVIOUS
<1>1. \A e \in Employees : (CHOOSE t \in Terms[e] : t # None) \in Term \cup {None}
  BY InputsAssumption
<1>2. terms \in AllTerms
  BY <1>1 DEF Init, AllTerms
<1>3. attendance \in Sheet
  BY DEF Init, Sheet
<1>4. NoLeave \in LeaveRequest /\ NoLeave.status = "none"
  BY DEF NoLeave, LeaveRequest, LeaveStatus
<1>5. NoRun \in Run
  BY DEF NoRun, Run, Payslips
<1>6. RowsTyped
  BY <1>2, <1>3, <1>4, <1>5 DEF Init, RowsTyped
<1>7. req \in [Requests -> Request] /\ \A r \in Requests : req[r] = Idle
  BY IdleDoes DEF Init
<1>8. L!LocksTypeOK /\ L!LocksExclusive
  BY DEF Init, L!NoLocks, L!LocksTypeOK, L!LocksExclusive
<1>9. OwnLeave /\ \A r \in Requests : Does(req[r]) /\ Holds(r)
  BY <1>7, IdleDoes DEF OwnLeave, At, Holds
<1>10. FormsSound
  BY <1>4 DEF Init, FormsSound
<1> QED
  BY <1>6, <1>7, <1>8, <1>9, <1>10 DEF IInv, TypeOK

\* Every step keeps the invariant.
LEMMA NextPreserves == IInv /\ [Next]_vars => IInv'
<1> SUFFICES ASSUME IInv, [Next]_vars PROVE IInv'
  OBVIOUS
<1>1. CASE UNCHANGED vars
  <2>1. RowsTyped' /\ UNCHANGED <<leave, run, req, locks>>
    BY <1>1 DEF vars, rows, IInv, TypeOK, RowsTyped
  <2> QED BY <2>1, RequestsStay
<1> QED
  BY <1>1, SetTermsKeeps, SaveBulkKeeps, RequestKeeps DEF Next

\* In every reachable state no two requests write one row, a request of each kind holds what
\* it will write as it read it, and leave has a form: the inductive invariant.
THEOREM Invariance == Spec => []IInv
BY InitEstablishes, NextPreserves, PTL DEF Spec

\* Every row and every request is what its type says: in particular what payslips
\* and their entry add up to are whole numbers, whatever the slabs.
THEOREM TypeCorrect == Spec => []TypeOK
<1>1. IInv => TypeOK
  BY DEF IInv
<1> QED
  BY <1>1, Invariance, PTL

-------------------------------------------------------------------------------
(* The ledger tells what the payslips say                                  *)

\* The steps that write rows.
LEMMA RowSteps ==
    ASSUME [Next]_vars
    PROVE  \/ UNCHANGED rows
           \/ \E e \in Employees : \E t \in Terms[e] : SetTerms(e, t)
           \/ \E sheet \in Sheets : SaveBulk(sheet)
           \/ \E r \in Requests : \/ CommitRequestLeave(r) \/ CommitDecide(r) \/ CommitGenerate(r)
                                  \/ CommitFinalize(r) \/ CommitPay(r)
<1>1. CASE UNCHANGED vars
  BY <1>1 DEF vars
<1>2. ASSUME NEW r \in Requests, Start(r) \/ Proceed(r) \/ Fail(r)
      PROVE  \/ UNCHANGED rows
             \/ CommitRequestLeave(r) \/ CommitDecide(r) \/ CommitGenerate(r)
             \/ CommitFinalize(r) \/ CommitPay(r)
  <2>1. Start(r) => UNCHANGED rows
    BY DEF Start, BeginRequestLeave, BeginDecide, BeginGenerate, BeginFinalize, BeginPay, Begin
  <2> QED
    BY <1>2, <2>1 DEF Proceed, LockLeave, LockRun, FindNoRun, InsertRun, ReadSheet, Refuse, Fail
<1> QED
  BY <1>1, <1>2 DEF Next

\* What the run and its payment have put on an account.
Due(slips, finalized, a) == IF finalized THEN Postings(slips)[a] ELSE 0
Paid(slips, a) == IF a = "salary_payable" THEN -Postings(slips)[a]
                  ELSE IF a = "cash" THEN Postings(slips)["salary_payable"] ELSE 0

\* The run says what its payslips add up to, nothing is paid before it is final, and
\* the ledger holds what it should of a run that was paid once at most.
LedgerInv ==
    /\ run.net = Net(run.slips)
    /\ payments > 0 => run.status = "finalized"
    /\ RunRow \notin overtaken =>
          /\ payments <= 1
          /\ \A a \in Accounts : ledger[a] = Due(run.slips, run.status = "finalized", a)
                                             + (IF payments = 0 THEN 0 ELSE Paid(run.slips, a))

\* Every step keeps the ledger equal to what the payslips say.
LEMMA LedgerKept == IInv /\ LedgerInv /\ [Next]_vars => LedgerInv'
<1> SUFFICES ASSUME IInv, LedgerInv, [Next]_vars PROVE LedgerInv'
  OBVIOUS
<1>0. payments \in Nat /\ run.slips \in Payslips /\ ledger \in [Accounts -> Int]
  BY DEF IInv, TypeOK, RowsTyped, Run
<1>1. ASSUME UNCHANGED <<run, payments, ledger>>, RunRow \in overtaken => RunRow \in overtaken'
      PROVE  LedgerInv'
  BY <1>1 DEF LedgerInv
<1>2. CASE UNCHANGED rows
  BY <1>1, <1>2 DEF rows
<1>3. ASSUME NEW e \in Employees, NEW t \in Terms[e], SetTerms(e, t) PROVE LedgerInv'
  BY <1>1, <1>3 DEF SetTerms
<1>4. ASSUME NEW sheet \in Sheets, SaveBulk(sheet) PROVE LedgerInv'
  BY <1>1, <1>4, SaveBulkDoes
<1>5. ASSUME NEW r \in Requests, CommitRequestLeave(r) PROVE LedgerInv'
  <2>1. UNCHANGED <<run, payments, ledger>> /\ overtaken \subseteq overtaken'
    BY <1>5 DEF CommitRequestLeave, Wrote
  <2> QED
    BY <1>1, <2>1
<1>6. ASSUME NEW r \in Requests, CommitDecide(r) PROVE LedgerInv'
  <2>1. UNCHANGED <<run, payments, ledger>> /\ overtaken \subseteq overtaken'
    BY <1>6, CommitDecideDoes
  <2> QED
    BY <1>1, <2>1
<1>7. ASSUME NEW r \in Requests, CommitGenerate(r) PROVE LedgerInv'
  <2>1. /\ req[r].op = "generate" /\ req[r].step = "leaves"
        /\ run'.status = "draft" /\ run'.net = Net(run'.slips)
        /\ UNCHANGED <<payments, ledger, overtaken>>
    BY <1>7, CommitGenerateDoes
  <2>2. run.status \in {"none", "draft"}
    BY <2>1, RunIsHeld
  <2>3. payments = 0
    BY <1>0, <2>2 DEF LedgerInv
  <2>4. RunRow \notin overtaken => \A a \in Accounts : ledger[a] = 0
    BY <2>2, <2>3 DEF LedgerInv, Due
  <2>5. Net(run.slips)' = Net(run'.slips)
    BY DEF Net
  <2>6. \A a \in Accounts : Due(run.slips, run.status = "finalized", a)' = 0
    BY <2>1 DEF Due
  <2> QED BY <2>1, <2>3, <2>4, <2>5, <2>6 DEF LedgerInv
<1>8. ASSUME NEW r \in Requests, CommitFinalize(r) PROVE LedgerInv'
  <2>1. PICK slips : slips = run.slips
    OBVIOUS
  <2>2. /\ run.status = "draft" /\ run'.status = "finalized"
        /\ run'.slips = slips /\ run'.net = run.net
        /\ \A a \in Accounts : /\ ledger'[a] = ledger[a] + Postings(slips)[a]
                               /\ Postings(slips)[a] \in Int /\ ledger[a] \in Int
        /\ UNCHANGED <<payments, overtaken>>
    BY <1>8, <2>1, CommitFinalizeDoes
  <2>3. payments = 0
    BY <1>0, <2>2 DEF LedgerInv
  <2>4. RunRow \notin overtaken => \A a \in Accounts : ledger[a] = 0
    BY <2>2, <2>3 DEF LedgerInv, Due
  <2>5. RunRow \notin overtaken => \A a \in Accounts : ledger'[a] = Postings(slips)[a] + 0
    BY <2>2, <2>4
  <2>6. \A a \in Accounts : Due(run.slips, run.status = "finalized", a)' = Postings(slips)[a]
    BY <2>2 DEF Due
  <2>7. run'.net = Net(run.slips)'
    BY <2>1, <2>2 DEF LedgerInv
  <2> QED BY <2>2, <2>3, <2>5, <2>6, <2>7 DEF LedgerInv
<1>9. ASSUME NEW r \in Requests, CommitPay(r) PROVE LedgerInv'
  <2>1. PICK slips \in Payslips : slips = run.slips
    BY <1>0
  <2>2. PICK net \in Int : net = run.net
    BY <1>9, CommitPayDoes
  <2>3. /\ run.status = "finalized" /\ payments' = payments + 1
        /\ ledger'["salary_payable"] = ledger["salary_payable"] + net
        /\ ledger'["cash"] = ledger["cash"] - net
        /\ \A a \in Accounts \ {"salary_payable", "cash"} : ledger'[a] = ledger[a]
        /\ RunRow \notin overtaken' => RunRow \notin overtaken /\ payments = 0
        /\ run' = run
    BY <1>9, <2>2, CommitPayDoes
  <2>4. /\ \A a \in Accounts : Postings(slips)[a] \in Int
        /\ Postings(slips)["cash"] = 0 /\ Postings(slips)["salary_payable"] = -net
    BY <2>1, <2>2, PostingsTyped DEF LedgerInv
  <2>5. ASSUME RunRow \notin overtaken', NEW a \in Accounts
        PROVE  ledger'[a] = Postings(slips)[a] + Paid(slips, a)
    <3>1. payments = 0 /\ RunRow \notin overtaken
      BY <2>3, <2>5
    <3>2. ledger[a] = Postings(slips)[a]
      BY <2>1, <2>3, <2>4, <3>1 DEF LedgerInv, Due
    <3>3. CASE a = "salary_payable"
      BY <2>2, <2>3, <2>4, <3>2, <3>3 DEF Paid
    <3>4. CASE a = "cash"
      BY <2>2, <2>3, <2>4, <3>2, <3>4 DEF Paid
    <3>5. CASE a \notin {"salary_payable", "cash"}
      BY <2>3, <2>4, <3>2, <3>5 DEF Paid
    <3> QED BY <3>3, <3>4, <3>5
  <2>6. payments' # 0 /\ (RunRow \notin overtaken' => payments' <= 1)
    BY <1>0, <2>3
  <2>7. \A a \in Accounts : /\ Due(run.slips, run.status = "finalized", a)' = Postings(slips)[a]
                            /\ Paid(run.slips, a)' = Paid(slips, a)
    BY <2>1, <2>3 DEF Due, Paid
  <2>8. run'.net = Net(run.slips)'
    BY <2>3 DEF LedgerInv
  <2> QED BY <2>3, <2>5, <2>6, <2>7, <2>8 DEF LedgerInv
<1> QED
  BY <1>2, <1>3, <1>4, <1>5, <1>6, <1>7, <1>8, <1>9, RowSteps

\* No run, no posting.
LEMMA InitLedger == Init => LedgerInv
<1> SUFFICES ASSUME Init PROVE LedgerInv
  OBVIOUS
<1>1. run = NoRun /\ payments = 0 /\ ledger = [a \in Accounts |-> 0]
  BY DEF Init
<1>2. PICK slips : slips = [e \in Employees |-> None]
  OBVIOUS
<1>3. run.status = "none" /\ run.slips = slips /\ run.net = 0
  BY <1>1, <1>2 DEF NoRun
<1>4. PICK S : S = {k \in Employees : slips[k] # None}
  OBVIOUS
<1>5. S = {}
  BY <1>2, <1>4
<1>6. Net(slips) = SumOver([e \in S |-> slips[e].pay.net])
  BY <1>4 DEF Net
<1>7. Net(slips) = 0
  BY <1>5, <1>6, SumOfNone
<1> QED
  BY <1>1, <1>3, <1>7 DEF LedgerInv, Due

\* That invariant is the property, with what is due and what is paid named.
LEMMA LedgerInvTells == LedgerInv => LedgerTellsSlips
BY DEF LedgerInv, LedgerTellsSlips, Due, Paid

\* The ledger holds what the payslips of the finalized run say, less one payment of
\* it, unless two requests to disburse overtook one another.
THEOREM LedgerTold == Spec => []LedgerTellsSlips
BY InitLedger, LedgerKept, LedgerInvTells, Invariance, PTL DEF Spec

-------------------------------------------------------------------------------
(* A day is deducted once                                                  *)

AbsentOn(sheet, e, d) == sheet[e][d] # None /\ sheet[e][d].mark = "absent"

\* A day of leave on which a sheet says that e was absent has been overtaken.
Clean(sheet) ==
    \A e \in Employees, d \in Days :
        d \in Away(e, Types) /\ AbsentOn(sheet, e, d) => <<"day", e, d>> \in overtaken

AwayInv == /\ AwayDeductedOnce /\ Clean(attendance)
           /\ \A r \in Requests : Reading(r) => Clean(req[r].sheet)

\* A run that reads leaves next had read its sheet before, or reads it now.
LEMMA ReadingSteps ==
    ASSUME IInv, [Next]_vars, NEW x \in Requests, Reading(x)'
    PROVE  \/ Reading(x) /\ req'[x] = req[x]
           \/ UNCHANGED rows /\ req'[x].sheet = attendance
<1> DEFINE Before == Reading(x) /\ req'[x] = req[x]
           Now    == UNCHANGED rows /\ req'[x].sheet = attendance
<1>0. req \in [Requests -> Request] /\ req'[x].step = "leaves"
  BY DEF IInv, TypeOK, Reading
<1>1. ASSUME req'[x] = req[x] PROVE Before
  BY <1>1 DEF Reading
<1>2. ASSUME NEW r \in Requests, NEW p, req' = [req EXCEPT ![r] = p], p.step # "leaves" PROVE Before
  <2>1. r # x
    BY <1>0, <1>2
  <2> QED BY <1>0, <1>1, <1>2, <2>1
<1>3. ASSUME NEW r \in Requests, NEW step \in Steps \ {"leaves"}, Goto(r, step) PROVE Before
  <2>1. \E p \in Request : req' = [req EXCEPT ![r] = p] /\ p.step = step
    BY <1>3, GotoIs
  <2> QED BY <1>2, <1>3, <2>1
<1>4. ASSUME NEW r \in Requests, End(r) PROVE Before
  <2>1. req' = [req EXCEPT ![r] = Idle]
    BY <1>4 DEF End
  <2> QED BY <1>2, <2>1, IdleDoes
<1>5. ASSUME NEW r \in Requests, Start(r) PROVE Before
  <2>1. ASSUME NEW p, Begin(r, p), p.step # "leaves" PROVE Before
    BY <1>2, <2>1 DEF Begin
  <2>2. ASSUME NEW l, NEW f, BeginRequestLeave(r, l, f) PROVE Before
    <3>1. PICK seen : seen = Balance(f)
      OBVIOUS
    <3>2. PICK p : p = [Idle EXCEPT !.op = "request", !.step = "commit", !.leave = l, !.form = f,
                                    !.seen = seen]
      OBVIOUS
    <3>3. p.step = "commit"
      BY <3>2 DEF Idle
    <3>4. Begin(r, p)
      BY <2>2, <3>1, <3>2 DEF BeginRequestLeave
    <3> QED BY <2>1, <3>3, <3>4
  <2>3. ASSUME NEW l, NEW to, BeginDecide(r, l, to) PROVE Before
    <3>1. PICK p : p = [Idle EXCEPT !.op = "decide", !.step = "document", !.leave = l, !.to = to]
      OBVIOUS
    <3>2. p.step = "document"
      BY <3>1 DEF Idle
    <3> QED BY <2>1, <2>3, <3>1, <3>2 DEF BeginDecide
  <2>4. ASSUME NEW bonus, BeginGenerate(r, bonus) PROVE Before
    <3>1. PICK p : p = [Idle EXCEPT !.op = "generate", !.step = "run", !.bonus = bonus]
      OBVIOUS
    <3>2. p.step = "run"
      BY <3>1 DEF Idle
    <3> QED BY <2>1, <2>4, <3>1, <3>2 DEF BeginGenerate
  <2>5. ASSUME BeginFinalize(r) PROVE Before
    <3>1. PICK p : p = [Idle EXCEPT !.op = "finalize", !.step = "run"]
      OBVIOUS
    <3>2. p.step = "run"
      BY <3>1 DEF Idle
    <3> QED BY <2>1, <2>5, <3>1, <3>2 DEF BeginFinalize
  <2>6. ASSUME BeginPay(r) PROVE Before
    <3>1. PICK p : p = [Idle EXCEPT !.op = "pay", !.step = "commit", !.seen = payments]
      OBVIOUS
    <3>2. p.step = "commit"
      BY <3>1 DEF Idle
    <3> QED BY <2>1, <2>6, <3>1, <3>2 DEF BeginPay
  <2> HIDE DEF Before
  <2> QED BY <1>5, <2>2, <2>3, <2>4, <2>5, <2>6 DEF Start
<1>6. ASSUME NEW r \in Requests, ReadSheet(r) PROVE Before \/ Now
  <2>1. UNCHANGED rows
    BY <1>6 DEF ReadSheet
  <2>2. CASE x = r
    <3>1. PICK p : p = [req[r] EXCEPT !.step = "leaves", !.terms = terms, !.sheet = attendance]
      OBVIOUS
    <3>2. p.sheet = attendance
      BY <1>0, <3>1 DEF Request
    <3>3. req'[r] = p
      BY <1>0, <1>6, <3>1 DEF ReadSheet
    <3> QED BY <2>1, <2>2, <3>2, <3>3
  <2>3. CASE x # r
    BY <1>0, <1>1, <1>6, <2>3 DEF ReadSheet
  <2> QED BY <2>2, <2>3
<1>7. ASSUME NEW r \in Requests, LockLeave(r) \/ FindNoRun(r) \/ InsertRun(r) PROVE Before
  <2>1. Goto(r, "commit") \/ Goto(r, "number") \/ Goto(r, "sheet")
    BY <1>7 DEF LockLeave, FindNoRun, InsertRun
  <2> QED BY <1>3, <2>1 DEF Steps
<1>8. ASSUME NEW r \in Requests, LockRun(r) PROVE Before
  <2>1. Goto(r, "commit") \/ Goto(r, "sheet")
    BY <1>8 DEF LockRun
  <2> QED BY <1>3, <2>1 DEF Steps
<1>9. ASSUME NEW r \in Requests,
             \/ CommitRequestLeave(r) \/ CommitDecide(r) \/ CommitGenerate(r) \/ CommitFinalize(r)
             \/ CommitPay(r) \/ Refuse(r) \/ Fail(r)
      PROVE  Before
  <2>1. End(r)
    BY <1>9 DEF CommitRequestLeave, CommitDecide, CommitGenerate, CommitFinalize, CommitPay, Refuse, Fail
  <2> QED BY <1>4, <2>1
<1>10. ASSUME \/ UNCHANGED vars
              \/ \E e \in Employees : \E t \in Terms[e] : SetTerms(e, t)
              \/ \E sheet \in Sheets : SaveBulk(sheet)
       PROVE  Before
  <2>1. UNCHANGED req
    BY <1>10 DEF vars, SetTerms, SaveBulk
  <2> QED
    BY <1>1, <2>1
<1> HIDE DEF Before, Now
<1> QED
  <2>1. Before \/ Now
    BY <1>5, <1>6, <1>7, <1>8, <1>9, <1>10 DEF Next, Proceed
  <2> QED BY <2>1 DEF Before, Now

\* An approved leave stays approved, and a decision approves one more.
LEMMA AwaySteps ==
    ASSUME IInv, NEW l \in Leaves, NEW f \in Forms, NEW e, NEW types,
           leave'[l].form = f, \A k \in Leaves \ {l} : leave'[k] = leave[k]
    PROVE  \A d \in Away(e, types)' : d \in Away(e, types) \/
              (leave'[l].status = "approved" /\ e = f.employee /\ d \in LeaveDays(f.from, f.to))
BY DEF Away

\* Every step keeps sheets clean, and what a run deducts of a day away deducted once.
LEMMA AwayKept == IInv /\ AwayInv /\ [Next]_vars => AwayInv'
<1> SUFFICES ASSUME IInv, AwayInv, [Next]_vars PROVE AwayInv'
  OBVIOUS
\* Sheets that were clean still are, when no day of leave is new.
<1>1. ASSUME \A e \in Employees : Away(e, Types)' \subseteq Away(e, Types),
             overtaken \subseteq overtaken', NEW sheet, Clean(sheet)
      PROVE  Clean(sheet)'
  BY <1>1 DEF Clean, AbsentOn
<1>2. ASSUME UNCHANGED leave PROVE \A e : Away(e, Types)' = Away(e, Types)
  BY <1>2 DEF Away
<1>3. ASSUME UNCHANGED run, overtaken \subseteq overtaken' PROVE AwayDeductedOnce'
  BY <1>3 DEF AwayInv, AwayDeductedOnce
<1>4. ASSUME overtaken \subseteq overtaken', UNCHANGED attendance, AwayDeductedOnce',
             \A e \in Employees : Away(e, Types)' \subseteq Away(e, Types)
      PROVE  AwayInv'
  <2>1. Clean(attendance)'
    <3>1. PICK sheet : sheet = attendance
      OBVIOUS
    <3>2. Clean(sheet)' /\ attendance' = sheet
      BY <1>1, <1>4, <3>1 DEF AwayInv
    <3> QED BY <3>2
  <2>2. ASSUME NEW x \in Requests, Reading(x)' PROVE Clean(req[x].sheet)'
    <3>1. PICK sheet : sheet = req'[x].sheet
      OBVIOUS
    <3>2. Clean(sheet)
      BY <2>2, <3>1, ReadingSteps DEF AwayInv
    <3>3. Clean(sheet)'
      BY <1>1, <1>4, <3>2
    <3> QED BY <3>1, <3>3
  <2> QED BY <1>4, <2>1, <2>2 DEF AwayInv
<1>5. CASE UNCHANGED rows
  BY <1>2, <1>3, <1>4, <1>5 DEF rows
<1>6. ASSUME NEW e \in Employees, NEW t \in Terms[e], SetTerms(e, t) PROVE AwayInv'
  BY <1>2, <1>3, <1>4, <1>6 DEF SetTerms
<1>7. ASSUME NEW sheet \in Sheets, SaveBulk(sheet) PROVE AwayInv'
  <2>1. /\ sheet.day \in Days
        /\ \A e \in Employees, d \in Days :
              attendance'[e][d] = attendance[e][d] \/ (d = sheet.day /\ e \in DOMAIN sheet.records)
        /\ UNCHANGED <<leave, run, req>> /\ overtaken \subseteq overtaken'
        /\ \A e \in DOMAIN sheet.records :
              sheet.day \in Away(e, Types) => <<"day", e, sheet.day>> \in overtaken'
    BY <1>7, SaveBulkDoes
  <2>2. \A e : Away(e, Types)' = Away(e, Types)
    BY <1>2, <2>1
  <2>3. Clean(attendance)'
    <3>1. ASSUME NEW e \in Employees, NEW d \in Days, d \in Away(e, Types),
                 AbsentOn(attendance, e, d)'
          PROVE  <<"day", e, d>> \in overtaken'
      <4>1. CASE attendance'[e][d] = attendance[e][d]
        BY <2>1, <3>1, <4>1 DEF AwayInv, Clean, AbsentOn
      <4>2. CASE d = sheet.day /\ e \in DOMAIN sheet.records
        BY <2>1, <3>1, <4>2
      <4> QED BY <2>1, <4>1, <4>2
    <3> QED BY <2>2, <3>1 DEF Clean
  <2>4. ASSUME NEW x \in Requests, Reading(x)' PROVE Clean(req[x].sheet)'
    <3>1. PICK read : read = req[x].sheet
      OBVIOUS
    <3>2. Clean(read) /\ req'[x].sheet = read
      BY <2>1, <2>4, <3>1 DEF AwayInv, Reading
    <3>3. Clean(read)'
      BY <1>1, <2>1, <2>2, <3>2
    <3> QED BY <3>2, <3>3
  <2> QED BY <1>3, <2>1, <2>3, <2>4 DEF AwayInv
<1>8. ASSUME NEW r \in Requests, CommitRequestLeave(r) PROVE AwayInv'
  <2>1. PICK l \in Leaves, f \in Forms, row \in LeaveRequest :
           /\ row.status = "pending" /\ row.form = f /\ leave'[l] = row
           /\ \A k \in Leaves \ {l} : leave'[k] = leave[k]
           /\ UNCHANGED <<attendance, run>>
    BY <1>8, CommitRequestLeaveDoes
  <2>2. \A e : Away(e, Types)' \subseteq Away(e, Types)
    BY <2>1, AwaySteps
  <2>3. overtaken \subseteq overtaken'
    BY <1>8 DEF CommitRequestLeave, Wrote
  <2> QED BY <1>3, <1>4, <2>1, <2>2, <2>3
<1>9. ASSUME NEW r \in Requests, CommitDecide(r) PROVE AwayInv'
  <2>1. PICK l \in Leaves, f \in Forms, to \in {"approved", "rejected"}, row \in LeaveRequest :
           /\ row.status = to /\ row.form = f /\ leave'[l] = row
           /\ \A k \in Leaves \ {l} : leave'[k] = leave[k]
           /\ overtaken \subseteq overtaken'
           /\ IF to = "approved" THEN Approves(f, leave[l].days)
                                 ELSE UNCHANGED <<used, attendance, overtaken>>
           /\ End(r) /\ UNCHANGED run
    BY <1>9, CommitDecideDoes
  <2>2. \A e : \A d \in Away(e, Types)' : d \in Away(e, Types) \/
           (to = "approved" /\ e = f.employee /\ d \in LeaveDays(f.from, f.to))
    BY <2>1, AwaySteps
  <2>3. CASE to = "rejected"
    BY <1>3, <1>4, <2>1, <2>2, <2>3
  <2>4. CASE to = "approved"
    <3>1. Approves(f, leave[l].days)
      BY <2>1, <2>4
    <3>2. ASSUME NEW e \in Employees, NEW d \in Days, d \in Away(e, Types)',
                 AbsentOn(attendance, e, d)'
          PROVE  <<"day", e, d>> \in overtaken'
      <4>1. ~(e = f.employee /\ d \in LeaveDays(f.from, f.to)) /\ attendance'[e][d] = attendance[e][d]
        BY <3>1, <3>2 DEF Approves, AbsentOn
      <4>2. d \in Away(e, Types) /\ AbsentOn(attendance, e, d)
        BY <2>2, <3>2, <4>1 DEF AbsentOn
      <4> QED BY <2>1, <4>2 DEF AwayInv, Clean
    <3>3. Clean(attendance)'
      BY <3>2 DEF Clean
    <3>4. ASSUME NEW x \in Requests, Reading(x)' PROVE Clean(req[x].sheet)'
      <4>1. Reading(x) /\ req'[x] = req[x]
        <5>1. x # r
          BY <2>1, <3>4, EndIs, IdleDoes DEF Reading
        <5>2. req'[x] = req[x]
          BY <2>1, <5>1, EndIs
        <5> QED BY <3>4, <5>2 DEF Reading
      <4>2. PICK read : read = req[x].sheet
        OBVIOUS
      <4>3. Clean(read) /\ req'[x].sheet = read
        BY <4>1, <4>2 DEF AwayInv
      <4>4. ASSUME NEW e \in Employees, NEW d \in Days, d \in Away(e, Types)',
                   AbsentOn(read, e, d)
            PROVE  <<"day", e, d>> \in overtaken'
        <5>1. CASE d \in Away(e, Types)
          BY <2>1, <4>3, <4>4, <5>1 DEF Clean
        <5>2. CASE e = f.employee /\ d \in LeaveDays(f.from, f.to)
          BY <3>1, <4>1, <5>2 DEF Approves
        <5> QED BY <2>2, <4>4, <5>1, <5>2
      <4>5. Clean(read)'
        BY <4>4 DEF Clean, AbsentOn
      <4> QED BY <4>3, <4>5
    <3> QED BY <1>3, <2>1, <3>3, <3>4 DEF AwayInv
  <2> QED BY <2>3, <2>4
<1>10. ASSUME NEW r \in Requests, CommitGenerate(r) PROVE AwayInv'
  <2>1. PICK slips \in Payslips :
           /\ req[r].op = "generate" /\ req[r].step = "leaves"
           /\ \A e \in Employees : slips[e] = IF req[r].terms[e] = None THEN None ELSE Slip(r, e)
           /\ run'.slips = slips /\ End(r)
           /\ UNCHANGED <<attendance, leave, overtaken>>
    BY <1>10, CommitGenerateDoes
  <2>2. Clean(req[r].sheet)
    BY <2>1 DEF AwayInv, Reading
  <2>3. ASSUME NEW e \in Employees, slips[e] # None, NEW d \in slips[e].twice
        PROVE  <<"day", e, d>> \in overtaken
    <3>1. d \in Slip(r, e).twice
      BY <2>1, <2>3
    <3>2. d \in Marked(r, e, {"absent"}) /\ d \in Away(e, Unpaid) \cap Month
      BY <3>1 DEF Slip
    <3>3. AbsentOn(req[r].sheet, e, d) /\ d \in Days
      BY <3>2, DaysAssumption DEF Marked, AbsentOn
    <3>4. d \in Away(e, Types)
      BY <3>2, InputsAssumption DEF Away
    <3> QED BY <2>2, <3>3, <3>4 DEF Clean
  <2>4. AwayDeductedOnce'
    BY <2>1, <2>3 DEF AwayDeductedOnce
  <2>5. \A e : Away(e, Types)' = Away(e, Types)
    BY <1>2, <2>1
  <2> QED BY <1>4, <2>1, <2>4, <2>5
<1>11. ASSUME NEW r \in Requests, CommitFinalize(r) PROVE AwayInv'
  <2>1. run'.slips = run.slips /\ UNCHANGED <<attendance, leave, overtaken>>
    BY <1>11, CommitFinalizeDoes
  <2>2. AwayDeductedOnce'
    BY <2>1 DEF AwayInv, AwayDeductedOnce
  <2>3. \A e : Away(e, Types)' = Away(e, Types)
    BY <1>2, <2>1
  <2> QED BY <1>4, <2>1, <2>2, <2>3
<1>12. ASSUME NEW r \in Requests, CommitPay(r) PROVE AwayInv'
  <2>1. UNCHANGED <<attendance, leave, run>> /\ overtaken \subseteq overtaken'
    BY <1>12, CommitPayDoes
  <2> QED BY <1>2, <1>3, <1>4, <2>1
<1> QED
  BY <1>5, <1>6, <1>7, <1>8, <1>9, <1>10, <1>11, <1>12, RowSteps

\* No run deducts nothing.
LEMMA InitAway == Init => AwayInv
<1> SUFFICES ASSUME Init PROVE AwayInv
  OBVIOUS
<1>1. \A e \in Employees : run.slips[e] = None /\ \A d \in Days : attendance[e][d] = None
  BY DEF Init, NoRun
<1>2. \A r \in Requests : ~Reading(r)
  BY IdleDoes DEF Init, Reading
<1> QED
  BY <1>1, <1>2 DEF AwayInv, AwayDeductedOnce, Clean, AbsentOn

\* No payslip deducts one day both as absence and as unpaid leave, unless the sheet
\* or the leave was written after what it was checked against.
THEOREM DeductedOnce == Spec => []AwayDeductedOnce
<1>1. AwayInv => AwayDeductedOnce
  BY DEF AwayInv
<1> QED
  BY <1>1, InitAway, AwayKept, Invariance, PTL DEF Spec

-------------------------------------------------------------------------------
(* A balance has used what was approved on it                              *)

On(l, e, t) == leave[l].form.employee = e /\ leave[l].form.type = t

\* The days of the requests approved on a balance.
DaysOf(e, t) == [l \in Leaves |-> IF leave[l].status = "approved" /\ On(l, e, t)
                                  THEN leave[l].days ELSE 0]

\* A request on the balance was made on what was out of date by then.
Late(e, t) == \E l \in overtaken \cap Leaves : leave[l].status # "none" /\ On(l, e, t)

\* What is left suffices for the one request on the balance that is undecided.
Suffices(e, t) ==
    /\ used[e][t] <= Entitled[t]
    /\ \A l \in Leaves : leave[l].status = "pending" /\ On(l, e, t) =>
          /\ used[e][t] + leave[l].days <= Entitled[t]
          /\ \A k \in Leaves : leave[k].status = "pending" /\ On(k, e, t) => k = l

BalanceInv ==
    \A e \in Employees, t \in Types : /\ used[e][t] = SumOver(DaysOf(e, t))
                                      /\ Late(e, t) \/ Suffices(e, t)

\* Days of leave are whole numbers, request by request.
LEMMA DaysAreWhole ==
    ASSUME leave \in [Leaves -> LeaveRequest], NEW e, NEW t
    PROVE  DaysOf(e, t) \in [Leaves -> Nat] /\ DaysOf(e, t) \in [Leaves -> Int]
BY DEF DaysOf, LeaveRequest

\* Every step keeps the days used equal to the days approved, and what is left sufficient
\* unless a request on the balance is late.
LEMMA BalanceKept == IInv /\ BalanceInv /\ [Next]_vars => BalanceInv'
<1> SUFFICES ASSUME IInv, BalanceInv, [Next]_vars PROVE BalanceInv'
  OBVIOUS
<1>0. used \in [Employees -> [Types -> Nat]] /\ leave \in [Leaves -> LeaveRequest]
      /\ Entitled \in [Types -> Nat] /\ IsFiniteSet(Leaves)
  BY InputsAssumption DEF IInv, TypeOK, RowsTyped
<1>1. ASSUME UNCHANGED <<leave, used>>, overtaken \subseteq overtaken' PROVE BalanceInv'
  <2>1. ASSUME NEW e \in Employees, NEW t \in Types
        PROVE  /\ DaysOf(e, t)' = DaysOf(e, t)
               /\ Late(e, t) => Late(e, t)'
               /\ Suffices(e, t) => Suffices(e, t)'
    BY <1>1 DEF DaysOf, Late, Suffices, On
  <2> QED BY <1>1, <2>1 DEF BalanceInv
<1>2. CASE UNCHANGED rows
  BY <1>1, <1>2 DEF rows
<1>3. ASSUME NEW e \in Employees, NEW t \in Terms[e], SetTerms(e, t) PROVE BalanceInv'
  BY <1>1, <1>3 DEF SetTerms
<1>4. ASSUME NEW sheet \in Sheets, SaveBulk(sheet) PROVE BalanceInv'
  BY <1>1, <1>4, SaveBulkDoes
<1>5. ASSUME NEW r \in Requests, CommitGenerate(r) \/ CommitFinalize(r) \/ CommitPay(r)
      PROVE  BalanceInv'
  <2>1. UNCHANGED <<leave, used>> /\ overtaken \subseteq overtaken'
    BY <1>5 DEF CommitGenerate, CommitFinalize, CommitPay, Wrote
  <2> QED
    BY <1>1, <2>1
<1>6. ASSUME NEW r \in Requests, CommitRequestLeave(r) PROVE BalanceInv'
  <2>1. PICK l \in Leaves, f \in Forms, row \in LeaveRequest :
           /\ l = req[r].leave /\ f = req[r].form /\ req[r].op = "request" /\ req[r].step = "commit"
           /\ row.status = "pending" /\ row.form = f
           /\ row.days = Cardinality(LeaveDays(f.from, f.to))
           /\ req[r].seen + row.days <= Entitled[f.type]
           /\ leave[l] = NoLeave /\ leave' = [leave EXCEPT ![l] = row] /\ leave'[l] = row
           /\ \A k \in Leaves \ {l} : leave'[k] = leave[k]
           /\ overtaken' = IF InTheWay(f) = {} /\ Undecided(f) = {} /\ Balance(f) = req[r].seen
                           THEN overtaken ELSE overtaken \cup {l}
           /\ End(r) /\ UNCHANGED <<terms, attendance, used, run, payments, ledger>>
    BY <1>6, CommitRequestLeaveDoes
  <2>2. leave[l].status = "none" /\ row.days \in Nat
    BY <2>1 DEF NoLeave, LeaveRequest
  <2>3. ASSUME NEW e \in Employees, NEW t \in Types
        PROVE  /\ used'[e][t] = SumOver(DaysOf(e, t)')
               /\ Late(e, t)' \/ Suffices(e, t)'
    <3>1. DaysOf(e, t)' = DaysOf(e, t)
      BY <2>1, <2>2 DEF DaysOf, On
    <3>2. used'[e][t] = SumOver(DaysOf(e, t)')
      BY <2>1, <3>1 DEF BalanceInv
    <3>3. CASE Late(e, t)
      <4>1. overtaken \subseteq overtaken'
        BY <2>1
      <4>2. Late(e, t)'
        BY <2>1, <2>2, <3>3, <4>1 DEF Late, On
      <4> QED BY <3>2, <4>2
    <3>4. CASE Suffices(e, t) /\ ~(e = f.employee /\ t = f.type)
      <4>1. ~On(l, e, t)'
        BY <2>1, <3>4 DEF On
      <4>2. Suffices(e, t)'
        BY <2>1, <3>4, <4>1 DEF Suffices, On
      <4> QED BY <3>2, <4>2
    <3>5. CASE Suffices(e, t) /\ e = f.employee /\ t = f.type
      <4>1. CASE overtaken' = overtaken \cup {l}
        <5>1. Late(e, t)'
          BY <2>1, <3>5, <4>1 DEF Late, On
        <5> QED BY <3>2, <5>1
      <4>2. CASE Undecided(f) = {} /\ Balance(f) = req[r].seen
        <5>1. used[e][t] + row.days <= Entitled[t]
          BY <2>1, <3>5, <4>2 DEF Balance
        <5>2. \A k \in Leaves : leave[k].status = "pending" => ~On(k, e, t)
          BY <3>5, <4>2 DEF Undecided, On
        <5>3. \A k \in Leaves : leave'[k].status = "pending" /\ On(k, e, t)' => k = l
          BY <2>1, <5>2 DEF On
        <5>4. Suffices(e, t)'
          BY <2>1, <3>5, <5>1, <5>3 DEF Suffices
        <5> QED BY <3>2, <5>4
      <4> QED BY <2>1, <4>1, <4>2
    <3> QED BY <3>2, <3>3, <3>4, <3>5 DEF BalanceInv
  <2> QED BY <2>3 DEF BalanceInv
<1>7. ASSUME NEW r \in Requests, CommitDecide(r) PROVE BalanceInv'
  <2>1. PICK l \in Leaves, f \in Forms, to \in {"approved", "rejected"}, row \in LeaveRequest :
           /\ leave[l].status = "pending" /\ leave[l].form = f
           /\ row.status = to /\ row.form = f /\ row.days = leave[l].days /\ leave'[l] = row
           /\ leave' = [leave EXCEPT ![l] = row]
           /\ \A k \in Leaves \ {l} : leave'[k] = leave[k]
           /\ overtaken \subseteq overtaken'
           /\ IF to = "approved" THEN Approves(f, leave[l].days)
                                 ELSE UNCHANGED <<used, attendance, overtaken>>
    BY <1>7, CommitDecideDoes
  <2>2. PICK n \in Nat : n = leave[l].days
    BY <1>0 DEF LeaveRequest
  <2>3. leave' \in [Leaves -> LeaveRequest]
    BY <1>0, <2>1
  <2>4. ASSUME NEW e \in Employees, NEW t \in Types
        PROVE  /\ used'[e][t] = SumOver(DaysOf(e, t)')
               /\ Late(e, t)' \/ Suffices(e, t)'
    <3> DEFINE mine == to = "approved" /\ e = f.employee /\ t = f.type
    <3>1. used'[e][t] = IF mine THEN used[e][t] + n ELSE used[e][t]
      BY <2>1, <2>2 DEF Approves
    <3>2. PICK old : old = DaysOf(e, t)
      OBVIOUS
    <3>3. PICK new : new = DaysOf(e, t)'
      OBVIOUS
    <3>4. old \in [Leaves -> Int] /\ new \in [Leaves -> Int]
      <4>1. DaysOf(e, t)' = [k \in Leaves |-> IF leave'[k].status = "approved" /\ On(k, e, t)'
                                              THEN leave'[k].days ELSE 0]
        BY DEF DaysOf
      <4>2. \A k \in Leaves : leave'[k].days \in Nat
        BY <2>3 DEF LeaveRequest
      <4> QED BY <1>0, <3>2, <3>3, <4>1, <4>2, DaysAreWhole
    <3>5. \A k \in Leaves \ {l} : old[k] = new[k]
      BY <2>1, <3>2, <3>3 DEF DaysOf, On
    <3>6. old[l] = 0 /\ new[l] = IF mine THEN n ELSE 0
      BY <2>1, <2>2, <3>2, <3>3 DEF DaysOf, On
    <3>7. SumOver(new) = SumOver(old) - old[l] + new[l]
      BY <1>0, <3>4, <3>5, SumChanges
    <3>8. used[e][t] \in Nat /\ used[e][t] = SumOver(old)
      BY <1>0, <3>2 DEF BalanceInv
    <3>9. used'[e][t] = SumOver(DaysOf(e, t)')
      BY <3>1, <3>3, <3>6, <3>7, <3>8
    <3>10. CASE Late(e, t)
      <4>1. PICK k \in overtaken \cap Leaves : leave[k].status # "none" /\ On(k, e, t)
        BY <3>10 DEF Late
      <4>2. leave'[k].status # "none" /\ On(k, e, t)' /\ k \in overtaken'
        BY <2>1, <4>1 DEF On
      <4> QED BY <3>9, <4>1, <4>2 DEF Late
    <3>11. CASE Suffices(e, t) /\ ~mine
      <4>1. \A k \in Leaves : leave'[k].status = "pending" /\ On(k, e, t)' =>
               leave[k].status = "pending" /\ On(k, e, t) /\ leave'[k] = leave[k]
        BY <2>1 DEF On
      <4>2. used'[e][t] = used[e][t]
        BY <3>1, <3>11
      <4>3. Suffices(e, t)'
        BY <3>11, <4>1, <4>2 DEF Suffices
      <4> QED BY <3>9, <4>3
    <3>12. CASE Suffices(e, t) /\ mine
      <4>1. used[e][t] + n <= Entitled[t] /\ \A k \in Leaves :
               leave[k].status = "pending" /\ On(k, e, t) => k = l
        BY <2>1, <2>2, <3>12 DEF Suffices, On
      <4>2. used'[e][t] <= Entitled[t]
        BY <3>1, <3>12, <4>1
      <4>3. \A k \in Leaves : leave'[k].status = "pending" => ~On(k, e, t)'
        BY <2>1, <3>12, <4>1 DEF On
      <4>4. Suffices(e, t)'
        BY <4>2, <4>3 DEF Suffices
      <4> QED BY <3>9, <4>4
    <3> HIDE DEF mine
    <3> QED BY <3>10, <3>11, <3>12 DEF BalanceInv
  <2> QED BY <2>4 DEF BalanceInv
<1> QED
  BY <1>2, <1>3, <1>4, <1>5, <1>6, <1>7, RowSteps

\* No leave is used before any is granted.
LEMMA InitBalance == Init => BalanceInv
<1> SUFFICES ASSUME Init PROVE BalanceInv
  OBVIOUS
<1>1. \A l \in Leaves : leave[l].status = "none"
  BY DEF Init, NoLeave
<1>2. ASSUME NEW e \in Employees, NEW t \in Types
      PROVE  used[e][t] = SumOver(DaysOf(e, t)) /\ Suffices(e, t)
  <2>1. used[e][t] = 0 /\ Entitled[t] \in Nat
    BY InputsAssumption DEF Init
  <2>2. PICK f : f = DaysOf(e, t)
    OBVIOUS
  <2>3. f \in [Leaves -> Int] /\ \A l \in Leaves : f[l] = 0
    BY <1>1, <2>2 DEF DaysOf
  <2>4. SumOver(f) = 0
    BY <2>3, SumOfZeros, InputsAssumption
  <2> QED BY <1>1, <2>1, <2>2, <2>4 DEF Suffices
<1> QED
  BY <1>2 DEF BalanceInv

\* Where what is left suffices, what is used is within the entitlement.
LEMMA BalanceInvWithin == IInv /\ BalanceInv => WithinEntitlement
<1> SUFFICES ASSUME IInv, BalanceInv, NEW e \in Employees, NEW t \in Types
             PROVE  /\ used[e][t] = SumOver([l \in {k \in Leaves : leave[k].status = "approved" /\ On(k, e, t)}
                                              |-> leave[l].days])
                    /\ used[e][t] <= Entitled[t] \/ \E l \in overtaken \cap Leaves : On(l, e, t)
  BY DEF WithinEntitlement, On
<1>1. PICK S : S = {k \in Leaves : leave[k].status = "approved" /\ On(k, e, t)}
  OBVIOUS
<1>2. PICK g : g = [l \in S |-> leave[l].days]
  OBVIOUS
<1>3. PICK f : f = DaysOf(e, t)
  OBVIOUS
<1>4. f \in [Leaves -> Int]
  BY <1>3, DaysAreWhole DEF IInv, TypeOK, RowsTyped
<1>5. \A l \in Leaves \ S : f[l] = 0
  BY <1>1, <1>3 DEF DaysOf
<1>6. \A l \in S : g[l] = f[l]
  BY <1>1, <1>2, <1>3 DEF DaysOf
<1>7. SumOver(g) = SumOver(f)
  <2>1. S \in SUBSET Leaves /\ DOMAIN g = S /\ g = [l \in S |-> g[l]] /\ IsFiniteSet(Leaves)
    BY <1>1, <1>2, InputsAssumption
  <2> QED BY <1>4, <1>5, <1>6, <2>1, SumWhere
<1> QED
  BY <1>1, <1>2, <1>3, <1>7 DEF BalanceInv, Late, Suffices

\* A balance has used exactly what was approved on it, and no more than the year's
\* entitlement unless requests on it overtook one another.
THEOREM EntitlementKept == Spec => []WithinEntitlement
BY InitBalance, BalanceKept, BalanceInvWithin, Invariance, PTL DEF Spec

================================================================================
