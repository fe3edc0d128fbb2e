-------------------------------- MODULE People --------------------------------
(***************************************************************************)
(* The people of a company: the attendance sheet and leave                 *)
(* (hr/attendance-leave.service.ts), and the payroll run of a month        *)
(* computed from both (payroll/payroll.service.ts, payroll.calc.ts), with  *)
(* what it leaves in the ledger.                                           *)
(*                                                                         *)
(* A day is a number; all days are of one year, Month is the month of the  *)
(* run and Off its Fridays and holidays.  Days are counted in halves and   *)
(* money in paisa.  An employee who is not active, has not joined or has   *)
(* neither a structure nor a wage has no terms.  Number sequences other    *)
(* than the run's, and the journal's, are taken right before a commit.     *)
(*                                                                         *)
(* An operator Mut... is a defective variant of the definition after it,   *)
(* which a run must tell from the real one; no other definition uses it.   *)
(***************************************************************************)
EXTENDS Integers, FiniteSets, Sequences, Sums

CONSTANTS Employees,
          Terms,        \* Terms[e]: the terms e may be employed on, None among them
          Days, Month, Off,
          Sheets,       \* what a request to save the sheet of a day may carry
          Leaves,       \* leave requests
          Forms,        \* what a leave request may ask for
          Entitled,     \* Entitled[t]: the days of leave of type t in a year
          Unpaid,       \* the types of leave that are not paid
          Bonuses,      \* whether a run includes the festival bonus
          Settings,     \* bonusPercent, workingDays, slabs, exemptionCap, minimumTax
          MaxPayments,  \* bounds how often salaries are disbursed
          Requests,
          None          \* no value

Marks  == {"present", "late", "half_day", "absent", "leave", "holiday"}
Types  == DOMAIN Entitled
Term   == [daily : BOOLEAN, site : BOOLEAN, wage : Nat, basic : Nat, allowances : Nat,
           pf : Nat, overtime : Nat, taxed : BOOLEAN]
Form   == [employee : Employees, type : Types, from : Days, to : Days]
Record == [mark : Marks, hours : Nat]

Slab   == [upTo : Nat \cup {None}, rate : Nat]

ASSUME DaysAssumption == Days \subseteq Nat /\ IsFiniteSet(Days) /\ Month \cup Off \subseteq Days
ASSUME InputsAssumption ==
    /\ IsFiniteSet(Employees) /\ IsFiniteSet(Leaves)
    /\ \A e \in Employees : Terms[e] \subseteq Term \cup {None} /\ Terms[e] \ {None} # {}
    /\ \A sheet \in Sheets : /\ sheet.day \in Days /\ DOMAIN sheet.records \subseteq Employees
                             /\ sheet.records \in [DOMAIN sheet.records -> Record]
    /\ Forms \subseteq Form /\ Bonuses \subseteq BOOLEAN
    /\ Entitled \in [Types -> Nat] /\ Unpaid \subseteq Types
    /\ None \notin Leaves \cup Term \cup Record
ASSUME SettingsAssumption ==
    /\ Settings.slabs \in Seq(Slab)
    /\ Settings.bonusPercent \in Nat /\ Settings.workingDays \in Nat
    /\ Settings.exemptionCap \in Nat /\ Settings.minimumTax \in Nat

VARIABLES terms,      \* terms[e]: what e is employed on
          attendance, \* attendance[e][d]: e's record of day d
          leave,      \* leave[l]: a leave request
          used,       \* used[e][t]: days used of e's balance
          run,        \* the payroll run of the month, with its payslips
          payments,   \* posted entries that pay the run
          ledger,     \* what payroll has put on each account, debit positive
          req,        \* req[r]: what request r is doing
          locks,      \* row locks held by open transactions
          overtaken   \* rows written after what their request had read
                      \* changed (a history variable)

rows == <<terms, attendance, leave, used, run, payments, ledger, overtaken>>
vars == <<rows, req, locks>>

LeaveRow(l) == <<"leave", l>>
RunRow      == <<"run">>
RunNumber   == <<"sequence", "payroll">>

L == INSTANCE RowLocks WITH
        Rows <- {LeaveRow(l) : l \in Leaves} \cup {RunRow, RunNumber}


-------------------------------------------------------------------------------
(* A payslip                                                               *)

\* n / d to the nearest unit, halves up.
Round(n, d) == (2 * n + d) \div (2 * d)
Least(m, n) == IF m < n THEN m ELSE n

\* What slab k, above floor, takes of x: all that is left when it has no ceiling, and
\* else up to its own width.
Width(k, floor, x) ==
    IF x <= 0 THEN 0
    ELSE IF Settings.slabs[k].upTo = None THEN x
    ELSE Least(x, 3 * (Settings.slabs[k].upTo - floor))

\* What is left of `thirds`, thirds of the income, above the first k slabs.
Left(thirds) ==
    LET floor(k) == IF k = 1 THEN 0 ELSE Settings.slabs[k - 1].upTo
        left[k \in 0 .. Len(Settings.slabs)] ==
            IF k = 0 THEN thirds ELSE left[k - 1] - Width(k, floor(k), left[k - 1])
    IN left

\* annualTax: every slab is taxed at its rate, and a tax that is due is never below
\* the minimum.
AnnualTax(thirds) ==
    LET left == Left(thirds)
        tax  == Round(SumOver([k \in DOMAIN Settings.slabs |->
                                  (left[k - 1] - left[k]) * Settings.slabs[k].rate]), 300)
    IN IF tax > 0 /\ tax < Settings.minimumTax THEN Settings.minimumTax ELSE tax

\* computePayslip: present and unpaid in half days.
Payslip(t, present, unpaid, hours, withBonus) ==
    IF t.daily
    THEN LET gross == Round(t.wage * present, 2) + Round(t.wage * 2 * hours, 8) IN
         [site |-> t.site, gross |-> gross, bonus |-> 0, absence |-> 0, pf |-> 0, tds |-> 0,
          net |-> gross]
    ELSE LET fixed   == t.basic + t.allowances
             absence == Round(t.basic * unpaid, 60)
             worked  == IF t.overtime > 0 THEN t.overtime * hours ELSE Round(t.basic * 2 * hours, 208)
             once    == Round(t.basic * Settings.bonusPercent, 100)
             bonus   == IF withBonus THEN once ELSE 0
             pf      == Round(t.basic * t.pf, 100)
             annual  == 12 * fixed + 2 * once
             tds     == IF t.taxed
                        THEN Round(AnnualTax(3 * annual - Least(annual, 3 * Settings.exemptionCap)), 12)
                        ELSE 0
             gross   == fixed + worked + bonus IN
         [site |-> t.site, gross |-> gross, bonus |-> bonus, absence |-> absence, pf |-> pf,
          tds |-> tds, net |-> gross - absence - pf - tds]

-------------------------------------------------------------------------------
(* Rows and requests                                                       *)

LeaveStatus == {"none", "pending", "approved", "rejected"}
LeaveRequest == [status : LeaveStatus, form : Forms \cup {None}, days : Nat]
NoLeave == [status |-> "none", form |-> None, days |-> 0]

\* slips[e]: None, or the payslip with the days it deducted twice (history).
NoRun == [status |-> "none", slips |-> [e \in Employees |-> None], net |-> 0]

Accounts == {"labor_cost", "salary_expense", "bonus_expense", "pf_expense",
             "salary_payable", "tds_payable", "pf_payable", "cash"}

\* leave, form, to: the leave request it makes or decides on; bonus: with the
\* festival bonus; terms, sheet: employees and attendance as it read them;
\* seen: the balance or the payments it read (history).
Idle == [step |-> "idle", op |-> None, leave |-> None, form |-> None, to |-> None,
         bonus |-> FALSE, terms |-> None, sheet |-> None, seen |-> 0]

Begin(r, asked) ==
    /\ req[r] = Idle
    /\ req' = [req EXCEPT ![r] = asked]
    /\ UNCHANGED <<rows, locks>>

At(r, op, step) == req[r].op = op /\ req[r].step = step
Goto(r, step) == req' = [req EXCEPT ![r].step = step]

End(r) ==
    /\ req' = [req EXCEPT ![r] = Idle]
    /\ L!EndTransaction(r)

Wrote(row, fresh) == overtaken' = IF fresh THEN overtaken ELSE overtaken \cup {row}

Reading(r) == req[r].op = "generate" /\ req[r].step = "leaves"

-------------------------------------------------------------------------------
(* Employees and the sheet                                                 *)

\* Employees are created, updated and leave, and structures are saved.
SetTerms(e, t) ==
    /\ terms[e] # t
    /\ terms' = [terms EXCEPT ![e] = t]
    /\ UNCHANGED <<attendance, leave, used, run, payments, ledger, req, locks, overtaken>>

LeaveDays(from, to) == (from .. to) \ Off

\* The days an approved request of e, of one of the types, takes.
Away(e, types) ==
    UNION {LeaveDays(leave[l].form.from, leave[l].form.to) :
           l \in {k \in Leaves : /\ leave[k].status = "approved"
                                 /\ leave[k].form.employee = e /\ leave[k].form.type \in types}}

\* saveBulk writes over whatever the sheet says, an approved leave too.
SaveBulk(sheet) ==
    LET d == sheet.day
        marked(e) == IF e \in DOMAIN sheet.records
                     THEN [attendance[e] EXCEPT ![d] = sheet.records[e]] ELSE attendance[e] IN
    /\ attendance' = [e \in Employees |-> marked(e)]
    /\ overtaken' = overtaken \cup
                    {<<"day", e, d>> : e \in {k \in DOMAIN sheet.records : d \in Away(k, Types)}}
    /\ UNCHANGED <<terms, leave, used, run, payments, ledger, req, locks>>

-------------------------------------------------------------------------------
(* Leave                                                                   *)

Live(l) == leave[l].status \in {"pending", "approved"}

Overlaps(f, g) == f.employee = g.employee /\ f.from <= g.to /\ g.from <= f.to

\* The live requests that overlap form f.
InTheWay(f) == {l \in Leaves : Live(l) /\ Overlaps(leave[l].form, f)}

\* The requests on which the balance that f draws on has not been decided.
Undecided(f) == {l \in Leaves : /\ leave[l].status = "pending"
                                /\ leave[l].form.employee = f.employee
                                /\ leave[l].form.type = f.type}

Balance(f) == used[f.employee][f.type]

\* The balance counts what was approved, not what is pending.
Sufficient(f) == Balance(f) + Cardinality(LeaveDays(f.from, f.to)) <= Entitled[f.type]

\* requestLeave checks dates, overlap and balance ...
BeginRequestLeave(r, l, f) ==
    /\ leave[l] = NoLeave
    /\ \A q \in Requests : req[q].leave # l
    /\ LeaveDays(f.from, f.to) # {}
    /\ InTheWay(f) = {}
    /\ Sufficient(f)
    /\ Begin(r, [Idle EXCEPT !.op = "request", !.step = "commit", !.leave = l, !.form = f,
                             !.seen = Balance(f)])

\* ... and inserts, without a transaction.
CommitRequestLeave(r) ==
    LET l == req[r].leave  f == req[r].form IN
    /\ At(r, "request", "commit")
    /\ leave' = [leave EXCEPT ![l] = [status |-> "pending", form |-> f,
                                      days |-> Cardinality(LeaveDays(f.from, f.to))]]
    /\ Wrote(l, InTheWay(f) = {} /\ Undecided(f) = {} /\ Balance(f) = req[r].seen)
    /\ End(r)
    /\ UNCHANGED <<terms, attendance, used, run, payments, ledger>>

BeginDecide(r, l, to) ==
    /\ leave[l].status # "none"
    /\ Begin(r, [Idle EXCEPT !.op = "decide", !.step = "document", !.leave = l, !.to = to])

MutLockLeave(r) ==
    /\ At(r, "decide", "document")
    /\ leave[req[r].leave].status = "pending"
    /\ Goto(r, "commit")
    /\ UNCHANGED <<rows, locks>>

\* decide's SELECT ... FOR UPDATE.
LockLeave(r) ==
    /\ At(r, "decide", "document")
    /\ leave[req[r].leave].status = "pending"
    /\ L!Lock(r, LeaveRow(req[r].leave))
    /\ Goto(r, "commit")
    /\ UNCHANGED rows

MutOnLeave(record) == record

\* The sheet's record of a day of leave; overtime that was on it stays.
OnLeave(record) == [mark |-> "leave", hours |-> IF record = None THEN 0 ELSE record.hours]

Approve(l, f) ==
    LET days == LeaveDays(f.from, f.to) IN
    /\ used' = [used EXCEPT ![f.employee][f.type] = @ + leave[l].days]
    /\ attendance' = [attendance EXCEPT ![f.employee] =
                         [d \in Days |-> IF d \in days THEN OnLeave(@[d]) ELSE @[d]]]
    /\ overtaken' = overtaken \cup
                    {<<"day", f.employee, d>> : d \in IF \E q \in Requests : Reading(q) THEN days
                                                      ELSE {}}

CommitDecide(r) ==
    LET l == req[r].leave  f == leave[l].form IN
    /\ At(r, "decide", "commit")
    /\ leave' = [leave EXCEPT ![l].status = req[r].to]
    /\ IF req[r].to = "approved" THEN Approve(l, f)
       ELSE UNCHANGED <<used, attendance, overtaken>>
    /\ End(r)
    /\ UNCHANGED <<terms, run, payments, ledger>>

-------------------------------------------------------------------------------
(* The payroll run                                                         *)

Employed == {e \in Employees : terms[e] # None}

BeginGenerate(r, bonus) ==
    Begin(r, [Idle EXCEPT !.op = "generate", !.step = "run", !.bonus = bonus])
BeginFinalize(r) ==
    /\ run.status # "none"
    /\ Begin(r, [Idle EXCEPT !.op = "finalize", !.step = "run"])

MutLockRun(r) ==
    /\ req[r].step = "run"
    /\ run.status = "draft"
    /\ Goto(r, IF req[r].op = "generate" THEN "sheet" ELSE "commit")
    /\ UNCHANGED <<rows, locks>>

\* The SELECT ... FOR UPDATE of a draft, by generate and finalize.
LockRun(r) ==
    /\ req[r].step = "run"
    /\ run.status = "draft"
    /\ L!Lock(r, RunRow)
    /\ Goto(r, IF req[r].op = "generate" THEN "sheet" ELSE "commit")
    /\ UNCHANGED rows

\* generate finds no run of the month ...
FindNoRun(r) ==
    /\ At(r, "generate", "run")
    /\ run.status = "none"
    /\ Goto(r, "number")
    /\ UNCHANGED <<rows, locks>>

\* ... and inserts one, which fails when another request has.
InsertRun(r) ==
    /\ req[r].step = "number"
    /\ run.status = "none"
    /\ L!Lock(r, RunNumber)
    /\ Goto(r, "sheet")
    /\ UNCHANGED rows

\* generate reads the employees and their attendance ...
ReadSheet(r) ==
    /\ req[r].step = "sheet"
    /\ Employed # {}
    /\ req' = [req EXCEPT ![r].step = "leaves", ![r].terms = terms, ![r].sheet = attendance]
    /\ UNCHANGED <<rows, locks>>

\* The days of the month on which the sheet of e, as r read it, has one of the marks.
Marked(r, e, marks) ==
    {d \in Month : req[r].sheet[e][d] # None /\ req[r].sheet[e][d].mark \in marks}

\* Twice: the days a slip counts as absent and as unpaid leave (history).
Slip(r, e) ==
    LET recorded == Marked(r, e, Marks)
        half     == Cardinality(Marked(r, e, {"half_day"}))
        absent   == Marked(r, e, {"absent"})
        unpaid   == Away(e, Unpaid) \cap Month
        present  == IF recorded # {}
                    THEN 2 * Cardinality(Marked(r, e, {"present", "late"})) + half
                    ELSE IF req[r].terms[e].daily THEN 0 ELSE 2 * Settings.workingDays
        away     == 2 * Cardinality(absent) + half + 2 * Cardinality(unpaid)
        hours    == SumOver([d \in recorded |-> req[r].sheet[e][d].hours]) IN
    [pay |-> Payslip(req[r].terms[e], present, away, hours, req[r].bonus),
     twice |-> absent \cap unpaid]

Net(slips) == SumOver([e \in {k \in Employees : slips[k] # None} |-> slips[e].pay.net])

\* ... then the approved leaves, and writes the payslips over those of the draft.
CommitGenerate(r) ==
    LET slips == [e \in Employees |-> IF req[r].terms[e] = None THEN None ELSE Slip(r, e)] IN
    /\ At(r, "generate", "leaves")
    /\ run' = [status |-> "draft", slips |-> slips, net |-> Net(slips)]
    /\ End(r)
    /\ UNCHANGED <<terms, attendance, leave, used, payments, ledger, overtaken>>

\* What the payslips put on each account, debit positive.
Postings(slips) ==
    LET on(site) == {e \in Employees : slips[e] # None /\ slips[e].pay.site = site}
        all      == on(TRUE) \cup on(FALSE)
        total(S, field) == SumOver([e \in S |-> slips[e].pay[field]])
        earned(S) == total(S, "gross") - total(S, "bonus") - total(S, "absence") IN
    [labor_cost |-> earned(on(TRUE)), salary_expense |-> earned(on(FALSE)),
     bonus_expense |-> total(all, "bonus"), pf_expense |-> total(all, "pf"),
     salary_payable |-> -total(all, "net"), tds_payable |-> -total(all, "tds"),
     pf_payable |-> -2 * total(all, "pf"), cash |-> 0]

\* finalize: the sum of the lines is zero, or normalizeLines refuses the entry.
CommitFinalize(r) ==
    LET lines == Postings(run.slips) IN
    /\ At(r, "finalize", "commit")
    /\ SumOver(lines) = 0
    /\ run' = [run EXCEPT !.status = "finalized"]
    /\ ledger' = [a \in Accounts |-> ledger[a] + lines[a]]
    /\ End(r)
    /\ UNCHANGED <<terms, attendance, leave, used, payments, overtaken>>

\* pay reads the run and looks for a posted payment of it ...
BeginPay(r) ==
    /\ run.status = "finalized" /\ run.net # 0
    /\ payments = 0
    /\ Begin(r, [Idle EXCEPT !.op = "pay", !.step = "commit", !.seen = payments])

\* ... and posts one in a transaction of its own.
CommitPay(r) ==
    /\ At(r, "pay", "commit")
    /\ payments < MaxPayments
    /\ payments' = payments + 1
    /\ ledger' = [ledger EXCEPT !["salary_payable"] = @ + run.net, !["cash"] = @ - run.net]
    /\ Wrote(RunRow, payments = req[r].seen)
    /\ End(r)
    /\ UNCHANGED <<terms, attendance, leave, used, run>>

-------------------------------------------------------------------------------
(* Requests that end without a commit                                      *)

\* A check inside the request refuses what it reads.
Refuse(r) ==
    /\ \/ /\ At(r, "decide", "document")
          /\ L!Available(r, LeaveRow(req[r].leave))
          /\ leave[req[r].leave].status # "pending"
       \/ req[r].step = "run" /\ run.status = "finalized" /\ L!Available(r, RunRow)
       \/ req[r].step = "number" /\ run.status # "none" /\ L!Available(r, RunNumber)
       \/ req[r].step = "sheet" /\ Employed = {}
    /\ End(r)
    /\ UNCHANGED rows

\* A locked period, a lost connection, a restart.
Fail(r) ==
    /\ req[r] # Idle
    /\ End(r)
    /\ UNCHANGED rows

-------------------------------------------------------------------------------
(* The specification                                                       *)

Init ==
    /\ terms = [e \in Employees |-> CHOOSE t \in Terms[e] : t # None]
    /\ attendance = [e \in Employees |-> [d \in Days |-> None]]
    /\ leave = [l \in Leaves |-> NoLeave]
    /\ used = [e \in Employees |-> [t \in Types |-> 0]]
    /\ run = NoRun
    /\ payments = 0
    /\ ledger = [a \in Accounts |-> 0]
    /\ req = [r \in Requests |-> Idle]
    /\ L!NoLocks
    /\ overtaken = {}

Start(r) ==
    \/ \E l \in Leaves, f \in Forms : BeginRequestLeave(r, l, f)
    \/ \E l \in Leaves, to \in {"approved", "rejected"} : BeginDecide(r, l, to)
    \/ \E bonus \in Bonuses : BeginGenerate(r, bonus)
    \/ BeginFinalize(r) \/ BeginPay(r)

Proceed(r) ==
    \/ CommitRequestLeave(r) \/ LockLeave(r) \/ CommitDecide(r)
    \/ LockRun(r) \/ FindNoRun(r) \/ InsertRun(r) \/ ReadSheet(r) \/ CommitGenerate(r)
    \/ CommitFinalize(r) \/ CommitPay(r)
    \/ Refuse(r)

Next ==
    \/ \E e \in Employees : \E t \in Terms[e] : SetTerms(e, t)
    \/ \E sheet \in Sheets : SaveBulk(sheet)
    \/ \E r \in Requests : Start(r) \/ Proceed(r) \/ Fail(r)

Spec == Init /\ [][Next]_vars

-------------------------------------------------------------------------------
(* Properties                                                              *)

\* A balance has used exactly the days of the requests approved on it, each
\* counted once however often it is decided on; and they are never more than the
\* year's entitlement, unless a request was made while another on the balance
\* was undecided or had just been decided.
WithinEntitlement ==
    \A e \in Employees, t \in Types :
        LET On(l) == leave[l].form.employee = e /\ leave[l].form.type = t IN
        /\ used[e][t] = SumOver([l \in {k \in Leaves : leave[k].status = "approved" /\ On(k)}
                                  |-> leave[l].days])
        /\ used[e][t] <= Entitled[t] \/ \E l \in overtaken \cap Leaves : On(l)

\* No payslip deducts one day both as absence and as unpaid leave, unless the
\* sheet was saved over an approved leave or the leave was approved between the
\* run's reads of the sheet and of the leaves.
AwayDeductedOnce ==
    \A e \in Employees :
        run.slips[e] # None => \A d \in run.slips[e].twice : <<"day", e, d>> \in overtaken

\* The ledger holds what the payslips of the finalized run say, less one payment
\* of their net pay when it is disbursed, unless two requests to disburse both
\* looked for a payment before either was posted.
LedgerTellsSlips ==
    LET finalized == run.status = "finalized"
        lines == Postings(run.slips) IN
    RunRow \notin overtaken =>
        \A a \in Accounts :
            ledger[a] = (IF finalized THEN lines[a] ELSE 0)
                      + (IF payments = 0 THEN 0
                         ELSE CASE a = "salary_payable" -> -lines[a]
                                [] a = "cash"           -> lines["salary_payable"]
                                [] OTHER                -> 0)

================================================================================
