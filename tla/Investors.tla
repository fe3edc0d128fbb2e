------------------------------- MODULE Investors -------------------------------
(***************************************************************************)
(* The investors of one project (investors/investors.service.ts): their    *)
(* agreements on shares of its profit, contributions and payouts, and the  *)
(* shares booked for periods of days.                                      *)
(*                                                                         *)
(* A read that a later step depends on is an action of its own; a write is *)
(* one with the rest of its transaction, the number of the row and its     *)
(* journal entry included.  Percentages are whole and money is in paisa.   *)
(*                                                                         *)
(* An operator Mut... is a defective variant of the definition after it,   *)
(* which a run must tell from the real one; no other definition uses it.   *)
(***************************************************************************)
EXTENDS Integers, FiniteSets, Sums

CONSTANTS Investors,
          Agreements,  \* rows of investment_agreements
          Terms,       \* what an agreement may be: its investor, percent and status,
                       \* and whether it shares losses
          Movements,   \* rows of investor_transactions
          Amounts,     \* amounts of contributions and payouts
          Manual,      \* amounts a booking may name; None: the computed one
          Days, Periods,
          Profits,     \* what the ledger may say the project earned on a day
          Requests, None

Shares == {"profit_share", "loss_share"}

Term     == [investor : Investors, percent : Nat, losses : BOOLEAN,
             status : {"draft", "active", "closed", "cancelled"}]
Movement == [type : Shares \cup {"contribution", "payout"}, investor : Investors,
             agreement : Agreements \cup {None}, amount : Nat, period : Periods \cup {None},
             status : {"posted", "cancelled"}]

Operations == {"create", "payout", "allocate", "cancel"}

Assumptions ==
    /\ IsFiniteSet(Investors) /\ IsFiniteSet(Agreements) /\ IsFiniteSet(Movements) /\ IsFiniteSet(Days)
    /\ Terms \subseteq Term /\ Days \subseteq Int /\ Periods \subseteq [from : Int, to : Int]
    /\ Amounts \subseteq Nat /\ Manual \subseteq Int \cup {None} /\ Profits \subseteq Int
    /\ None \notin Operations \cup Term \cup Movement

VARIABLES agreement, \* agreement[a]: None or the agreement's terms
          movement,  \* movement[m]: None or the transaction
          profit,    \* profit[d]: income less expense the ledger has of day d
          owed,      \* what the ledger has on investor capital and payable
          booking,   \* booking[a][p]: what should be booked of a within p: what the last
                     \* computed booking of p was entitled to, and what was booked or
                     \* cancelled since; None when it was overtaken (a history variable)
          excused,   \* investors overdrawn by a loss, a cancellation or a payout that
                     \* was overtaken (a history variable)
          again,     \* what was reversed a second time (a history variable)
          req        \* req[r]: what request r is doing

rows == <<agreement, movement, owed, booking, excused, again>>
vars == <<rows, profit, req>>

-------------------------------------------------------------------------------
(* Balances and entitlements                                               *)

Posted == {m \in Movements : movement[m] # None /\ movement[m].status = "posted"}

\* What a movement adds to its investor's balance.
Signed(row) == IF row.type \in {"contribution", "profit_share"} THEN row.amount ELSE -row.amount

Balance(i) == SumOver([m \in {k \in Posted : movement[k].investor = i} |-> Signed(movement[m])])

Within(p, q) == p.from >= q.from /\ p.to <= q.to

MutCounted(a, p) ==
    {m \in Movements : /\ movement[m] # None /\ movement[m].type \in Shares
                       /\ movement[m].agreement = a /\ Within(movement[m].period, p)}

\* The shares of a that entitlements counts as booked for a period.
Counted(a, p) ==
    {m \in Posted : /\ movement[m].type \in Shares
                    /\ movement[m].agreement = a /\ Within(movement[m].period, p)}

Booked(a, p) == SumOver([m \in Counted(a, p) |-> Signed(movement[m])])

Earned(p) == SumOver([d \in {e \in Days : p.from <= e /\ e <= p.to} |-> profit[d]])

Abs(n) == IF n < 0 THEN -n ELSE n

\* pct rounds halves away from zero.
Pct(n, percent) ==
    LET q == (2 * Abs(n) * percent + 100) \div 200 IN IF n < 0 THEN -q ELSE q

\* computeEntitlement.
Entitlement(n, percent, losses) ==
    IF Pct(n, percent) < 0 /\ ~losses THEN 0 ELSE Pct(n, percent)

Live == {a \in Agreements : agreement[a] # None /\ agreement[a].status \in {"draft", "active"}}
Shared == SumOver([a \in Live |-> agreement[a].percent])

-------------------------------------------------------------------------------
(* Requests                                                                *)

\* late: the balance or the bookings it has read have changed since (history).
Idle == [step |-> "idle", op |-> None, agreement |-> None, terms |-> None, investor |-> None,
         movement |-> None, period |-> None, manual |-> FALSE, amount |-> 0, earned |-> 0,
         late |-> FALSE]

Begin(r, asked) == req[r] = Idle /\ req' = [req EXCEPT ![r] = asked]

At(r, op, step) == req[r].op = op /\ req[r].step = step

\* r ends; requests in S have read what it has changed.
EndOvertaking(r, S) ==
    req' = [q \in Requests |-> IF q = r THEN Idle
                               ELSE [req[q] EXCEPT !.late = @ \/ q \in S]]
End(r) == EndOvertaking(r, {})

\* Requests that have read the balance of row's investor or what is booked of its
\* agreement, which row changes.
Reading(row) ==
    {q \in Requests : /\ req[q].step = "commit"
                      /\ \/ req[q].op = "payout" /\ req[q].investor = row.investor
                         \/ /\ req[q].op = "allocate" /\ row.type \in Shares
                            /\ req[q].agreement = row.agreement /\ Within(row.period, req[q].period)}

-------------------------------------------------------------------------------
(* Agreements                                                              *)

Room(percent) == Shared + percent <= 100

\* createAgreement sums the shares of the project ...
BeginAgreement(r, a, terms) ==
    /\ agreement[a] = None
    /\ \A q \in Requests : req[q].op = "create" => req[q].agreement # a
    /\ Room(terms.percent)
    /\ Begin(r, [Idle EXCEPT !.op = "create", !.step = "commit", !.agreement = a, !.terms = terms])
    /\ UNCHANGED <<rows, profit>>

\* ... and inserts the agreement.
CommitAgreement(r) ==
    LET a == req[r].agreement IN
    /\ At(r, "create", "commit")
    /\ agreement' = [agreement EXCEPT ![a] = req[r].terms]
    /\ End(r)
    /\ UNCHANGED <<movement, profit, owed, booking, excused, again>>

\* updateAgreement writes what it is given: the sum of the shares is not checked again.
UpdateAgreement(a, terms) ==
    /\ agreement[a] \notin {None, terms}
    /\ agreement' = [agreement EXCEPT ![a] = terms]
    /\ UNCHANGED <<movement, profit, owed, booking, excused, again, req>>

-------------------------------------------------------------------------------
(* Money in and out                                                        *)

\* Who is overdrawn: i is excused for what has just been posted or cancelled.
Excuse(i, excuse) ==
    excused' = {j \in Investors : Balance(j)' < 0 /\ (j \in excused \/ (j = i /\ excuse))}

\* row is inserted and posted.
Insert(m, row) ==
    /\ movement[m] = None
    /\ movement' = [movement EXCEPT ![m] = row]
    /\ owed' = owed + Signed(row)

Money(type, i, amount) ==
    [type |-> type, investor |-> i, agreement |-> None, amount |-> amount, period |-> None,
     status |-> "posted"]

Contribute(m, i, amount) ==
    LET row == Money("contribution", i, amount) IN
    /\ Insert(m, row)
    /\ Excuse(i, FALSE)
    /\ req' = [q \in Requests |-> [req[q] EXCEPT !.late = @ \/ q \in Reading(row)]]
    /\ UNCHANGED <<agreement, profit, booking, again>>

MutCovered(i, amount) == Balance(i) > 0

Covered(i, amount) == amount <= Balance(i)

\* A payout is compared with the balance ...
BeginPayout(r, i, amount) ==
    /\ Covered(i, amount)
    /\ Begin(r, [Idle EXCEPT !.op = "payout", !.step = "commit", !.investor = i, !.amount = amount])
    /\ UNCHANGED <<rows, profit>>

\* ... and posted.
CommitPayout(r, m) ==
    LET row == Money("payout", req[r].investor, req[r].amount) IN
    /\ At(r, "payout", "commit")
    /\ Insert(m, row)
    /\ Excuse(row.investor, req[r].late)
    /\ EndOvertaking(r, Reading(row))
    /\ UNCHANGED <<agreement, profit, booking, again>>

-------------------------------------------------------------------------------
(* Shares of the profit                                                    *)

\* allocateProfit reads the agreement, ...
BeginAllocate(r, a, p, amount) ==
    /\ agreement[a] # None
    /\ agreement[a].status # "cancelled"
    /\ Begin(r, [Idle EXCEPT !.op = "allocate", !.step = "profit", !.agreement = a,
                             !.investor = agreement[a].investor, !.period = p,
                             !.manual = amount # None, !.amount = IF amount = None THEN 0 ELSE amount])
    /\ UNCHANGED <<rows, profit>>

\* ... then entitlements the project's profit, ...
ReadProfit(r) ==
    /\ At(r, "allocate", "profit")
    /\ req' = [req EXCEPT ![r].step = "terms", ![r].earned = Earned(req[r].period)]
    /\ UNCHANGED <<rows, profit>>

\* ... the agreements of the project, of which a computed booking needs its own, ...
ReadTerms(r) ==
    LET terms == agreement[req[r].agreement] IN
    /\ At(r, "allocate", "terms")
    /\ IF terms.status = "cancelled" /\ ~req[r].manual THEN End(r)
       ELSE req' = [req EXCEPT ![r].step = "booked",
                        ![r].earned = Entitlement(req[r].earned, terms.percent, terms.losses)]
    /\ UNCHANGED <<rows, profit>>

\* ... and what has been booked.
ReadBooked(r) ==
    LET amount == IF req[r].manual THEN req[r].amount
                  ELSE req[r].earned - Booked(req[r].agreement, req[r].period) IN
    /\ At(r, "allocate", "booked")
    /\ IF amount = 0 THEN End(r)
       ELSE req' = [req EXCEPT ![r].step = "commit", ![r].amount = amount]
    /\ UNCHANGED <<rows, profit>>

\* What should be booked once row is, or no longer is.
Rebooked(row, n) ==
    [a \in Agreements |-> [p \in Periods |->
        IF booking[a][p] # None /\ row.agreement = a /\ Within(row.period, p)
        THEN booking[a][p] + n ELSE booking[a][p]]]

CommitAllocate(r, m) ==
    LET amount == req[r].amount
        row    == [type |-> IF amount > 0 THEN "profit_share" ELSE "loss_share",
                   investor |-> req[r].investor, agreement |-> req[r].agreement,
                   amount |-> Abs(amount), period |-> req[r].period, status |-> "posted"]
        after  == Rebooked(row, amount) IN
    /\ At(r, "allocate", "commit")
    /\ Insert(m, row)
    /\ Excuse(row.investor, amount < 0)
    /\ booking' = IF req[r].manual THEN after
                  ELSE [after EXCEPT ![row.agreement][row.period] =
                           IF req[r].late THEN None ELSE req[r].earned]
    /\ EndOvertaking(r, Reading(row))
    /\ UNCHANGED <<agreement, profit, again>>

-------------------------------------------------------------------------------
(* Cancelling                                                              *)

\* cancelTransaction, up to the read of the journal entry it reverses, which is
\* posted as long as the movement is ...
BeginCancel(r, m) ==
    /\ m \in Posted
    /\ Begin(r, [Idle EXCEPT !.op = "cancel", !.step = "commit", !.movement = m])
    /\ UNCHANGED <<rows, profit>>

\* ... and its reversal, whatever the movement is by then.
CommitCancel(r) ==
    LET m   == req[r].movement
        row == movement[m] IN
    /\ At(r, "cancel", "commit")
    /\ movement' = [movement EXCEPT ![m].status = "cancelled"]
    /\ owed' = owed - Signed(row)
    /\ again' = IF m \in Posted THEN again ELSE again + Signed(row)
    /\ booking' = IF m \in Posted /\ row.type \in Shares THEN Rebooked(row, -Signed(row)) ELSE booking
    /\ Excuse(row.investor, Signed(row) > 0)
    /\ EndOvertaking(r, Reading(row))
    /\ UNCHANGED <<agreement, profit>>

-------------------------------------------------------------------------------
(* The specification                                                       *)

\* Other modules post income and expense of the project.
PostProject(d, n) ==
    /\ profit[d] # n
    /\ profit' = [profit EXCEPT ![d] = n]
    /\ UNCHANGED <<rows, req>>

InitInvestors ==
    /\ agreement = [a \in Agreements |-> None]
    /\ movement = [m \in Movements |-> None]
    /\ profit \in [Days -> Profits]
    /\ owed = 0
    /\ booking = [a \in Agreements |-> [p \in Periods |-> 0]]
    /\ excused = {}
    /\ again = 0

Init == InitInvestors /\ req = [r \in Requests |-> Idle]

\* What requests may do: about agreements As on terms Ts; about money; about shares of
\* periods Ps, of amounts Ns, in movements Ms; and about what is posted.
Agree(As, Ts) ==
    \/ \E r \in Requests, a \in As, terms \in Ts : BeginAgreement(r, a, terms)
    \/ \E r \in Requests : CommitAgreement(r)
    \/ \E a \in As, terms \in Ts : UpdateAgreement(a, terms)

Pay ==
    \/ \E m \in Movements, i \in Investors, n \in Amounts : Contribute(m, i, n)
    \/ \E r \in Requests, i \in Investors, n \in Amounts : BeginPayout(r, i, n)
    \/ \E r \in Requests, m \in Movements : CommitPayout(r, m)

Share(Ps, Ns, Ms) ==
    \/ \E r \in Requests, a \in Agreements, p \in Ps, n \in Ns : BeginAllocate(r, a, p, n)
    \/ \E r \in Requests : ReadProfit(r) \/ ReadTerms(r) \/ ReadBooked(r)
    \/ \E r \in Requests, m \in Ms : CommitAllocate(r, m)

Cancel ==
    \/ \E r \in Requests, m \in Movements : BeginCancel(r, m)
    \/ \E r \in Requests : CommitCancel(r)

Next ==
    \/ Agree(Agreements, Terms) \/ Pay \/ Share(Periods, Manual, Movements) \/ Cancel
    \/ \E d \in Days, n \in Profits : PostProject(d, n)

Spec == Init /\ [][Next]_vars

-------------------------------------------------------------------------------
(* Properties                                                              *)

\* Bookings can be repeated: what is booked of an agreement within a period is what
\* the last computed booking of the period was entitled to, and what was booked or
\* cancelled within it since, unless another of these overtook its computation.
BookedOnce ==
    \A a \in Agreements, p \in Periods : booking[a][p] \in {None, Booked(a, p)}

\* Investors are paid out of their balance: it is only negative after a loss, a
\* cancellation, or a payout that something overtook; and the ledger owes the
\* investors what their balances say, but for entries that two cancellations reversed.
BalanceIsOwed ==
    /\ \A i \in Investors : Balance(i) < 0 => i \in excused
    /\ owed = SumOver([i \in Investors |-> Balance(i)]) - again

\* Allocations run repeatedly without double counting: with a profit that does not
\* change, what is booked of an agreement is never more than its share of all days.
NoDoubleCounting ==
    \A a \in {b \in Agreements : agreement[b] # None} :
        SumOver([m \in {k \in Posted : movement[k].agreement = a} |-> Signed(movement[m])])
            <= Entitlement(SumOver(profit), agreement[a].percent, agreement[a].losses)

\* "Shares on one project cannot exceed 100%": what the agreements of a project share
\* of its profit is never more than the profit, whoever creates and updates them.
SharesWithinWhole == Shared <= 100

================================================================================
