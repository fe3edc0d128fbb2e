-------------------------------- MODULE Ventures --------------------------------
(***************************************************************************)
(* The services of investors/ side by side: the investors of a project,    *)
(* the cases of the recruitment agency, and the quotations that projects   *)
(* come from.  They keep tables of their own, lock no row and call none of *)
(* the others, so a step is one of theirs; what they promise each holds    *)
(* whatever the other two do.                                              *)
(***************************************************************************)
EXTENDS Integers

CONSTANTS Clerks,  \* HTTP requests in progress
          Nil      \* no value

\* Of Investors.
CONSTANTS Investors, Agreements, Terms, Movements, Deposits, Manual, Days, Periods, Profits
VARIABLES agreement, movement, profit, owed, booking, excused, again,
          investing  \* investing[r]: what request r is doing there

\* Of Recruitment.
CONSTANTS Jobs, Candidates, Cases, MaxPositions, Stages, Denied, Departed, JobEdits, CaseEdits
VARIABLES job, case, lost,
          second,    \* second live cases of a candidate (a history variable)
          behind,
          recruiting

\* Of Quotations.
CONSTANTS Quotations, Codes, Offers, Complete
VARIABLES quotation, project,
          contested, \* quotations won by requests that overtook each other (history)
          quoting

investVars  == <<agreement, movement, profit, owed, booking, excused, again, investing>>
recruitVars == <<job, case, lost, second, behind, recruiting>>
quoteVars   == <<quotation, project, contested, quoting>>
ventures    == <<investVars, recruitVars, quoteVars>>

I == INSTANCE Investors WITH Amounts <- Deposits, Requests <- Clerks, None <- Nil, req <- investing
E == INSTANCE Recruitment WITH Requests <- Clerks, None <- Nil, loose <- second, req <- recruiting
Q == INSTANCE Quotations WITH Requests <- Clerks, None <- Nil, overtaken <- contested, req <- quoting

ASSUME VenturesAssumption == I!Assumptions /\ E!Assumptions /\ Q!Assumptions

VenturesInit == I!Init /\ E!Init /\ Q!Init

VenturesNext ==
    \/ I!Next /\ UNCHANGED <<recruitVars, quoteVars>>
    \/ E!Next /\ UNCHANGED <<investVars, quoteVars>>
    \/ Q!Next /\ UNCHANGED <<investVars, recruitVars>>

VenturesSpec == VenturesInit /\ [][VenturesNext]_ventures

-------------------------------------------------------------------------------
(* Properties                                                              *)

\* Bookings can be repeated without booking a share twice (allocateProfit).
BookedOnce == I!BookedOnce

\* Investors are paid out of their balance, and the ledger owes them what their
\* balances say (transact, cancelTransaction).
BalanceIsOwed == I!BalanceIsOwed

\* A job order counts the cases opened for it, within its positions, and a candidate has
\* one live case (createCase, updateJobOrder).
VacanciesHonest == E!VacanciesHonest

\* A case is at the furthest stage of its events (advance).
StageIsFurthest == E!StageIsFurthest

\* Winning a quotation makes one project, with its lines, and locks it (win).
WonIsOneProject == Q!WonIsOneProject

================================================================================
