------------------------------- MODULE Quotations -------------------------------
(***************************************************************************)
(* Quotations (investors/quotations.service.ts): an estimate is edited and *)
(* sent until it is won, which creates a project with its BOQ.             *)
(*                                                                         *)
(* The lines of a quotation are a member of Offers, which tells whether it *)
(* has a client and whether any of its lines is priced; what they amount   *)
(* to is left out.  A project is known by its code, which is unique.       *)
(* A read that a later step depends on is an action of its own; a write is *)
(* one with the rest of its transaction.                                   *)
(*                                                                         *)
(* An operator Mut... is a defective variant of the definition after it,   *)
(* which a run must tell from the real one; no other definition uses it.   *)
(***************************************************************************)
EXTENDS FiniteSets

CONSTANTS Quotations, Codes,
          Offers,   \* what a quotation may say
          Complete, \* those with a client and a priced line
          Requests, None

\* draft when it is made; won by win alone, the others by setStatus.
Statuses  == {"draft", "sent", "lost", "expired", "cancelled", "won"}
Quotation == [status : Statuses, offer : Offers, won : Codes \cup {None}]
Project   == [from : Quotations, boq : Offers]

Operations == {"update", "status", "win"}

Assumptions ==
    /\ Complete \subseteq Offers
    /\ None \notin Offers \cup Codes \cup Operations \cup Quotation \cup Project

VARIABLES quotation, \* quotation[q]: None or the quotation
          project,   \* project[c]: None or the project with code c
          overtaken, \* quotations whose winning read what another request changed before
                     \* it wrote, or the other way round (a history variable)
          req        \* req[r]: what request r is doing

rows == <<quotation, project, overtaken>>
vars == <<rows, req>>

WonFrom(q) == {c \in Codes : project[c] # None /\ project[c].from = q}

-------------------------------------------------------------------------------
(* Requests                                                                *)

\* seen: the offer it has read; late: the quotation has changed since (history).
Idle == [op |-> None, quotation |-> None, to |-> None, seen |-> None, late |-> FALSE]

Begin(r, op, q, to, seen) ==
    /\ req[r] = Idle
    /\ req' = [req EXCEPT ![r] = [op |-> op, quotation |-> q, to |-> to, seen |-> seen,
                                  late |-> FALSE]]

\* r writes row to the quotation that it has read before; the quotation is overtaken
\* when a change in between has won it, or r wins it.
Write(r, row) ==
    LET q == req[r].quotation IN
    /\ quotation' = [quotation EXCEPT ![q] = row]
    /\ overtaken' = IF req[r].late /\ "won" \in {quotation[q].status, row.status}
                    THEN overtaken \cup {q} ELSE overtaken
    /\ req' = [s \in Requests |-> IF s = r THEN Idle
                                  ELSE [req[s] EXCEPT !.late = @ \/ req[s].quotation = q]]

-------------------------------------------------------------------------------
(* The operations                                                          *)

Create(q, offer) ==
    /\ quotation[q] = None
    /\ quotation' = [quotation EXCEPT ![q] = [status |-> "draft", offer |-> offer, won |-> None]]
    /\ UNCHANGED <<project, overtaken, req>>

MutEditable(q) == quotation[q] # None /\ quotation[q].status # "cancelled"

\* Only a won quotation is locked.
Editable(q) == quotation[q] # None /\ quotation[q].status # "won"

\* update, setStatus and win read the quotation before they write it.
BeginUpdate(r, q, offer) ==
    /\ Editable(q)
    /\ Begin(r, "update", q, offer, None)
    /\ UNCHANGED rows

CommitUpdate(r) ==
    /\ req[r].op = "update"
    /\ Write(r, [quotation[req[r].quotation] EXCEPT !.offer = req[r].to])
    /\ UNCHANGED project

BeginSetStatus(r, q, status) ==
    /\ Editable(q)
    /\ Begin(r, "status", q, status, None)
    /\ UNCHANGED rows

CommitSetStatus(r) ==
    /\ req[r].op = "status"
    /\ Write(r, [quotation[req[r].quotation] EXCEPT !.status = req[r].to])
    /\ UNCHANGED project

\* win wants a client and a priced line.
BeginWin(r, q, code) ==
    /\ Editable(q)
    /\ quotation[q].status # "cancelled"
    /\ quotation[q].offer \in Complete
    /\ Begin(r, "win", q, code, quotation[q].offer)
    /\ UNCHANGED rows

\* The project is made of what win has read, unless its code is taken.
CommitWin(r) ==
    LET q == req[r].quotation
        c == req[r].to IN
    /\ req[r].op = "win"
    /\ IF project[c] = None
       THEN /\ project' = [project EXCEPT ![c] = [from |-> q, boq |-> req[r].seen]]
            /\ Write(r, [quotation[q] EXCEPT !.status = "won", !.won = c])
       ELSE /\ req' = [req EXCEPT ![r] = Idle]
            /\ UNCHANGED rows

-------------------------------------------------------------------------------
(* The specification                                                       *)

InitQuotations ==
    /\ quotation = [q \in Quotations |-> None]
    /\ project = [c \in Codes |-> None]
    /\ overtaken = {}

Init == InitQuotations /\ req = [r \in Requests |-> Idle]

Next ==
    \/ \E q \in Quotations, offer \in Offers : Create(q, offer)
    \/ \E r \in Requests, q \in Quotations, offer \in Offers : BeginUpdate(r, q, offer)
    \/ \E r \in Requests, q \in Quotations, status \in Statuses \ {"draft", "won"} :
          BeginSetStatus(r, q, status)
    \/ \E r \in Requests, q \in Quotations, code \in Codes : BeginWin(r, q, code)
    \/ \E r \in Requests : CommitUpdate(r) \/ CommitSetStatus(r) \/ CommitWin(r)

Spec == Init /\ [][Next]_vars

-------------------------------------------------------------------------------
(* Properties                                                              *)

\* Winning a quotation makes one project, with the quotation's lines, and locks it: a
\* quotation is won when there is a project from it, which is the one it names and has
\* its lines, unless requests on it overtook each other as it was won.
WonIsOneProject ==
    \A q \in Quotations \ overtaken : quotation[q] # None =>
        /\ WonFrom(q) = IF quotation[q].status = "won" THEN {quotation[q].won} ELSE {}
        /\ \A c \in WonFrom(q) : project[c].boq = quotation[q].offer

================================================================================
