------------------------------ MODULE Recruitment ------------------------------
(***************************************************************************)
(* The EB-3 cases of a recruitment agency (investors/eb3.service.ts): job  *)
(* orders with positions to fill, cases opened for candidates against      *)
(* them, and the stages a case goes through.                               *)
(*                                                                         *)
(* A stage is its index in EB3_STAGES, of which only the last two are told *)
(* apart.  A read that a later step depends on is an action of its own; a  *)
(* write is one with the rest of its transaction.  Candidates' own status, *)
(* checklists, notes and fees are left out.                                *)
(*                                                                         *)
(* An operator Mut... is a defective variant of the definition after it,   *)
(* which a run must tell from the real one; no other definition uses it.   *)
(***************************************************************************)
EXTENDS Naturals, FiniteSets

CONSTANTS Jobs, Candidates, Cases,
          MaxPositions,  \* bounds the positions of a job order
          Stages,        \* the stages that requests record
          Denied, Departed,
          JobEdits,      \* what an update of a job order may give
          CaseEdits,     \* what updateCase may set a status to
          Requests, None

Living      == {"active", "on_hold"}
JobStatuses == {"open", "filled", "on_hold", "closed"}

JobOrder == [positions : Nat, filled : Nat, status : JobStatuses]
JobEdit  == [positions : Nat \cup {None}, status : JobStatuses \cup {None}]
Case     == [candidate : Candidates, job : Jobs \cup {None},
             status : {"active", "denied", "closed"} \cup CaseEdits, stage : Nat, furthest : Nat]

Operations == {"job", "open", "advance"}

Assumptions ==
    /\ IsFiniteSet(Cases)
    /\ MaxPositions \in Nat /\ Stages \subseteq Nat /\ JobEdits \subseteq JobEdit
    /\ None \notin Jobs \cup Operations \cup JobOrder \cup Case \cup Nat

VARIABLES job,   \* job[j]: None or the job order
          case,  \* case[k]: None or the case, with the furthest stage of its events
                 \* and the job order it was opened for
          lost,  \* job orders written by a request that another had overtaken
                 \* (a history variable)
          loose, \* cases of a candidate that another request or an update gave a
                 \* second live one (a history variable)
          behind, \* cases whose stage an overtaken request has set back (a history
                 \* variable)
          req    \* req[r]: what request r is doing

rows == <<job, case, lost, loose, behind>>
vars == <<rows, req>>

Opened(j)  == {k \in Cases : case[k] # None /\ case[k].job = j}
LiveOf(c) == {k \in Cases : case[k] # None /\ case[k].candidate = c /\ case[k].status \in Living}

-------------------------------------------------------------------------------
(* Requests                                                                *)

\* seen: the row it has read; late: what of it has changed since (history).
Idle == [step |-> "idle", op |-> None, job |-> None, case |-> None, candidate |-> None,
         to |-> None, seen |-> None, late |-> {}]

Begin(r, asked) == req[r] = Idle /\ req' = [req EXCEPT ![r] = asked]

At(r, op, step) == req[r].op = op /\ req[r].step = step
End(r) == req' = [req EXCEPT ![r] = Idle]

\* What q has read and will write by.
Read(q) ==
    CASE At(q, "job", "commit") -> {<<"job", req[q].job>>}
      [] At(q, "open", "job") -> {<<"candidate", req[q].candidate>>}
      [] At(q, "open", "commit") -> {<<"candidate", req[q].candidate>>, <<"job", req[q].job>>}
      [] At(q, "advance", "commit") -> {<<"stage", req[q].case>>}
      [] OTHER -> {}

\* r ends after it has changed what others may have read.
EndChanging(r, changed) ==
    req' = [q \in Requests |-> IF q = r THEN Idle
                               ELSE [req[q] EXCEPT !.late = @ \cup (Read(q) \cap changed)]]
Late(r, what) == what \in req[r].late

-------------------------------------------------------------------------------
(* Job orders                                                              *)

CreateJob(j, n, status) ==
    /\ job[j] = None
    /\ job' = [job EXCEPT ![j] = [positions |-> n, filled |-> 0, status |-> status]]
    /\ UNCHANGED <<case, lost, loose, behind, req>>

\* updateJobOrder compares new positions with what is filled ...
BeginUpdateJob(r, j, edit) ==
    /\ job[j] # None
    /\ edit.positions # None => edit.positions >= job[j].filled
    /\ Begin(r, [Idle EXCEPT !.op = "job", !.step = "commit", !.job = j, !.to = edit])
    /\ UNCHANGED rows

\* ... and writes what was given.
CommitUpdateJob(r) ==
    LET j == req[r].job
        edit == req[r].to IN
    /\ At(r, "job", "commit")
    /\ job' = [job EXCEPT ![j].positions = IF edit.positions = None THEN @ ELSE edit.positions,
                          ![j].status = IF edit.status = None THEN @ ELSE edit.status]
    /\ lost' = IF Late(r, <<"job", j>>) THEN lost \cup {j} ELSE lost
    /\ EndChanging(r, {<<"job", j>>})
    /\ UNCHANGED <<case, loose, behind>>

-------------------------------------------------------------------------------
(* Cases                                                                   *)

MutFree(c) == \A k \in Cases : case[k] # None /\ case[k].candidate = c => case[k].status # "active"

\* The candidate has no live case.
Free(c) == LiveOf(c) = {}

\* createCase looks for a live case of the candidate, ...
BeginCase(r, c, j) ==
    /\ Free(c)
    /\ j # None => job[j] # None
    /\ Begin(r, [Idle EXCEPT !.op = "open", !.candidate = c, !.job = j,
                             !.step = IF j = None THEN "commit" ELSE "job"])
    /\ UNCHANGED rows

\* ... reads the job order ...
ReadJob(r) ==
    LET row == job[req[r].job] IN
    /\ At(r, "open", "job")
    /\ IF row.status = "open" /\ row.filled < row.positions
       THEN req' = [req EXCEPT ![r].step = "commit", ![r].seen = row]
       ELSE End(r)
    /\ UNCHANGED rows

\* What it writes to the job order.
FilledBy(seen) ==
    [filled |-> seen.filled + 1,
     status |-> IF seen.filled + 1 >= seen.positions THEN "filled" ELSE seen.status]

\* ... and writes both.
CommitCase(r, k) ==
    LET c == req[r].candidate
        j == req[r].job IN
    /\ At(r, "open", "commit")
    /\ case[k] = None
    /\ job' = IF j = None THEN job
              ELSE [job EXCEPT ![j].filled = FilledBy(req[r].seen).filled,
                               ![j].status = FilledBy(req[r].seen).status]
    /\ case' = [case EXCEPT ![k] = [candidate |-> c, job |-> j, status |-> "active",
                                    stage |-> 0, furthest |-> 0]]
    /\ lost' = IF Late(r, <<"job", j>>) THEN lost \cup {j} ELSE lost
    /\ loose' = IF Late(r, <<"candidate", c>>) THEN loose \cup {k} ELSE loose
    /\ EndChanging(r, {<<"candidate", c>>} \cup (IF j = None THEN {} ELSE {<<"job", j>>}))
    /\ UNCHANGED behind

\* updateCase writes what was given, whatever the case is.  It may name another job
\* order, which changes no count.
UpdateCase(k, c, status) ==
    /\ case[k] # None
    /\ case' = [case EXCEPT ![k].candidate = c, ![k].status = status]
    /\ case' # case
    /\ loose' = IF status \in Living /\ k \notin LiveOf(c) THEN loose \cup {k} ELSE loose
    /\ UNCHANGED <<job, lost, behind, req>>

-------------------------------------------------------------------------------
(* Stages                                                                  *)

MutForward(stage, seen) == stage # seen

Forward(stage, seen) == stage > seen

\* advance reads the case ...
BeginAdvance(r, k, stage) ==
    /\ case[k] # None
    /\ case[k].status \notin {"closed", "withdrawn"}
    /\ Begin(r, [Idle EXCEPT !.op = "advance", !.step = "commit", !.case = k, !.to = stage,
                             !.seen = case[k].stage])
    /\ UNCHANGED rows

\* ... and records the stage, which closes the case or not.
CommitAdvance(r) ==
    LET k     == req[r].case
        stage == req[r].to
        after == [case[k] EXCEPT
                     !.stage = IF Forward(stage, req[r].seen) THEN stage ELSE @,
                     !.furthest = IF stage > @ THEN stage ELSE @,
                     !.status = CASE stage = Denied -> "denied" [] stage = Departed -> "closed"
                                  [] OTHER -> @] IN
    /\ At(r, "advance", "commit")
    /\ case' = [case EXCEPT ![k] = after]
    /\ behind' = IF after.stage = after.furthest THEN behind \ {k}
                 ELSE IF Late(r, <<"stage", k>>) THEN behind \cup {k} ELSE behind
    /\ EndChanging(r, IF after.stage = case[k].stage THEN {} ELSE {<<"stage", k>>})
    /\ UNCHANGED <<job, lost, loose>>

-------------------------------------------------------------------------------
(* The specification                                                       *)

InitRecruitment ==
    /\ job = [j \in Jobs |-> None]
    /\ case = [k \in Cases |-> None]
    /\ lost = {}
    /\ loose = {}
    /\ behind = {}

Init == InitRecruitment /\ req = [r \in Requests |-> Idle]

Order ==
    \/ \E j \in Jobs, n \in 1 .. MaxPositions : CreateJob(j, n, "open")
    \/ \E r \in Requests, j \in Jobs, edit \in JobEdits : BeginUpdateJob(r, j, edit)
    \/ \E r \in Requests : CommitUpdateJob(r)

Open ==
    \/ \E r \in Requests, c \in Candidates, j \in Jobs \cup {None} : BeginCase(r, c, j)
    \/ \E r \in Requests : ReadJob(r)
    \/ \E r \in Requests, k \in Cases : CommitCase(r, k)

Advance ==
    \/ \E r \in Requests, k \in Cases, stage \in Stages : BeginAdvance(r, k, stage)
    \/ \E r \in Requests : CommitAdvance(r)

Update(edits) == \E k \in Cases, c \in Candidates, status \in edits : UpdateCase(k, c, status)

Next == Order \/ Open \/ Advance \/ Update(CaseEdits)

Spec == Init /\ [][Next]_vars

-------------------------------------------------------------------------------
(* Properties                                                              *)

\* Vacancies stay honest: a job order counts as filled the cases that were opened for
\* it, never more than its positions, unless a request wrote it whose read another had
\* overtaken; and a candidate has one live case, but for those opened by such a request
\* or brought back by an update.
VacanciesHonest ==
    /\ \A j \in Jobs \ lost : job[j] # None =>
          /\ job[j].filled = Cardinality(Opened(j))
          /\ job[j].filled <= job[j].positions
    /\ \A c \in Candidates : Cardinality(LiveOf(c) \ loose) <= 1

\* The stage of a case is the furthest its events have reached, unless a request whose
\* read another had overtaken has set it back.
StageIsFurthest ==
    \A k \in Cases \ behind : case[k] # None => case[k].stage = case[k].furthest

================================================================================
