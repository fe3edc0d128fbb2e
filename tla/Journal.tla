-------------------------------- MODULE Journal --------------------------------
(***************************************************************************)
(* The general ledger: journal entries and their numbers, the period locks *)
(* and the account flags that guard them (ledger/posting.service.ts,       *)
(* finance/accounts.service.ts), and the bank statement lines matched to   *)
(* ledger lines (finance/bank.service.ts).                                 *)
(*                                                                         *)
(* A line is an account and a net amount, positive when it is a debit; a   *)
(* body is a sequence of lines.  The checks of a posting are plain reads,  *)
(* each at a moment of its own, and nothing keeps what they saw from       *)
(* changing before the commit.  The only locks are the journal's sequence  *)
(* row, the row of a draft being posted and the row an update or a delete  *)
(* writes.                                                                 *)
(*                                                                         *)
(* An operator Mut... is a defective variant of the definition after it,   *)
(* which a run must tell from the real one; no other definition uses it.   *)
(***************************************************************************)
EXTENDS Integers, FiniteSets, Sequences, SequencesExt, Sums

CONSTANTS Accounts,
          BankAccount,  \* the ledger account of the bank account
          Periods,      \* fiscal periods, each standing for the dates in it
          Bodies,       \* the bodies a manual entry may carry
          MaxNo,        \* bound: how many journal numbers are given out
          Statement,    \* bank statement lines
          Amount,       \* Amount[s]: what statement line s says
          Requests,
          None          \* no value

ASSUME LinesAssumption ==
    /\ BankAccount \in Accounts
    /\ Bodies \subseteq Seq([account : Accounts, amount : Int])
    /\ MaxNo \in Nat
    /\ Amount \in [Statement -> Int] /\ IsFiniteSet(Statement)

VARIABLES entry,      \* entry[n]: the journal entry with number n
          nextNo,     \* number_sequences.next_value of the journal
          locked,     \* the periods with isLocked
          acct,       \* acct[a]: the flags of an account
          matched,    \* matched[s]: the ledger line statement line s is matched to
          req,        \* req[r]: what request r is doing
          locks,      \* row locks held by open transactions
          overtaken   \* mirrors, deleted entries and statement lines written after
                      \* what their request had read changed (a history variable)

vars == <<entry, nextNo, locked, acct, matched, req, locks, overtaken>>

Numbers == 1..MaxNo

JournalSequence == 0                       \* the sequence row of the journal

L == INSTANCE RowLocks WITH Rows <- Numbers \cup {JournalSequence}

-------------------------------------------------------------------------------
(* Entries                                                                 *)

Booked == {"posted", "reversed"}           \* what every balance counts
Kept   == {"draft"} \cup Booked            \* rows that exist

Negated(body) == [i \in DOMAIN body |-> [body[i] EXCEPT !.amount = -@]]
AllBodies     == Bodies \cup {Negated(b) : b \in Bodies}

\* "deleted" is a row that is gone and whose number was used.
Entry == [status : {"none", "deleted"} \cup Kept, body : AllBodies \cup {<<>>},
          period : Periods \cup {None}, mirrorOf : Numbers \cup {0}]

NoEntry == [status |-> "none", body |-> <<>>, period |-> None, mirrorOf |-> 0]

Total(body) == SumOver([i \in DOMAIN body |-> body[i].amount])

MutNormalizes(body) == Len(SelectSeq(body, LAMBDA line : line.amount # 0)) >= 2

\* normalizeLines accepts the body: two lines that are not zero, and balance.
Normalizes(body) ==
    /\ Len(SelectSeq(body, LAMBDA line : line.amount # 0)) >= 2
    /\ Total(body) = 0

AccountsOf(body) == {body[i].account : i \in DOMAIN body}

\* resolveAccounts accepts the accounts of the body.
Postable(body) == \A a \in AccountsOf(body) : ~acct[a].isGroup /\ acct[a].isActive

\* The account has journal lines, those of drafts included.
HasLines(a) == \E n \in Numbers : entry[n].status \in Kept /\ a \in AccountsOf(entry[n].body)

Mirrors(n) == {m \in Numbers : entry[m].mirrorOf = n}

-------------------------------------------------------------------------------
(* Requests                                                                *)

Operations == {"post", "draft", "postDraft", "delete", "reverse", "group", "match"}
ASSUME NoneAssumption == None \notin Operations /\ None \notin Numbers \X Nat
Steps == {"idle", "entry", "period", "accounts", "number", "commit"}

\* on: the entry, the account or the statement line the request is about;
\* row: the entry it inserts; line: the ledger line to match.  Three fields are
\* history: was, the status it read of the entry; rivals, the statement lines
\* it saw matched to the line; late, a check it has passed would fail by now.
Request == [step : Steps, op : Operations \cup {None},
            on : Numbers \cup Accounts \cup Statement \cup {None},
            row : Entry \cup {None}, was : {"none"} \cup Kept,
            line : (Numbers \X Nat) \cup {None}, rivals : SUBSET Statement, late : BOOLEAN]

Idle == [step |-> "idle", op |-> None, on |-> None, row |-> None, was |-> "none",
         line |-> None, rivals |-> {}, late |-> FALSE]

Begin(r, asked) ==
    /\ req[r] = Idle
    /\ req' = [req EXCEPT ![r] = asked]
    /\ UNCHANGED <<entry, nextNo, locked, acct, matched, locks, overtaken>>

At(r, op, step) == req[r].op = op /\ req[r].step = step
Goto(r, step) == req' = [req EXCEPT ![r].step = step]

Overtaken(passed) == [q \in Requests |-> [req[q] EXCEPT !.late = @ \/ q \in passed]]

Commit(r, on, fresh) ==
    /\ overtaken' = IF fresh THEN overtaken ELSE overtaken \cup {on}
    /\ req' = [req EXCEPT ![r] = Idle]
    /\ L!EndTransaction(r)

Rollback(r) ==
    /\ req' = [req EXCEPT ![r] = Idle]
    /\ L!EndTransaction(r)
    /\ UNCHANGED <<entry, nextNo, locked, acct, matched, overtaken>>

NewEntry(status, body, period, mirrorOf) ==
    [status |-> status, body |-> body, period |-> period, mirrorOf |-> mirrorOf]

-------------------------------------------------------------------------------
(* Posting, drafts and reversals                                           *)

\* JournalService.create(dto, true), and every module that posts.
BeginPost(r, body, p) ==
    /\ Normalizes(body)
    /\ Begin(r, [Idle EXCEPT !.op = "post", !.step = "period", !.row = NewEntry("posted", body, p, 0)])

\* JournalService.create(dto, false): the body is not checked, but the table
\* refuses a line of zero.
BeginDraft(r, body, p) ==
    /\ \A i \in DOMAIN body : body[i].amount # 0
    /\ Begin(r, [Idle EXCEPT !.op = "draft", !.step = "number", !.row = NewEntry("draft", body, p, 0)])

BeginPostDraft(r, n) ==
    /\ entry[n].status \in Kept
    /\ Begin(r, [Idle EXCEPT !.op = "postDraft", !.step = "entry", !.on = n])

MutBeginDelete(r, n) ==
    /\ entry[n].status \in Kept
    /\ Begin(r, [Idle EXCEPT !.op = "delete", !.step = "commit", !.on = n, !.was = entry[n].status])

BeginDelete(r, n) ==
    /\ entry[n].status = "draft"
    /\ Begin(r, [Idle EXCEPT !.op = "delete", !.step = "commit", !.on = n, !.was = entry[n].status])

\* The mirror is dated p, not the day of the original.
BeginReverse(r, n, p) ==
    /\ entry[n].status \in Kept
    /\ Begin(r, [Idle EXCEPT !.op = "reverse", !.step = "entry", !.on = n,
                             !.row = NewEntry("posted", <<>>, p, n)])

\* postDraft's SELECT ... FOR UPDATE.
LockDraft(r) ==
    LET n == req[r].on IN
    /\ At(r, "postDraft", "entry")
    /\ entry[n].status = "draft"
    /\ Normalizes(entry[n].body)
    /\ L!Lock(r, n)
    /\ req' = [req EXCEPT ![r].step = "period", ![r].row = [entry[n] EXCEPT !.status = "posted"]]
    /\ UNCHANGED <<entry, nextNo, locked, acct, matched, overtaken>>

\* posting.reverse reads the entry and its lines without a lock.
ReadOriginal(r) ==
    LET n == req[r].on IN
    /\ At(r, "reverse", "entry")
    /\ entry[n].status = "posted"
    /\ req' = [req EXCEPT ![r].step = "period", ![r].was = entry[n].status,
                          ![r].row.body = Negated(entry[n].body)]
    /\ UNCHANGED <<entry, nextNo, locked, acct, matched, locks, overtaken>>

MutCheckPeriod(r) ==
    /\ req[r].step = "period"
    /\ Goto(r, "accounts")
    /\ UNCHANGED <<entry, nextNo, locked, acct, matched, locks, overtaken>>

\* assertOpenPeriod.
CheckPeriod(r) ==
    /\ req[r].step = "period"
    /\ req[r].row.period \notin locked
    /\ Goto(r, "accounts")
    /\ UNCHANGED <<entry, nextNo, locked, acct, matched, locks, overtaken>>

CheckAccounts(r) ==
    /\ req[r].step = "accounts"
    /\ Postable(req[r].row.body)
    /\ Goto(r, IF req[r].op = "postDraft" THEN "commit" ELSE "number")
    /\ UNCHANGED <<entry, nextNo, locked, acct, matched, locks, overtaken>>

MutTakeNumber(r) ==
    /\ req[r].step = "number"
    /\ nextNo <= MaxNo
    /\ nextNo' = nextNo + 1
    /\ L!Lock(r, JournalSequence)
    /\ Goto(r, "commit")
    /\ UNCHANGED <<entry, locked, acct, matched, overtaken>>

\* numbering.next: the sequence row stays locked until the commit.
TakeNumber(r) ==
    /\ req[r].step = "number"
    /\ nextNo <= MaxNo
    /\ L!Lock(r, JournalSequence)
    /\ Goto(r, "commit")
    /\ UNCHANGED <<entry, nextNo, locked, acct, matched, overtaken>>

CommitNew(r) ==
    LET row == req[r].row IN
    /\ req[r].op \in {"post", "draft"} /\ req[r].step = "commit"
    /\ entry' = [entry EXCEPT ![nextNo] = row]
    /\ nextNo' = nextNo + 1
    /\ Commit(r, nextNo, TRUE)
    /\ UNCHANGED <<locked, acct, matched>>

CommitPostDraft(r) ==
    LET n == req[r].on IN
    /\ At(r, "postDraft", "commit")
    /\ entry' = [entry EXCEPT ![n].status = "posted"]
    /\ Commit(r, n, TRUE)
    /\ UNCHANGED <<nextNo, locked, acct, matched>>

\* UPDATE ... SET status = 'reversed' on a row that may be gone.
Marked(n) == IF entry[n].status \in Kept THEN [entry[n] EXCEPT !.status = "reversed"] ELSE entry[n]

\* The mirror is inserted, then the original is marked, whatever it is now.
CommitReverse(r) ==
    LET n == req[r].on  row == req[r].row IN
    /\ At(r, "reverse", "commit")
    /\ L!Available(r, n)
    /\ entry' = [entry EXCEPT ![nextNo] = row, ![n] = Marked(n)]
    /\ nextNo' = nextNo + 1
    /\ Commit(r, nextNo, entry[n].status = req[r].was)
    /\ UNCHANGED <<locked, acct, matched>>

\* A line that a statement line is matched to cannot go.
Referenced(n) == \E s \in Statement : matched[s] # None /\ matched[s][1] = n

CommitDelete(r) ==
    LET n == req[r].on IN
    /\ At(r, "delete", "commit")
    /\ L!Available(r, n)
    /\ ~Referenced(n)
    /\ entry' = [entry EXCEPT ![n].status = "deleted"]
    /\ Commit(r, n, entry[n].status = req[r].was)
    /\ UNCHANGED <<nextNo, locked, acct, matched>>

-------------------------------------------------------------------------------
(* Period locks and account flags                                          *)

\* The requests that will book an entry and have found its period open, its
\* accounts usable.
Past(steps)    == {r \in Requests : req[r].op \in {"post", "postDraft", "reverse"} /\ req[r].step \in steps}
PastPeriod(p)  == {r \in Past({"accounts", "number", "commit"}) : req[r].row.period = p}
PastAccount(a) == {r \in Past({"number", "commit"}) : a \in AccountsOf(req[r].row.body)}

\* AccountsService.setPeriodLock.
SetPeriodLock(p) ==
    /\ \/ /\ p \in locked
          /\ locked' = locked \ {p}
          /\ UNCHANGED req
       \/ /\ p \notin locked
          /\ locked' = locked \cup {p}
          /\ req' = Overtaken(PastPeriod(p))
    /\ UNCHANGED <<entry, nextNo, acct, matched, locks, overtaken>>

\* AccountsService.update counts the lines of an account that becomes a group ...
BeginGroup(r, a) ==
    /\ ~acct[a].isGroup
    /\ ~HasLines(a)
    /\ Begin(r, [Idle EXCEPT !.op = "group", !.step = "commit", !.on = a])

\* ... and updates it in a statement of its own.
CommitGroup(r) ==
    LET a == req[r].on IN
    /\ At(r, "group", "commit")
    /\ acct' = [acct EXCEPT ![a].isGroup = TRUE]
    /\ req' = [Overtaken(PastAccount(a)) EXCEPT ![r] = Idle]
    /\ UNCHANGED <<entry, nextNo, locked, matched, locks, overtaken>>

\* Every other change of the flags is one unchecked statement.
SetAccount(a) ==
    /\ \/ /\ acct[a].isActive
          /\ acct' = [acct EXCEPT ![a].isActive = FALSE]
          /\ req' = Overtaken(PastAccount(a))
       \/ /\ ~acct[a].isActive
          /\ acct' = [acct EXCEPT ![a].isActive = TRUE]
          /\ UNCHANGED req
       \/ /\ acct[a].isGroup
          /\ acct' = [acct EXCEPT ![a].isGroup = FALSE]
          /\ UNCHANGED req
    /\ UNCHANGED <<entry, nextNo, locked, matched, locks, overtaken>>

-------------------------------------------------------------------------------
(* Matching the bank statement                                             *)

\* The entry's status is not looked at, so the line may be a draft's.
Matchable(s, n, i) ==
    /\ entry[n].status \in Kept
    /\ i \in DOMAIN entry[n].body
    /\ entry[n].body[i] = [account |-> BankAccount, amount |-> Amount[s]]

Claimants(line) == {s \in Statement : matched[s] = line}

ReadToMatch(r, s, n, i) ==
    /\ matched[s] = None
    /\ Matchable(s, n, i)
    /\ Begin(r, [Idle EXCEPT !.op = "match", !.step = "commit", !.on = s, !.line = <<n, i>>,
                             !.rivals = Claimants(<<n, i>>)])

MutBeginMatch(r, s, n, i) == ReadToMatch(r, s, n, i)

BeginMatch(r, s, n, i) ==
    /\ Claimants(<<n, i>>) = {}
    /\ ReadToMatch(r, s, n, i)

\* UPDATE ... WHERE reconciled_at IS NULL: a line reconciled meanwhile stays.
CommitMatch(r) ==
    LET s == req[r].on  line == req[r].line IN
    /\ At(r, "match", "commit")
    /\ entry[line[1]].status \in Kept
    /\ IF matched[s] = None
       THEN /\ matched' = [matched EXCEPT ![s] = line]
            /\ Commit(r, s, Claimants(line) = req[r].rivals)
       ELSE UNCHANGED matched /\ Commit(r, s, TRUE)
    /\ UNCHANGED <<entry, nextNo, locked, acct>>

-------------------------------------------------------------------------------
(* Requests that end without a commit                                      *)

\* A check inside the request refuses what it reads.
Refuse(r) ==
    /\ \/ At(r, "postDraft", "entry") /\ L!Available(r, req[r].on)
          /\ ~(entry[req[r].on].status = "draft" /\ Normalizes(entry[req[r].on].body))
       \/ At(r, "reverse", "entry") /\ entry[req[r].on].status # "posted"
       \/ req[r].step = "period" /\ req[r].row.period \in locked
       \/ req[r].step = "accounts" /\ ~Postable(req[r].row.body)
       \/ At(r, "delete", "commit") /\ Referenced(req[r].on)
       \/ At(r, "match", "commit") /\ entry[req[r].line[1]].status \notin Kept
    /\ Rollback(r)

\* A lost connection, a crash, a deadlock's victim.
Fail(r) == req[r] # Idle /\ Rollback(r)

-------------------------------------------------------------------------------
(* The specification                                                       *)

Init ==
    /\ entry = [n \in Numbers |-> NoEntry]
    /\ nextNo = 1
    /\ locked = {}
    /\ acct = [a \in Accounts |-> [isGroup |-> FALSE, isActive |-> TRUE]]
    /\ matched = [s \in Statement |-> None]
    /\ req = [r \in Requests |-> Idle]
    /\ L!NoLocks
    /\ overtaken = {}

Start(r) ==
    \/ \E body \in Bodies, p \in Periods : BeginPost(r, body, p) \/ BeginDraft(r, body, p)
    \/ \E n \in Numbers : BeginPostDraft(r, n) \/ BeginDelete(r, n)
    \/ \E n \in Numbers, p \in Periods : BeginReverse(r, n, p)
    \/ \E a \in Accounts : BeginGroup(r, a)
    \/ \E s \in Statement, n \in Numbers : \E i \in DOMAIN entry[n].body : BeginMatch(r, s, n, i)

Proceed(r) ==
    \/ LockDraft(r) \/ ReadOriginal(r) \/ CheckPeriod(r) \/ CheckAccounts(r) \/ TakeNumber(r)
    \/ CommitNew(r) \/ CommitPostDraft(r) \/ CommitReverse(r) \/ CommitDelete(r)
    \/ CommitGroup(r) \/ CommitMatch(r)
    \/ Refuse(r)

Next ==
    \/ \E r \in Requests : Start(r) \/ Proceed(r) \/ Fail(r)
    \/ \E p \in Periods : SetPeriodLock(p)
    \/ \E a \in Accounts : SetAccount(a)

Spec == Init /\ [][Next]_vars

-------------------------------------------------------------------------------
(* Properties                                                              *)

\* Every variable holds rows of its table.
TypeOK ==
    /\ entry \in [Numbers -> Entry]
    /\ nextNo \in 1..MaxNo + 1
    /\ locked \subseteq Periods
    /\ acct \in [Accounts -> [isGroup : BOOLEAN, isActive : BOOLEAN]]
    /\ matched \in [Statement -> (Numbers \X Nat) \cup {None}]
    /\ req \in [Requests -> Request]
    /\ L!LocksTypeOK

\* Numbers are given out in the order of the commits and without a gap: a
\* rolled back request gives its number back, a deleted draft keeps it.
NumbersGapFree == \A n \in Numbers : entry[n].status # "none" <=> n < nextNo

\* The trial balance balances: what is booked on all the accounts is zero, at
\* every moment.  A mirror negates an entry that is marked reversed, and an
\* entry marked so has a mirror; only one whose request read the original
\* before another one reversed or deleted it may be a second.
TrialBalance ==
    \A n \in Numbers :
        /\ entry[n].status \in Booked => Total(entry[n].body) = 0
        /\ entry[n].status = "reversed" <=> Mirrors(n) # {} /\ entry[n].status # "deleted"
        /\ \A m \in Mirrors(n) : entry[m].body = Negated(entry[n].body)
        /\ Cardinality(Mirrors(n) \ overtaken) <= 1

\* BankService.summary: the booked lines of the bank's account, ...
BankLines ==
    UNION {{n} \X {i \in DOMAIN entry[n].body : entry[n].body[i].account = BankAccount} :
              n \in {n \in Numbers : entry[n].status \in Booked}}

BookBalance(lines) == SumOver([l \in lines |-> entry[l[1]].body[l[2]].amount])

\* ... less those the bank has not shown yet, and what it has shown.
ExpectedStatementBalance ==
    BookBalance(BankLines) - BookBalance(BankLines \ {matched[s] : s \in Statement})

Reconciled == SumOver([s \in Statement |-> IF matched[s] # None THEN Amount[s] ELSE 0])

\* No two statement lines claim the same ledger line, unless both requests
\* looked before either was written: what is reconciled is counted once.  A
\* matched line never goes or changes: it is a ledger line of the statement
\* line's amount, on the bank's account.  So the reconciliation comes out even
\* once what is matched is booked: a draft may be matched too.
MatchedOnce ==
    /\ \A s, q \in Statement \ overtaken :
          s # q /\ matched[s] # None => matched[s] # matched[q]
    /\ \A s \in Statement :
          matched[s] # None => Matchable(s, matched[s][1], matched[s][2])
    /\ Statement \cap overtaken = {} /\ (\A s \in Statement : matched[s] \in BankLines \cup {None}) =>
          ExpectedStatementBalance = Reconciled

\* A booked entry is never changed, except that it is marked reversed, and
\* never deleted, unless the delete read it as a draft.
BookedIsForever ==
    [][\A n \in Numbers \ overtaken' :
          entry[n].status \in Booked =>
              /\ entry'[n].status \in {entry[n].status, "reversed"}
              /\ [entry'[n] EXCEPT !.status = "posted"] = [entry[n] EXCEPT !.status = "posted"]]_vars

\* Nothing is booked in a locked period or on a group or inactive account,
\* except by a request that was past that check when the lock or the flag
\* was set: whichever way an entry is booked, both checks are made.
OnlyOvertakenBook ==
    [][\A n \in Numbers :
          entry[n].status \notin Booked /\ entry'[n].status \in Booked =>
              \/ entry'[n].period \notin locked /\ Postable(entry'[n].body)
              \/ \E r \in Requests : req[r].late /\ req[r].step = "commit" /\ req'[r] = Idle]_vars

================================================================================
