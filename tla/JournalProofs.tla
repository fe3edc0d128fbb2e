----------------------------- MODULE JournalProofs -----------------------------
(***************************************************************************)
(* Proofs about Journal, for every set of accounts, periods, bodies,       *)
(* statement lines and requests and every number of entries.  The          *)
(* invariant says what a running request knows of the entry it is about:   *)
(* an entry that is there never loses its body, and the row of a draft     *)
(* being posted or the journal's sequence is nobody else's meanwhile.      *)
(***************************************************************************)
EXTENDS Journal, SumTheorems

Line == [account : Accounts, amount : Int]

Posts(r) == req[r].op \in {"post", "postDraft", "reverse"}

InsertsEntry(r) ==
    req[r].op \in {"post", "draft"} =>
        /\ req[r].row \in Entry /\ req[r].row.mirrorOf = 0
        /\ req[r].op = "post" => req[r].row.status = "posted" /\ Total(req[r].row.body) = 0
        /\ req[r].op = "draft" => req[r].row.status = "draft" /\ req[r].step \in {"number", "commit"}
        /\ req[r].step \in {"period", "accounts", "number", "commit"}

PostsDraft(r) ==
    req[r].op = "postDraft" =>
        /\ req[r].on \in Numbers
        /\ req[r].step \in {"entry", "period", "accounts", "commit"}
        /\ req[r].step # "entry" =>
              /\ req[r].on \in locks[r]
              /\ entry[req[r].on].status = "draft"
              /\ req[r].row = [entry[req[r].on] EXCEPT !.status = "posted"]
              /\ Total(entry[req[r].on].body) = 0

Deletes(r) ==
    req[r].op = "delete" =>
        /\ req[r].on \in Numbers /\ entry[req[r].on].status # "none"
        /\ req[r].was = "draft" /\ req[r].step = "commit"

Reverses(r) ==
    req[r].op = "reverse" =>
        /\ req[r].on \in Numbers /\ req[r].row \in Entry
        /\ req[r].row.status = "posted" /\ req[r].row.mirrorOf = req[r].on
        /\ req[r].step \in {"entry", "period", "accounts", "number", "commit"}
        /\ req[r].step # "entry" =>
              /\ req[r].was = "posted" /\ entry[req[r].on].status \notin {"none", "draft"}
              /\ req[r].row.body = Negated(entry[req[r].on].body)
              /\ Total(entry[req[r].on].body) = 0

\* Where the request stands that writes an account, or a match.
Settles(r) ==
    /\ req[r].op = "group" => req[r].on \in Accounts /\ req[r].step = "commit"
    /\ req[r].op = "match" =>
          /\ req[r].on \in Statement /\ req[r].step = "commit" /\ req[r].rivals = {}
          /\ req[r].line \in Numbers \X Nat
          /\ entry[req[r].line[1]].status # "none"
          /\ req[r].line[2] \in DOMAIN entry[req[r].line[1]].body
          /\ entry[req[r].line[1]].body[req[r].line[2]] =
                [account |-> BankAccount, amount |-> Amount[req[r].on]]

Rests(r) == req[r].op = None => req[r].step = "idle"

HasNumber(r) ==
    req[r].op \in {"post", "draft", "reverse"} /\ req[r].step = "commit" =>
        JournalSequence \in locks[r] /\ nextNo <= MaxNo

Does(r) ==
    /\ Rests(r)
    /\ InsertsEntry(r)
    /\ PostsDraft(r)
    /\ Deletes(r)
    /\ Reverses(r)
    /\ Settles(r)
    /\ HasNumber(r)

BookedBalance == \A n \in Numbers : entry[n].status \in Booked => Total(entry[n].body) = 0

IInv ==
    /\ TypeOK
    /\ L!LocksExclusive
    /\ \A r \in Requests : Does(r)
    /\ NumbersGapFree
    /\ BookedBalance

-------------------------------------------------------------------------------
(* Bodies                                                                  *)

\* A body is a sequence of lines, the mirror of one too.
LEMMA BodyShape ==
    ASSUME NEW body \in AllBodies \cup {<<>>}
    PROVE  /\ IsFiniteSet(DOMAIN body) /\ DOMAIN body \subseteq Nat
           /\ \A i \in DOMAIN body : body[i] \in Line
           /\ body = [i \in DOMAIN body |-> body[i]]
<1>1. ASSUME NEW b, b \in Bodies
      PROVE  /\ IsFiniteSet(DOMAIN b) /\ DOMAIN b \subseteq Nat
             /\ \A i \in DOMAIN b : b[i] \in Line
             /\ b = [i \in DOMAIN b |-> b[i]]
  <2>1. b \in Seq(Line)
    BY <1>1, LinesAssumption DEF Line
  <2>2. Len(b) \in Nat /\ DOMAIN b = 1..Len(b) /\ b = [i \in DOMAIN b |-> b[i]]
    BY <2>1
  <2>3. \A i \in DOMAIN b : b[i] \in Line
    BY <2>1
  <2>4. IsFiniteSet(1..Len(b))
    <3>1. PICK k \in Nat : k = Len(b)
      BY <2>2
    <3>2. IsFiniteSet(1..k)
      BY FS_Interval
    <3> QED BY <3>1, <3>2
  <2> QED
    BY <2>2, <2>3, <2>4
<1>2. CASE body \in Bodies
  BY <1>1, <1>2
<1>3. ASSUME NEW b \in Bodies, body = Negated(b)
      PROVE  /\ IsFiniteSet(DOMAIN body) /\ DOMAIN body \subseteq Nat
             /\ \A i \in DOMAIN body : body[i] \in Line
             /\ body = [i \in DOMAIN body |-> body[i]]
  <2>1. DOMAIN body = DOMAIN b /\ body = [i \in DOMAIN body |-> body[i]]
    BY <1>3 DEF Negated
  <2>2. ASSUME NEW i \in DOMAIN b PROVE body[i] \in Line
    <3>1. b[i] \in Line /\ body[i] = [b[i] EXCEPT !.amount = -@]
      BY <1>1, <1>3 DEF Negated
    <3> QED
      BY <3>1 DEF Line
  <2> QED
    BY <1>1, <2>1, <2>2
<1>4. CASE body = <<>>
  <2>1. DOMAIN body = {} /\ body = [i \in DOMAIN body |-> body[i]]
    BY <1>4
  <2> QED
    BY <2>1, FS_EmptySet
<1> QED
  BY <1>2, <1>3, <1>4 DEF AllBodies

\* The mirror of a body has its accounts, and sums up to the opposite.
LEMMA NegatedBody ==
    ASSUME NEW body \in AllBodies \cup {<<>>}
    PROVE  /\ Negated(body) \in AllBodies \cup {<<>>}
           /\ Total(body) \in Int
           /\ Total(Negated(body)) = 0 - Total(body)
<1>1. /\ IsFiniteSet(DOMAIN body) /\ DOMAIN body \subseteq Nat
      /\ \A i \in DOMAIN body : body[i] \in Line
      /\ body = [i \in DOMAIN body |-> body[i]]
  BY BodyShape
<1>2. /\ DOMAIN Negated(body) = DOMAIN body
      /\ \A i \in DOMAIN body : Negated(body)[i] = [body[i] EXCEPT !.amount = -@]
  BY DEF Negated
<1>3. Negated(body) \in AllBodies \cup {<<>>}
  <2>1. CASE body \in Bodies
    BY <2>1 DEF AllBodies
  <2>2. ASSUME NEW b \in Bodies, body = Negated(b) PROVE Negated(body) = b
    <3>1. b \in AllBodies \cup {<<>>}
      BY DEF AllBodies
    <3>2. /\ \A i \in DOMAIN b : b[i] \in Line
          /\ b = [i \in DOMAIN b |-> b[i]]
      BY <3>1, BodyShape
    <3>3. DOMAIN body = DOMAIN b /\ \A i \in DOMAIN b : body[i] = [b[i] EXCEPT !.amount = -@]
      BY <2>2 DEF Negated
    <3>4. ASSUME NEW i \in DOMAIN b PROVE [body[i] EXCEPT !.amount = -@] = b[i]
      <4>1. b[i] \in Line /\ body[i] = [b[i] EXCEPT !.amount = -@]
        BY <3>2, <3>3
      <4>2. - (- b[i].amount) = b[i].amount
        BY <4>1 DEF Line
      <4> QED
        BY <4>1, <4>2 DEF Line
    <3>5. Negated(body) = [i \in DOMAIN b |-> b[i]]
      BY <3>3, <3>4 DEF Negated
    <3> QED
      BY <3>2, <3>5
  <2>3. CASE body = <<>>
    <3>1. DOMAIN body = {}
      BY <2>3
    <3> QED
      BY <3>1 DEF Negated
  <2> QED
    BY <2>1, <2>2, <2>3 DEF AllBodies
<1>4. PICK f \in [DOMAIN body -> Int] : f = [i \in DOMAIN body |-> body[i].amount]
  BY <1>1 DEF Line
<1>5. PICK g \in [DOMAIN body -> Int] : g = [i \in DOMAIN Negated(body) |-> Negated(body)[i].amount]
  <2>1. \A i \in DOMAIN body : Negated(body)[i].amount \in Int
    BY <1>1, <1>2 DEF Line
  <2> QED BY <1>2, <2>1
<1>6. \A i \in DOMAIN body : g[i] = 0 - f[i]
  BY <1>1, <1>2, <1>4, <1>5 DEF Line
<1>7. SumOver(g) = 0 - SumOver(f) /\ SumOver(f) \in Int
  BY <1>1, <1>6, SumNegates, SumIsInt
<1> QED
  BY <1>3, <1>4, <1>5, <1>7 DEF Total

-------------------------------------------------------------------------------
(* The requests that take no part in a step                                *)

\* An entry that is there keeps its body, and never becomes a draft again.
EntriesStay ==
    \A n \in Numbers : entry[n].status # "none" =>
        /\ entry'[n].body = entry[n].body
        /\ entry'[n].status # "none"
        /\ entry[n].status # "draft" => entry'[n].status # "draft"

SameRequest(q) ==
    /\ req'[q].step = req[q].step /\ req'[q].op = req[q].op /\ req'[q].on = req[q].on
    /\ req'[q].row = req[q].row /\ req'[q].was = req[q].was
    /\ req'[q].line = req[q].line /\ req'[q].rivals = req[q].rivals

\* The step is not q's, and q's locks hold.
LeavesAlone(q) ==
    /\ SameRequest(q)
    /\ locks'[q] = locks[q]
    /\ req[q].op = "postDraft" /\ req[q].step # "entry" => entry'[req[q].on] = entry[req[q].on]
    /\ JournalSequence \in locks[q] => nextNo' = nextNo

\* A request that is left alone while entries stay goes on knowing what it knew.
LEMMA Bystander ==
    ASSUME NEW q \in Requests, Does(q), EntriesStay, LeavesAlone(q)
    PROVE  Does(q)'
<1>1. Rests(q)' /\ InsertsEntry(q)'
  BY DEF Does, Rests, InsertsEntry, LeavesAlone, SameRequest
<1>2. PostsDraft(q)'
  BY DEF Does, PostsDraft, LeavesAlone, SameRequest
<1>3. Deletes(q)'
  BY DEF Does, Deletes, LeavesAlone, SameRequest, EntriesStay
<1>4. Reverses(q)'
  <2>1. CASE req[q].op = "reverse" /\ req[q].step # "entry"
    <3>1. PICK n \in Numbers : n = req[q].on
      BY <2>1 DEF Does, Reverses
    <3>2. entry[n].status \notin {"none", "draft"} /\ req[q].row.body = Negated(entry[n].body)
          /\ Total(entry[n].body) = 0
      BY <2>1, <3>1 DEF Does, Reverses
    <3>3. entry'[n].status \notin {"none", "draft"} /\ entry'[n].body = entry[n].body
      BY <3>2 DEF EntriesStay
    <3>4. req[q].row.body = Negated(entry'[n].body) /\ Total(entry'[n].body) = 0
      BY <3>2, <3>3
    <3> QED
      BY <2>1, <3>1, <3>3, <3>4 DEF Does, Reverses, LeavesAlone, SameRequest
  <2>2. CASE ~(req[q].op = "reverse" /\ req[q].step # "entry")
    BY <2>2 DEF Does, Reverses, LeavesAlone, SameRequest
  <2> QED
    BY <2>1, <2>2
<1>5. Settles(q)'
  BY DEF Does, Settles, LeavesAlone, SameRequest, EntriesStay
<1>6. HasNumber(q)'
  BY DEF Does, HasNumber, LeavesAlone, SameRequest
<1> QED
  BY <1>1, <1>2, <1>3, <1>4, <1>5, <1>6 DEF Does

\* A step of r keeps the invariant once it keeps what is said of r.
LEMMA StepKeeps ==
    ASSUME IInv, NEW r \in Requests, TypeOK', L!LocksExclusive', EntriesStay,
           \A q \in Requests \ {r} : LeavesAlone(q), Does(r)', NumbersGapFree', BookedBalance'
    PROVE  IInv'
<1>1. \A q \in Requests \ {r} : Does(q)'
  BY Bystander DEF IInv
<1> QED
  BY <1>1 DEF IInv

\* A step of r that writes nothing to the tables.
LEMMA QuietStep ==
    ASSUME IInv, NEW r \in Requests, UNCHANGED <<entry, nextNo, locked, acct, matched>>,
           req' = [req EXCEPT ![r] = req'[r]], req'[r] \in Request, Does(r)',
           L!LocksTypeOK', L!LocksExclusive', \A q \in Requests \ {r} : locks'[q] = locks[q]
    PROVE  IInv'
<1>1. TypeOK'
  <2>1. req' \in [Requests -> Request]
    BY DEF IInv, TypeOK
  <2> QED
    BY <2>1 DEF IInv, TypeOK
<1>2. EntriesStay
  BY DEF EntriesStay
<1>3. ASSUME NEW q \in Requests \ {r} PROVE LeavesAlone(q)
  <2>1. req'[q] = req[q]
    BY DEF IInv, TypeOK
  <2> QED
    BY <1>3, <2>1 DEF LeavesAlone, SameRequest
<1>4. NumbersGapFree' /\ BookedBalance'
  BY DEF IInv, NumbersGapFree, BookedBalance
<1> QED
  BY <1>1, <1>2, <1>3, <1>4, StepKeeps

\* The row a request locks was nobody else's, and a transaction's end frees
\* its own rows only.
LEMMA LockKeeps ==
    ASSUME TypeOK, L!LocksExclusive, NEW r \in Requests,
           NEW row \in Numbers \cup {JournalSequence}, L!Lock(r, row)
    PROVE  /\ L!LocksTypeOK' /\ L!LocksExclusive'
           /\ row \in locks'[r]
           /\ \A q \in Requests \ {r} : locks'[q] = locks[q]
  BY DEF TypeOK, L!LocksTypeOK, L!LocksExclusive, L!Lock, L!Available

\* The end of a transaction gives its locks back and takes none from the others.
LEMMA EndKeeps ==
    ASSUME TypeOK, L!LocksExclusive, NEW r \in Requests, L!EndTransaction(r)
    PROVE  /\ L!LocksTypeOK' /\ L!LocksExclusive'
           /\ \A q \in Requests \ {r} : locks'[q] = locks[q]
  BY DEF TypeOK, L!LocksTypeOK, L!LocksExclusive, L!EndTransaction

\* A request that is idle claims nothing.
LEMMA IdleDoes ==
    ASSUME NEW r \in Requests, req[r] = Idle
    PROVE  Does(r)
  BY NoneAssumption DEF Idle, Does, Rests, InsertsEntry, PostsDraft, Deletes, Reverses, Settles,
     HasNumber, Operations

\* A request at rest has the type of a request.
LEMMA IdleIsRequest == Idle \in Request
  BY DEF Idle, Request, Steps

-------------------------------------------------------------------------------
(* Every action keeps the invariant                                        *)

\* A request that begins with a well-typed record keeps the invariant.
LEMMA BeginKeeps ==
    ASSUME IInv, NEW r \in Requests, NEW asked \in Request, Begin(r, asked), Does(r)'
    PROVE  IInv'
<1>1. L!LocksTypeOK' /\ L!LocksExclusive' /\ \A q \in Requests : locks'[q] = locks[q]
  BY DEF Begin, IInv, TypeOK, L!LocksTypeOK, L!LocksExclusive
<1>2. req' = [req EXCEPT ![r] = req'[r]] /\ req'[r] \in Request
  BY DEF Begin, IInv, TypeOK
<1> QED
  BY <1>1, <1>2, QuietStep DEF Begin

\* BeginPost keeps the invariant.
LEMMA BeginPostKeeps ==
    ASSUME IInv, NEW r \in Requests, NEW body \in Bodies, NEW p \in Periods, BeginPost(r, body, p)
    PROVE  IInv'
<1>1. PICK asked : asked = [Idle EXCEPT !.op = "post", !.step = "period",
                                        !.row = NewEntry("posted", body, p, 0)]
  OBVIOUS
<1>2. Begin(r, asked) /\ Total(body) = 0
  BY <1>1 DEF BeginPost, Normalizes
<1>3. NewEntry("posted", body, p, 0) \in Entry
  BY DEF NewEntry, Entry, AllBodies, Kept, Booked
<1>4. asked \in Request
  BY <1>1, <1>3 DEF Idle, Request, Steps, Operations
<1>5. /\ asked.op = "post" /\ asked.step = "period" /\ asked.row \in Entry
      /\ asked.row.mirrorOf = 0 /\ asked.row.status = "posted" /\ asked.row.body = body
  BY <1>1, <1>3 DEF Idle, NewEntry
<1>6. req'[r] = asked
  BY <1>2 DEF Begin, IInv, TypeOK
<1>7. Does(r)'
  BY <1>2, <1>5, <1>6, NoneAssumption DEF Does, Rests, InsertsEntry, PostsDraft, Deletes, Reverses,
     Settles, HasNumber, Operations
<1> QED
  BY <1>2, <1>4, <1>7, BeginKeeps

\* BeginDraft keeps the invariant.
LEMMA BeginDraftKeeps ==
    ASSUME IInv, NEW r \in Requests, NEW body \in Bodies, NEW p \in Periods, BeginDraft(r, body, p)
    PROVE  IInv'
<1>1. PICK asked : asked = [Idle EXCEPT !.op = "draft", !.step = "number",
                                        !.row = NewEntry("draft", body, p, 0)]
  OBVIOUS
<1>2. Begin(r, asked)
  BY <1>1 DEF BeginDraft
<1>3. NewEntry("draft", body, p, 0) \in Entry
  BY DEF NewEntry, Entry, AllBodies, Kept, Booked
<1>4. asked \in Request
  BY <1>1, <1>3 DEF Idle, Request, Steps, Operations
<1>5. /\ asked.op = "draft" /\ asked.step = "number" /\ asked.row \in Entry
      /\ asked.row.mirrorOf = 0 /\ asked.row.status = "draft" /\ asked.row.body = body
  BY <1>1, <1>3 DEF Idle, NewEntry
<1>6. req'[r] = asked
  BY <1>2 DEF Begin, IInv, TypeOK
<1>7. Does(r)'
  BY <1>2, <1>5, <1>6, NoneAssumption DEF Does, Rests, InsertsEntry, PostsDraft, Deletes, Reverses,
     Settles, HasNumber, Operations
<1> QED
  BY <1>2, <1>4, <1>7, BeginKeeps

\* BeginPostDraft keeps the invariant.
LEMMA BeginPostDraftKeeps ==
    ASSUME IInv, NEW r \in Requests, NEW n \in Numbers, BeginPostDraft(r, n)
    PROVE  IInv'
<1>1. PICK asked : asked = [Idle EXCEPT !.op = "postDraft", !.step = "entry", !.on = n]
  OBVIOUS
<1>2. Begin(r, asked)
  BY <1>1 DEF BeginPostDraft
<1>3. asked \in Request /\ asked.op = "postDraft" /\ asked.step = "entry" /\ asked.on = n
  BY <1>1 DEF Idle, Request, Steps, Operations
<1>4. req'[r] = asked
  BY <1>2 DEF Begin, IInv, TypeOK
<1>5. Does(r)'
  BY <1>3, <1>4, NoneAssumption DEF Does, Rests, InsertsEntry, PostsDraft, Deletes, Reverses,
     Settles, HasNumber, Operations
<1> QED
  BY <1>2, <1>3, <1>5, BeginKeeps

\* BeginDelete keeps the invariant.
LEMMA BeginDeleteKeeps ==
    ASSUME IInv, NEW r \in Requests, NEW n \in Numbers, BeginDelete(r, n)
    PROVE  IInv'
<1>1. PICK asked : asked = [Idle EXCEPT !.op = "delete", !.step = "commit", !.on = n,
                                        !.was = entry[n].status]
  OBVIOUS
<1>2. Begin(r, asked) /\ entry[n].status = "draft" /\ entry' = entry
  BY <1>1 DEF BeginDelete, Begin
<1>3. /\ asked \in Request /\ asked.op = "delete" /\ asked.step = "commit" /\ asked.on = n
      /\ asked.was = "draft"
  BY <1>1, <1>2 DEF Idle, Request, Steps, Operations, Kept
<1>4. req'[r] = asked
  BY <1>2 DEF Begin, IInv, TypeOK
<1>5. Does(r)'
  BY <1>2, <1>3, <1>4, NoneAssumption DEF Does, Rests, InsertsEntry, PostsDraft, Deletes, Reverses,
     Settles, HasNumber, Operations
<1> QED
  BY <1>2, <1>3, <1>5, BeginKeeps

\* BeginReverse keeps the invariant.
LEMMA BeginReverseKeeps ==
    ASSUME IInv, NEW r \in Requests, NEW n \in Numbers, NEW p \in Periods, BeginReverse(r, n, p)
    PROVE  IInv'
<1>1. PICK asked : asked = [Idle EXCEPT !.op = "reverse", !.step = "entry", !.on = n,
                                        !.row = NewEntry("posted", <<>>, p, n)]
  OBVIOUS
<1>2. Begin(r, asked)
  BY <1>1 DEF BeginReverse
<1>3. NewEntry("posted", <<>>, p, n) \in Entry
  BY DEF NewEntry, Entry, Kept, Booked
<1>4. asked \in Request
  BY <1>1, <1>3 DEF Idle, Request, Steps, Operations
<1>5. /\ asked.op = "reverse" /\ asked.step = "entry" /\ asked.on = n /\ asked.row \in Entry
      /\ asked.row.mirrorOf = n /\ asked.row.status = "posted"
  BY <1>1, <1>3 DEF Idle, NewEntry
<1>6. req'[r] = asked
  BY <1>2 DEF Begin, IInv, TypeOK
<1>7. Does(r)'
  BY <1>2, <1>5, <1>6, NoneAssumption DEF Does, Rests, InsertsEntry, PostsDraft, Deletes, Reverses,
     Settles, HasNumber, Operations
<1> QED
  BY <1>2, <1>4, <1>7, BeginKeeps

\* BeginGroup keeps the invariant.
LEMMA BeginGroupKeeps ==
    ASSUME IInv, NEW r \in Requests, NEW a \in Accounts, BeginGroup(r, a)
    PROVE  IInv'
<1>1. PICK asked : asked = [Idle EXCEPT !.op = "group", !.step = "commit", !.on = a]
  OBVIOUS
<1>2. Begin(r, asked)
  BY <1>1 DEF BeginGroup
<1>3. asked \in Request /\ asked.op = "group" /\ asked.step = "commit" /\ asked.on = a
  BY <1>1 DEF Idle, Request, Steps, Operations
<1>4. req'[r] = asked
  BY <1>2 DEF Begin, IInv, TypeOK
<1>5. Does(r)'
  BY <1>3, <1>4, NoneAssumption DEF Does, Rests, InsertsEntry, PostsDraft, Deletes, Reverses,
     Settles, HasNumber, Operations
<1> QED
  BY <1>2, <1>3, <1>5, BeginKeeps

\* BeginMatch keeps the invariant.
LEMMA BeginMatchKeeps ==
    ASSUME IInv, NEW r \in Requests, NEW s \in Statement, NEW n \in Numbers,
           NEW i \in DOMAIN entry[n].body, BeginMatch(r, s, n, i)
    PROVE  IInv'
<1>1. PICK asked : asked = [Idle EXCEPT !.op = "match", !.step = "commit", !.on = s,
                                        !.line = <<n, i>>, !.rivals = Claimants(<<n, i>>)]
  OBVIOUS
<1>2. /\ Begin(r, asked) /\ Claimants(<<n, i>>) = {} /\ entry' = entry
      /\ entry[n].status # "none"
      /\ entry[n].body[i] = [account |-> BankAccount, amount |-> Amount[s]]
  BY <1>1 DEF BeginMatch, ReadToMatch, Matchable, Kept, Booked, Begin
<1>3. i \in Nat
  <2>1. entry[n].body \in AllBodies \cup {<<>>}
    BY DEF IInv, TypeOK, Entry
  <2> QED
    BY <2>1, BodyShape
<1>4. /\ asked \in Request /\ asked.op = "match" /\ asked.step = "commit" /\ asked.on = s
      /\ asked.line = <<n, i>> /\ asked.rivals = {}
  BY <1>1, <1>2, <1>3 DEF Idle, Request, Steps, Operations
<1>5. req'[r] = asked
  BY <1>2 DEF Begin, IInv, TypeOK
<1>6. Settles(r)'
  BY <1>2, <1>3, <1>4, <1>5 DEF Settles
<1>7. Does(r)'
  BY <1>4, <1>5, <1>6, NoneAssumption DEF Does, Rests, InsertsEntry, PostsDraft, Deletes, Reverses,
     HasNumber, Operations
<1> QED
  BY <1>2, <1>4, <1>7, BeginKeeps

\* Every way to begin keeps the invariant.
LEMMA StartKeeps ==
    ASSUME IInv, NEW r \in Requests, Start(r)
    PROVE  IInv'
BY BeginPostKeeps, BeginDraftKeeps, BeginPostDraftKeeps, BeginDeleteKeeps, BeginReverseKeeps,
   BeginGroupKeeps, BeginMatchKeeps DEF Start

\* LockDraft keeps the invariant.
LEMMA LockDraftKeeps ==
    ASSUME IInv, NEW r \in Requests, LockDraft(r)
    PROVE  IInv'
<1>1. PICK n \in Numbers : n = req[r].on
  BY DEF LockDraft, At, IInv, Does, PostsDraft
<1>2. req[r].op = "postDraft" /\ entry[n].status = "draft" /\ Total(entry[n].body) = 0
      /\ UNCHANGED <<entry, nextNo, locked, acct, matched>> /\ L!Lock(r, n)
  BY <1>1 DEF LockDraft, At, Normalizes
<1>3. PICK row \in Entry : row = [entry[n] EXCEPT !.status = "posted"]
  <2>1. entry[n] \in Entry
    BY DEF IInv, TypeOK
  <2>2. "posted" \in Kept \cup {"none", "deleted"}
    BY DEF Kept, Booked
  <2>3. [entry[n] EXCEPT !.status = "posted"] \in Entry
    BY <2>1, <2>2 DEF Entry
  <2> QED
    BY <2>3
<1>4. req[r] \in Request /\ req' = [req EXCEPT ![r].step = "period", ![r].row = row]
  BY <1>1, <1>3 DEF LockDraft, IInv, TypeOK
<1>5. /\ req'[r].op = "postDraft" /\ req'[r].step = "period" /\ req'[r].on = n /\ req'[r].row = row
      /\ req'[r] \in Request /\ req' = [req EXCEPT ![r] = req'[r]]
  BY <1>1, <1>2, <1>4 DEF Request, Steps, IInv, TypeOK
<1>6. L!LocksTypeOK' /\ L!LocksExclusive' /\ n \in locks'[r]
      /\ \A q \in Requests \ {r} : locks'[q] = locks[q]
  BY <1>2, LockKeeps DEF IInv
<1>7. Does(r)'
  BY <1>2, <1>3, <1>5, <1>6, NoneAssumption DEF Does, Rests, InsertsEntry, PostsDraft, Deletes,
     Reverses, Settles, HasNumber, Operations
<1> QED
  BY <1>2, <1>5, <1>6, <1>7, QuietStep

\* Where no lock is taken or given back, locks stay exclusive.
LEMMA LocksStay ==
    ASSUME TypeOK, L!LocksExclusive, UNCHANGED locks
    PROVE  L!LocksTypeOK' /\ L!LocksExclusive' /\ \A q \in Requests : locks'[q] = locks[q]
  BY DEF TypeOK, L!LocksTypeOK, L!LocksExclusive

\* ReadOriginal keeps the invariant.
LEMMA ReadOriginalKeeps ==
    ASSUME IInv, NEW r \in Requests, ReadOriginal(r)
    PROVE  IInv'
<1>1. PICK n \in Numbers : n = req[r].on
  BY DEF ReadOriginal, At, IInv, Does, Reverses
<1>2. /\ req[r].op = "reverse" /\ entry[n].status = "posted"
      /\ UNCHANGED <<entry, nextNo, locked, acct, matched>> /\ UNCHANGED locks
  BY <1>1 DEF ReadOriginal, At
<1>3. req[r] \in Request /\ req[r].row \in Entry /\ req[r].row.status = "posted"
      /\ req[r].row.mirrorOf = n
  BY <1>1, <1>2 DEF IInv, TypeOK, Does, Reverses
<1>4. PICK row \in Entry : row = [req[r].row EXCEPT !.body = Negated(entry[n].body)]
  <2>1. entry[n].body \in AllBodies \cup {<<>>}
    BY DEF IInv, TypeOK, Entry
  <2> QED
    BY <1>3, <2>1, NegatedBody DEF Entry
<1>5. req' = [req EXCEPT ![r].step = "period", ![r].was = "posted", ![r].row = row]
  BY <1>1, <1>2, <1>4 DEF ReadOriginal, IInv, TypeOK
<1>6. /\ req'[r].op = "reverse" /\ req'[r].step = "period" /\ req'[r].on = n /\ req'[r].row = row
      /\ req'[r].was = "posted"
      /\ req'[r] \in Request /\ req' = [req EXCEPT ![r] = req'[r]]
  BY <1>1, <1>2, <1>3, <1>5 DEF Request, Steps, Kept, Booked, IInv, TypeOK
<1>7. row.status = "posted" /\ row.mirrorOf = n /\ row.body = Negated(entry[n].body)
  BY <1>3, <1>4 DEF Entry
<1>8. Total(entry[n].body) = 0
  BY <1>2 DEF IInv, BookedBalance, Booked
<1>9. Does(r)'
  BY <1>2, <1>6, <1>7, <1>8, NoneAssumption DEF Does, Rests, InsertsEntry, PostsDraft, Deletes,
     Reverses, Settles, HasNumber, Operations
<1>10. L!LocksTypeOK' /\ L!LocksExclusive' /\ \A q \in Requests : locks'[q] = locks[q]
  BY <1>2, LocksStay DEF IInv
<1> QED
  BY <1>2, <1>6, <1>9, <1>10, QuietStep

\* What a request's row looks like after Goto.
LEMMA Gone ==
    ASSUME TypeOK, NEW r \in Requests, NEW step \in Steps, Goto(r, step)
    PROVE  /\ req'[r].step = step /\ req'[r].op = req[r].op /\ req'[r].on = req[r].on
           /\ req'[r].row = req[r].row /\ req'[r].was = req[r].was
           /\ req'[r].line = req[r].line /\ req'[r].rivals = req[r].rivals
           /\ req'[r].late = req[r].late
           /\ req'[r] \in Request
           /\ req' = [req EXCEPT ![r] = req'[r]]
  BY DEF TypeOK, Goto, Request

\* The operation of a request that is at one of these steps.
LEMMA WhoIsAt ==
    ASSUME IInv, NEW r \in Requests
    PROVE  /\ req[r] \in Request
           /\ req[r].step \in {"period", "accounts"} => req[r].op \in {"post", "postDraft", "reverse"}
           /\ req[r].step = "number" => req[r].op \in {"post", "draft", "reverse"}
<1>1. Does(r) /\ req[r] \in Request
  BY DEF IInv, TypeOK
<1>2. req[r].op \in Operations \cup {None}
  BY <1>1 DEF Request
<1> QED
  BY <1>1, <1>2 DEF Does, Rests, InsertsEntry, PostsDraft, Deletes, Settles, Operations

\* CheckPeriod keeps the invariant.
LEMMA CheckPeriodKeeps ==
    ASSUME IInv, NEW r \in Requests, CheckPeriod(r)
    PROVE  IInv'
<1>1. /\ req[r].step = "period" /\ Goto(r, "accounts") /\ UNCHANGED locks
      /\ UNCHANGED <<entry, nextNo, locked, acct, matched>>
  BY DEF CheckPeriod
<1>2. Posts(r)
  BY <1>1, WhoIsAt DEF Posts
<1>4. /\ req'[r].step = "accounts" /\ req'[r].op = req[r].op /\ req'[r].on = req[r].on
      /\ req'[r].row = req[r].row /\ req'[r].was = req[r].was
      /\ req'[r] \in Request /\ req' = [req EXCEPT ![r] = req'[r]]
  BY <1>1, Gone DEF IInv, Steps
<1>5. L!LocksTypeOK' /\ L!LocksExclusive' /\ \A q \in Requests : locks'[q] = locks[q]
  BY <1>1, LocksStay DEF IInv
<1>6. Does(r)'
  <2>1. Does(r)
    BY DEF IInv
  <2> QED
    BY <1>1, <1>2, <1>4, <1>5, <2>1, NoneAssumption DEF Posts, Does, Rests, InsertsEntry, PostsDraft,
       Deletes, Reverses, Settles, HasNumber, Operations
<1> QED
  BY <1>1, <1>4, <1>5, <1>6, QuietStep

\* CheckAccounts keeps the invariant.
LEMMA CheckAccountsKeeps ==
    ASSUME IInv, NEW r \in Requests, CheckAccounts(r)
    PROVE  IInv'
<1> DEFINE step == IF req[r].op = "postDraft" THEN "commit" ELSE "number"
<1>1. /\ req[r].step = "accounts" /\ Goto(r, step) /\ UNCHANGED locks
      /\ UNCHANGED <<entry, nextNo, locked, acct, matched>>
  BY DEF CheckAccounts
<1>2. Posts(r)
  BY <1>1, WhoIsAt DEF Posts
<1>3. step \in Steps
  BY DEF Steps
<1>4. /\ req'[r].step = step /\ req'[r].op = req[r].op /\ req'[r].on = req[r].on
      /\ req'[r].row = req[r].row /\ req'[r].was = req[r].was
      /\ req'[r] \in Request /\ req' = [req EXCEPT ![r] = req'[r]]
  BY <1>1, <1>3, Gone DEF IInv
<1>5. L!LocksTypeOK' /\ L!LocksExclusive' /\ \A q \in Requests : locks'[q] = locks[q]
  BY <1>1, LocksStay DEF IInv
<1>6. Does(r)'
  <2>1. Does(r)
    BY DEF IInv
  <2> QED
    BY <1>1, <1>2, <1>4, <1>5, <2>1, NoneAssumption DEF Posts, Does, Rests, InsertsEntry, PostsDraft,
       Deletes, Reverses, Settles, HasNumber, Operations
<1> QED
  BY <1>1, <1>4, <1>5, <1>6, QuietStep

\* TakeNumber keeps the invariant.
LEMMA TakeNumberKeeps ==
    ASSUME IInv, NEW r \in Requests, TakeNumber(r)
    PROVE  IInv'
<1>1. /\ req[r].step = "number" /\ nextNo <= MaxNo /\ Goto(r, "commit")
      /\ L!Lock(r, JournalSequence) /\ UNCHANGED <<entry, nextNo, locked, acct, matched>>
  BY DEF TakeNumber
<1>2. req[r].op \in {"post", "draft", "reverse"}
  BY <1>1, WhoIsAt
<1>3. /\ req'[r].step = "commit" /\ req'[r].op = req[r].op /\ req'[r].on = req[r].on
      /\ req'[r].row = req[r].row /\ req'[r].was = req[r].was
      /\ req'[r] \in Request /\ req' = [req EXCEPT ![r] = req'[r]]
  BY <1>1, Gone DEF IInv, Steps
<1>4. L!LocksTypeOK' /\ L!LocksExclusive' /\ JournalSequence \in locks'[r]
      /\ \A q \in Requests \ {r} : locks'[q] = locks[q]
  BY <1>1, LockKeeps DEF IInv
<1>5. Does(r)'
  <2>1. Does(r)
    BY DEF IInv
  <2> QED
    BY <1>1, <1>2, <1>3, <1>4, <2>1, NoneAssumption DEF Does, Rests, InsertsEntry, PostsDraft,
       Deletes, Reverses, Settles, HasNumber, Operations
<1> QED
  BY <1>1, <1>3, <1>4, <1>5, QuietStep

\* What every end of a request does.
LEMMA EndDoes ==
    ASSUME IInv, NEW r \in Requests, req' = [req EXCEPT ![r] = Idle], L!EndTransaction(r)
    PROVE  /\ req' \in [Requests -> Request] /\ req'[r] = Idle /\ Does(r)'
           /\ L!LocksTypeOK' /\ L!LocksExclusive'
           /\ \A q \in Requests \ {r} : req'[q] = req[q] /\ locks'[q] = locks[q] /\ SameRequest(q)
<1>1. req' \in [Requests -> Request] /\ req'[r] = Idle
      /\ \A q \in Requests \ {r} : req'[q] = req[q]
  BY IdleIsRequest DEF IInv, TypeOK
<1>2. L!LocksTypeOK' /\ L!LocksExclusive' /\ \A q \in Requests \ {r} : locks'[q] = locks[q]
  BY EndKeeps DEF IInv
<1>3. Does(r)'
  BY <1>1, NoneAssumption DEF Idle, Does, Rests, InsertsEntry, PostsDraft, Deletes, Reverses,
     Settles, HasNumber, Operations
<1> QED
  BY <1>1, <1>2, <1>3 DEF SameRequest

\* Rollback keeps the invariant.
LEMMA RollbackKeeps ==
    ASSUME IInv, NEW r \in Requests, Rollback(r)
    PROVE  IInv'
<1>1. UNCHANGED <<entry, nextNo, locked, acct, matched>>
      /\ req' = [req EXCEPT ![r] = Idle] /\ L!EndTransaction(r)
  BY DEF Rollback
<1>2. req' = [req EXCEPT ![r] = req'[r]] /\ req'[r] \in Request
  BY <1>1, EndDoes DEF IInv, TypeOK
<1> QED
  BY <1>1, <1>2, EndDoes, QuietStep

\* The entry a commit inserts has the next number, which nothing had.
LEMMA NextIsFree ==
    ASSUME IInv, NEW r \in Requests, req[r].op \in {"post", "draft", "reverse"},
           req[r].step = "commit"
    PROVE  /\ nextNo \in Numbers /\ nextNo \in 1..MaxNo /\ entry[nextNo].status = "none"
           /\ JournalSequence \in locks[r]
           /\ \A q \in Requests \ {r} : JournalSequence \notin locks[q]
<1>1. JournalSequence \in locks[r] /\ nextNo <= MaxNo /\ nextNo \in 1..MaxNo + 1 /\ MaxNo \in Nat
  BY LinesAssumption DEF IInv, TypeOK, Does, HasNumber
<1>2. nextNo \in 1..MaxNo
  BY <1>1
<1>3. entry[nextNo].status = "none"
  BY <1>2 DEF IInv, NumbersGapFree, Numbers
<1> QED
  BY <1>1, <1>2, <1>3 DEF IInv, L!LocksExclusive, Numbers

\* r writes the entries W, and no row another one has locked.
WritesOnly(r, W) ==
    /\ \A q \in Requests \ {r} : SameRequest(q) /\ locks'[q] = locks[q]
    /\ \A n \in Numbers \ W : entry'[n] = entry[n]
    /\ \A n \in Numbers \cap W : entry[n].status = "draft" =>
          \A q \in Requests \ {r} : n \notin locks[q]
    /\ nextNo' # nextNo => JournalSequence \in locks[r]

\* Who waits while r writes its rows.
LEMMA OthersWait ==
    ASSUME IInv, NEW r \in Requests, NEW W, WritesOnly(r, W)
    PROVE  \A q \in Requests \ {r} : LeavesAlone(q)
<1> SUFFICES ASSUME NEW q \in Requests \ {r} PROVE LeavesAlone(q)
  OBVIOUS
<1>1. ASSUME req[q].op = "postDraft", req[q].step # "entry"
      PROVE  entry'[req[q].on] = entry[req[q].on]
  <2>1. req[q].on \in Numbers /\ req[q].on \in locks[q] /\ entry[req[q].on].status = "draft"
    BY <1>1 DEF IInv, Does, PostsDraft
  <2> QED
    BY <2>1 DEF WritesOnly
<1>2. JournalSequence \in locks[q] => nextNo' = nextNo
  BY DEF IInv, L!LocksExclusive, WritesOnly
<1> QED
  BY <1>1, <1>2 DEF LeavesAlone, WritesOnly

\* What CommitNew writes, and what it knew.
LEMMA CommitNewDoes ==
    ASSUME IInv, NEW r \in Requests, CommitNew(r)
    PROVE  \E row \in Entry :
             /\ row = req[r].row /\ row.status \in {"posted", "draft"} /\ row.mirrorOf = 0
             /\ row.status = "posted" => Total(row.body) = 0 /\ req[r].op = "post"
             /\ nextNo \in Numbers /\ nextNo \in 1..MaxNo /\ entry[nextNo].status = "none"
             /\ entry' = [entry EXCEPT ![nextNo] = row] /\ nextNo' = nextNo + 1
             /\ req' = [req EXCEPT ![r] = Idle] /\ L!EndTransaction(r)
             /\ UNCHANGED <<locked, acct, matched, overtaken>>
<1>1. req[r].op \in {"post", "draft"} /\ req[r].step = "commit"
  BY DEF CommitNew
<1>2. InsertsEntry(r)
  BY DEF IInv, Does
<1>3. nextNo \in Numbers /\ nextNo \in 1..MaxNo /\ entry[nextNo].status = "none"
  BY <1>1, NextIsFree
<1> QED
  BY <1>1, <1>2, <1>3 DEF CommitNew, Commit, InsertsEntry

\* CommitNew keeps the invariant.
LEMMA CommitNewKeeps ==
    ASSUME IInv, NEW r \in Requests, CommitNew(r)
    PROVE  IInv'
<1>1. PICK row \in Entry :
         /\ row.status \in {"posted", "draft"} /\ (row.status = "posted" => Total(row.body) = 0)
         /\ nextNo \in Numbers /\ nextNo \in 1..MaxNo /\ entry[nextNo].status = "none"
         /\ entry' = [entry EXCEPT ![nextNo] = row] /\ nextNo' = nextNo + 1
         /\ req' = [req EXCEPT ![r] = Idle] /\ L!EndTransaction(r)
         /\ UNCHANGED <<locked, acct, matched>>
  BY CommitNewDoes
<1>2. PICK n \in 1..MaxNo : n = nextNo
  BY <1>1
<1>3. n \in Numbers /\ entry'[n] = row /\ \A m \in Numbers \ {n} : entry'[m] = entry[m]
  BY <1>1, <1>2 DEF IInv, TypeOK
<1>4. /\ req' \in [Requests -> Request] /\ req'[r] = Idle /\ Does(r)'
      /\ L!LocksTypeOK' /\ L!LocksExclusive'
      /\ \A q \in Requests \ {r} : req'[q] = req[q] /\ locks'[q] = locks[q] /\ SameRequest(q)
  BY <1>1, EndDoes
<1>5. TypeOK'
  <2>1. entry' \in [Numbers -> Entry]
    BY <1>1, <1>2, <1>3 DEF IInv, TypeOK
  <2>2. nextNo' \in 1..MaxNo + 1
    BY <1>1, <1>2, LinesAssumption
  <2> QED
    BY <1>1, <1>4, <2>1, <2>2 DEF IInv, TypeOK
<1>6. EntriesStay
  BY <1>1, <1>2, <1>3 DEF EntriesStay
<1>7. NumbersGapFree'
  BY <1>1, <1>2, <1>3, LinesAssumption DEF IInv, NumbersGapFree, Numbers
<1>8. BookedBalance'
  BY <1>1, <1>3 DEF IInv, BookedBalance, Booked
<1>9. JournalSequence \in locks[r] /\ entry[n].status # "draft"
  BY <1>1, <1>2, NextIsFree DEF CommitNew
<1>10. WritesOnly(r, {n})
  BY <1>3, <1>4, <1>9 DEF WritesOnly
<1>11. \A q \in Requests \ {r} : LeavesAlone(q)
  BY <1>10, OthersWait
<1> QED
  BY <1>4, <1>5, <1>6, <1>7, <1>8, <1>11, StepKeeps

\* What CommitPostDraft writes, and what it knew.
LEMMA CommitPostDraftDoes ==
    ASSUME IInv, NEW r \in Requests, CommitPostDraft(r)
    PROVE  \E n \in Numbers :
             /\ n = req[r].on /\ entry[n].status = "draft" /\ Total(entry[n].body) = 0
             /\ req[r].op = "postDraft" /\ req[r].step = "commit"
             /\ req[r].row = [entry[n] EXCEPT !.status = "posted"] /\ n \in locks[r]
             /\ entry' = [entry EXCEPT ![n] = [entry[n] EXCEPT !.status = "posted"]]
             /\ req' = [req EXCEPT ![r] = Idle] /\ L!EndTransaction(r)
             /\ UNCHANGED <<nextNo, locked, acct, matched, overtaken>>
<1>1. req[r].op = "postDraft" /\ req[r].step = "commit"
  BY DEF CommitPostDraft, At
<1>2. PostsDraft(r)
  BY DEF IInv, Does
<1>3. PICK n \in Numbers : n = req[r].on
  BY <1>1, <1>2 DEF PostsDraft
<1>4. entry[n].status = "draft" /\ Total(entry[n].body) = 0 /\ n \in locks[r]
      /\ req[r].row = [entry[n] EXCEPT !.status = "posted"]
  BY <1>1, <1>2, <1>3 DEF PostsDraft
<1>5. entry' = [entry EXCEPT ![n] = [entry[n] EXCEPT !.status = "posted"]]
  BY <1>3 DEF CommitPostDraft, IInv, TypeOK
<1> QED
  BY <1>1, <1>3, <1>4, <1>5 DEF CommitPostDraft, Commit

\* CommitPostDraft keeps the invariant.
LEMMA CommitPostDraftKeeps ==
    ASSUME IInv, NEW r \in Requests, CommitPostDraft(r)
    PROVE  IInv'
<1>1. PICK n \in Numbers :
         /\ entry[n].status = "draft" /\ Total(entry[n].body) = 0 /\ n \in locks[r]
         /\ entry' = [entry EXCEPT ![n] = [entry[n] EXCEPT !.status = "posted"]]
         /\ req' = [req EXCEPT ![r] = Idle] /\ L!EndTransaction(r)
         /\ UNCHANGED <<nextNo, locked, acct, matched>>
  BY CommitPostDraftDoes
<1>2. /\ entry[n] \in Entry /\ entry'[n] \in Entry
      /\ entry'[n].status = "posted" /\ entry'[n].body = entry[n].body
      /\ \A m \in Numbers \ {n} : entry'[m] = entry[m]
  BY <1>1 DEF IInv, TypeOK, Entry, Kept, Booked
<1>3. /\ req' \in [Requests -> Request] /\ req'[r] = Idle /\ Does(r)'
      /\ L!LocksTypeOK' /\ L!LocksExclusive'
      /\ \A q \in Requests \ {r} : req'[q] = req[q] /\ locks'[q] = locks[q] /\ SameRequest(q)
  BY <1>1, EndDoes
<1>4. TypeOK'
  <2>1. entry' \in [Numbers -> Entry]
    BY <1>1, <1>2 DEF IInv, TypeOK
  <2> QED
    BY <1>1, <1>3, <2>1 DEF IInv, TypeOK
<1>5. EntriesStay
  BY <1>1, <1>2 DEF EntriesStay
<1>6. NumbersGapFree'
  BY <1>1, <1>2 DEF IInv, NumbersGapFree
<1>7. BookedBalance'
  BY <1>1, <1>2 DEF IInv, BookedBalance, Booked
<1>8. WritesOnly(r, {n})
  BY <1>1, <1>2, <1>3 DEF IInv, L!LocksExclusive, WritesOnly
<1>9. \A q \in Requests \ {r} : LeavesAlone(q)
  BY <1>8, OthersWait
<1> QED
  BY <1>3, <1>4, <1>5, <1>6, <1>7, <1>9, StepKeeps

\* What CommitReverse writes, and what it knew.
LEMMA CommitReverseDoes ==
    ASSUME IInv, NEW r \in Requests, CommitReverse(r)
    PROVE  \E n \in Numbers, row \in Entry :
             /\ n = req[r].on /\ row = req[r].row /\ req[r].op = "reverse"
             /\ row.status = "posted" /\ row.mirrorOf = n
             /\ row.body = Negated(entry[n].body) /\ Total(row.body) = 0 /\ Total(entry[n].body) = 0
             /\ nextNo \in Numbers /\ nextNo \in 1..MaxNo /\ entry[nextNo].status = "none"
             /\ n # nextNo /\ entry[n].status \notin {"none", "draft"}
             /\ entry'[nextNo] = row
             /\ entry'[n] = IF entry[n].status \in Booked THEN [entry[n] EXCEPT !.status = "reversed"]
                                                          ELSE entry[n]
             /\ \A m \in Numbers \ {n, nextNo} : entry'[m] = entry[m]
             /\ entry' \in [Numbers -> Entry] /\ nextNo' = nextNo + 1
             /\ overtaken' = IF entry[n].status = "posted" THEN overtaken
                                                           ELSE overtaken \cup {nextNo}
             /\ req' = [req EXCEPT ![r] = Idle] /\ L!EndTransaction(r)
             /\ UNCHANGED <<locked, acct, matched>>
<1>1. req[r].op = "reverse" /\ req[r].step = "commit"
  BY DEF CommitReverse, At
<1>2. Reverses(r)
  BY DEF IInv, Does
<1>3. PICK n \in Numbers, row \in Entry : n = req[r].on /\ row = req[r].row
  BY <1>1, <1>2 DEF Reverses
<1>4. /\ row.status = "posted" /\ row.mirrorOf = n /\ req[r].was = "posted"
      /\ row.body = Negated(entry[n].body) /\ Total(entry[n].body) = 0
      /\ entry[n].status \notin {"none", "draft"}
  BY <1>1, <1>2, <1>3 DEF Reverses
<1>5. nextNo \in Numbers /\ nextNo \in 1..MaxNo /\ entry[nextNo].status = "none"
  BY <1>1, NextIsFree
<1>6. n # nextNo
  BY <1>4, <1>5
<1>7. Total(row.body) = 0
  <2>1. entry[n].body \in AllBodies \cup {<<>>}
    BY DEF IInv, TypeOK, Entry
  <2>2. Total(Negated(entry[n].body)) = 0 - Total(entry[n].body)
    BY <2>1, NegatedBody
  <2> QED
    BY <1>4, <2>2
<1>8. PICK marked \in Entry : marked = Marked(n)
  BY DEF IInv, TypeOK, Entry, Marked, Kept, Booked
<1>9. marked = IF entry[n].status \in Booked THEN [entry[n] EXCEPT !.status = "reversed"] ELSE entry[n]
  BY <1>4, <1>8 DEF Marked, Kept
<1>10. entry' = [entry EXCEPT ![nextNo] = row, ![n] = marked]
  BY <1>3, <1>8 DEF CommitReverse
<1>11. /\ entry'[nextNo] = row /\ entry'[n] = marked /\ entry' \in [Numbers -> Entry]
       /\ \A m \in Numbers \ {n, nextNo} : entry'[m] = entry[m]
  BY <1>5, <1>6, <1>8, <1>10 DEF IInv, TypeOK
<1>12. overtaken' = IF entry[n].status = "posted" THEN overtaken ELSE overtaken \cup {nextNo}
  BY <1>3, <1>4 DEF CommitReverse, Commit
<1>13. /\ nextNo' = nextNo + 1 /\ UNCHANGED <<locked, acct, matched>>
       /\ req' = [req EXCEPT ![r] = Idle] /\ L!EndTransaction(r)
  BY <1>3 DEF CommitReverse, Commit
<1> QED
  BY <1>1, <1>3, <1>4, <1>5, <1>6, <1>7, <1>9, <1>11, <1>12, <1>13

\* CommitReverse keeps the invariant.
LEMMA CommitReverseKeeps ==
    ASSUME IInv, NEW r \in Requests, CommitReverse(r)
    PROVE  IInv'
<1>1. PICK n \in Numbers, row \in Entry :
             /\ row.status = "posted" /\ Total(row.body) = 0 /\ Total(entry[n].body) = 0
             /\ nextNo \in Numbers /\ nextNo \in 1..MaxNo /\ entry[nextNo].status = "none"
             /\ n # nextNo /\ entry[n].status \notin {"none", "draft"}
             /\ entry'[nextNo] = row
             /\ entry'[n] = IF entry[n].status \in Booked THEN [entry[n] EXCEPT !.status = "reversed"]
                                                          ELSE entry[n]
             /\ \A m \in Numbers \ {n, nextNo} : entry'[m] = entry[m]
             /\ entry' \in [Numbers -> Entry] /\ nextNo' = nextNo + 1
             /\ req' = [req EXCEPT ![r] = Idle] /\ L!EndTransaction(r)
             /\ UNCHANGED <<locked, acct, matched>>
  BY CommitReverseDoes
<1>2. PICK k \in 1..MaxNo : k = nextNo
  BY <1>1
<1>3. /\ k \in Numbers /\ k # n /\ entry[k].status = "none" /\ entry'[k] = row
      /\ \A m \in Numbers \ {n, k} : entry'[m] = entry[m]
  BY <1>1, <1>2
<1>4. entry'[n].body = entry[n].body /\ entry'[n].status \notin {"none", "draft"}
      /\ (entry[n].status # "none" /\ entry'[n].status # "none")
  BY <1>1 DEF IInv, TypeOK, Entry
<1>5. /\ req' \in [Requests -> Request] /\ req'[r] = Idle /\ Does(r)'
      /\ L!LocksTypeOK' /\ L!LocksExclusive'
      /\ \A q \in Requests \ {r} : req'[q] = req[q] /\ locks'[q] = locks[q] /\ SameRequest(q)
  BY <1>1, EndDoes
<1>6. TypeOK'
  <2>1. nextNo' \in 1..MaxNo + 1
    BY <1>1, <1>2, LinesAssumption
  <2> QED
    BY <1>1, <1>5, <2>1 DEF IInv, TypeOK
<1>7. EntriesStay
  BY <1>3, <1>4 DEF EntriesStay
<1>8. NumbersGapFree'
  <2>1. \A m \in Numbers : entry[m].status # "none" <=> m < k
    BY <1>2 DEF IInv, NumbersGapFree
  <2>2. nextNo' = k + 1 /\ row.status # "none" /\ MaxNo \in Nat
    BY <1>1, <1>2, LinesAssumption
  <2>3. \A m \in Numbers : entry'[m].status # "none" <=> m < k + 1
    BY <1>3, <1>4, <2>1, <2>2 DEF Numbers
  <2> QED
    BY <2>2, <2>3 DEF NumbersGapFree
<1>9. BookedBalance'
  <2>1. \A m \in Numbers : entry[m].status \in Booked => Total(entry[m].body) = 0
    BY DEF IInv, BookedBalance
  <2>2. Total(entry'[n].body) = 0 /\ Total(entry'[k].body) = 0
    BY <1>1, <1>3, <1>4
  <2> QED
    BY <1>3, <2>1, <2>2 DEF BookedBalance, Booked
<1>10. JournalSequence \in locks[r]
  BY NextIsFree DEF CommitReverse, At
<1>11. WritesOnly(r, {n, k})
  BY <1>1, <1>3, <1>5, <1>10 DEF WritesOnly
<1>12. \A q \in Requests \ {r} : LeavesAlone(q)
  BY <1>11, OthersWait
<1> QED
  BY <1>5, <1>6, <1>7, <1>8, <1>9, <1>12, StepKeeps

\* What CommitDelete writes, and what it knew.
LEMMA CommitDeleteDoes ==
    ASSUME IInv, NEW r \in Requests, CommitDelete(r)
    PROVE  \E n \in Numbers :
             /\ entry[n].status # "none" /\ ~Referenced(n)
             /\ \A q \in Requests \ {r} : n \notin locks[q]
             /\ entry' = [entry EXCEPT ![n] = [entry[n] EXCEPT !.status = "deleted"]]
             /\ overtaken' = IF entry[n].status = "draft" THEN overtaken ELSE overtaken \cup {n}
             /\ req' = [req EXCEPT ![r] = Idle] /\ L!EndTransaction(r)
             /\ UNCHANGED <<nextNo, locked, acct, matched>>
<1>1. req[r].op = "delete" /\ Deletes(r)
  BY DEF CommitDelete, At, IInv, Does
<1>2. PICK n \in Numbers : n = req[r].on
  BY <1>1 DEF Deletes
<1>3. entry[n].status # "none" /\ req[r].was = "draft"
  BY <1>1, <1>2 DEF Deletes
<1>4. entry' = [entry EXCEPT ![n] = [entry[n] EXCEPT !.status = "deleted"]]
  BY <1>2 DEF CommitDelete, IInv, TypeOK
<1> QED
  BY <1>2, <1>3, <1>4 DEF CommitDelete, Commit, L!Available

\* CommitDelete keeps the invariant.
LEMMA CommitDeleteKeeps ==
    ASSUME IInv, NEW r \in Requests, CommitDelete(r)
    PROVE  IInv'
<1>1. PICK n \in Numbers :
             /\ entry[n].status # "none"
             /\ \A q \in Requests \ {r} : n \notin locks[q]
             /\ entry' = [entry EXCEPT ![n] = [entry[n] EXCEPT !.status = "deleted"]]
             /\ req' = [req EXCEPT ![r] = Idle] /\ L!EndTransaction(r)
             /\ UNCHANGED <<nextNo, locked, acct, matched>>
  BY CommitDeleteDoes
<1>2. /\ entry[n] \in Entry /\ entry'[n] \in Entry
      /\ entry'[n].status = "deleted" /\ entry'[n].body = entry[n].body
      /\ \A m \in Numbers \ {n} : entry'[m] = entry[m]
  BY <1>1 DEF IInv, TypeOK, Entry, Kept, Booked
<1>3. /\ req' \in [Requests -> Request] /\ req'[r] = Idle /\ Does(r)'
      /\ L!LocksTypeOK' /\ L!LocksExclusive'
      /\ \A q \in Requests \ {r} : req'[q] = req[q] /\ locks'[q] = locks[q] /\ SameRequest(q)
  BY <1>1, EndDoes
<1>4. TypeOK'
  <2>1. entry' \in [Numbers -> Entry]
    BY <1>1, <1>2 DEF IInv, TypeOK
  <2> QED
    BY <1>1, <1>3, <2>1 DEF IInv, TypeOK
<1>5. EntriesStay
  BY <1>1, <1>2 DEF EntriesStay
<1>6. NumbersGapFree'
  BY <1>1, <1>2 DEF IInv, NumbersGapFree
<1>7. BookedBalance'
  BY <1>1, <1>2 DEF IInv, BookedBalance, Booked
<1>8. WritesOnly(r, {n})
  BY <1>1, <1>2, <1>3 DEF WritesOnly
<1>9. \A q \in Requests \ {r} : LeavesAlone(q)
  BY <1>8, OthersWait
<1> QED
  BY <1>3, <1>4, <1>5, <1>6, <1>7, <1>9, StepKeeps

\* What a match writes: one statement line, matched to a line of the bank account for the
\* same amount of an entry that is kept.
LEMMA CommitMatchDoes ==
    ASSUME IInv, NEW r \in Requests, CommitMatch(r)
    PROVE  \E s \in Statement, n \in Numbers, i \in Nat :
             /\ entry[n].status \in Kept /\ i \in DOMAIN entry[n].body
             /\ entry[n].body[i] = [account |-> BankAccount, amount |-> Amount[s]]
             /\ \/ /\ matched[s] = None
                   /\ matched' = [matched EXCEPT ![s] = <<n, i>>]
                   /\ overtaken' = IF Claimants(<<n, i>>) = {} THEN overtaken
                                                               ELSE overtaken \cup {s}
                \/ UNCHANGED <<matched, overtaken>>
             /\ req' = [req EXCEPT ![r] = Idle] /\ L!EndTransaction(r)
             /\ UNCHANGED <<entry, nextNo, locked, acct>>
<1>1. req[r].op = "match" /\ Settles(r)
  BY DEF CommitMatch, At, IInv, Does
<1>2. PICK s \in Statement, n \in Numbers, i \in Nat : s = req[r].on /\ req[r].line = <<n, i>>
  BY <1>1 DEF Settles
<1>3. /\ req[r].rivals = {} /\ i \in DOMAIN entry[n].body
      /\ entry[n].body[i] = [account |-> BankAccount, amount |-> Amount[s]]
  BY <1>1, <1>2 DEF Settles
<1>4. entry[n].status \in Kept
  BY <1>2 DEF CommitMatch
<1> QED
  BY <1>2, <1>3, <1>4 DEF CommitMatch, Commit

\* CommitMatch keeps the invariant.
LEMMA CommitMatchKeeps ==
    ASSUME IInv, NEW r \in Requests, CommitMatch(r)
    PROVE  IInv'
<1>1. PICK s \in Statement, n \in Numbers, i \in Nat :
             /\ matched' = [matched EXCEPT ![s] = <<n, i>>] \/ UNCHANGED matched
             /\ req' = [req EXCEPT ![r] = Idle] /\ L!EndTransaction(r)
             /\ UNCHANGED <<entry, nextNo, locked, acct>>
  BY CommitMatchDoes
<1>2. /\ req' \in [Requests -> Request] /\ req'[r] = Idle /\ Does(r)'
      /\ L!LocksTypeOK' /\ L!LocksExclusive'
      /\ \A q \in Requests \ {r} : req'[q] = req[q] /\ locks'[q] = locks[q] /\ SameRequest(q)
  BY <1>1, EndDoes
<1>3. TypeOK'
  BY <1>1, <1>2 DEF IInv, TypeOK
<1>4. EntriesStay /\ NumbersGapFree' /\ BookedBalance'
  BY <1>1 DEF EntriesStay, IInv, NumbersGapFree, BookedBalance
<1>5. WritesOnly(r, {})
  BY <1>1, <1>2 DEF WritesOnly
<1>6. \A q \in Requests \ {r} : LeavesAlone(q)
  BY <1>5, OthersWait
<1> QED
  BY <1>2, <1>3, <1>4, <1>6, StepKeeps

\* The lock of a period and the flags of an account change the history of who
\* is late, and nothing else of the requests.
LEMMA OvertakenIs ==
    ASSUME TypeOK, NEW passed, NEW q \in Requests
    PROVE  LET row == Overtaken(passed)[q] IN
           /\ row \in Request /\ row.late = (req[q].late \/ q \in passed)
           /\ row.step = req[q].step /\ row.op = req[q].op /\ row.on = req[q].on
           /\ row.row = req[q].row /\ row.was = req[q].was
           /\ row.line = req[q].line /\ row.rivals = req[q].rivals
<1>1. req[q] \in Request
  BY DEF TypeOK
<1>2. Overtaken(passed)[q] = [req[q] EXCEPT !.late = req[q].late \/ q \in passed]
  BY DEF Overtaken
<1>3. (req[q].late \/ q \in passed) \in BOOLEAN
  BY <1>1 DEF Request
<1>4. PICK b \in BOOLEAN : b = (req[q].late \/ q \in passed)
  BY <1>3
<1> HIDE DEF Overtaken
<1> QED
  BY <1>1, <1>2, <1>4 DEF Request

\* Nobody's row changes, but for who is late.
OnlyLate ==
    /\ \A q \in Requests : SameRequest(q)
    /\ req' \in [Requests -> Request]
    /\ UNCHANGED <<entry, nextNo, matched, locks>>
    /\ locked' \subseteq Periods /\ acct' \in [Accounts -> [isGroup : BOOLEAN, isActive : BOOLEAN]]

\* A step that only changes flags and marks the requests it overtakes keeps the invariant.
LEMMA OnlyLateKeeps ==
    ASSUME IInv, OnlyLate
    PROVE  IInv'
<1>1. L!LocksTypeOK' /\ L!LocksExclusive' /\ \A q \in Requests : locks'[q] = locks[q]
  BY LocksStay DEF IInv, OnlyLate
<1>2. TypeOK'
  BY <1>1 DEF OnlyLate, IInv, TypeOK
<1>3. EntriesStay /\ NumbersGapFree' /\ BookedBalance'
  BY DEF OnlyLate, EntriesStay, IInv, NumbersGapFree, BookedBalance
<1>4. ASSUME NEW q \in Requests PROVE Does(q)'
  <2>1. LeavesAlone(q)
    BY DEF OnlyLate, LeavesAlone
  <2> QED
    BY <1>3, <2>1, Bystander DEF IInv
<1> QED
  BY <1>1, <1>2, <1>3, <1>4 DEF IInv

\* Locking a period, or opening it again, changes its flag and overtakes those past the check.
LEMMA LocksOfPeriods ==
    ASSUME IInv, NEW p \in Periods, SetPeriodLock(p)
    PROVE  OnlyLate
<1>1. req' = req \/ \E passed : req' = Overtaken(passed)
  BY DEF SetPeriodLock
<1>2. \A q \in Requests : SameRequest(q) /\ req'[q] \in Request
  BY <1>1, OvertakenIs DEF IInv, TypeOK, SameRequest
<1>3. req' \in [Requests -> Request]
  BY <1>1, <1>2 DEF Overtaken, IInv, TypeOK
<1> QED
  BY <1>2, <1>3 DEF OnlyLate, SetPeriodLock, IInv, TypeOK

\* So does deactivating an account, or activating it again.
LEMMA FlagsOfAccounts ==
    ASSUME IInv, NEW a \in Accounts, SetAccount(a)
    PROVE  OnlyLate
<1>1. req' = req \/ \E passed : req' = Overtaken(passed)
  BY DEF SetAccount
<1>2. \A q \in Requests : SameRequest(q) /\ req'[q] \in Request
  BY <1>1, OvertakenIs DEF IInv, TypeOK, SameRequest
<1>3. req' \in [Requests -> Request]
  BY <1>1, <1>2 DEF Overtaken, IInv, TypeOK
<1>4. acct' \in [Accounts -> [isGroup : BOOLEAN, isActive : BOOLEAN]]
  <2>1. acct \in [Accounts -> [isGroup : BOOLEAN, isActive : BOOLEAN]]
    BY DEF IInv, TypeOK
  <2>2. \/ acct' = [acct EXCEPT ![a].isActive = FALSE]
        \/ acct' = [acct EXCEPT ![a].isActive = TRUE]
        \/ acct' = [acct EXCEPT ![a].isGroup = FALSE]
    BY DEF SetAccount
  <2> QED
    BY <2>1, <2>2
<1>5. UNCHANGED <<entry, nextNo, matched, locks>> /\ locked' \subseteq Periods
  BY DEF SetAccount, IInv, TypeOK
<1> QED
  BY <1>2, <1>3, <1>4, <1>5 DEF OnlyLate

\* What CommitGroup writes, and what it knew.
LEMMA CommitGroupDoes ==
    ASSUME IInv, NEW r \in Requests, CommitGroup(r)
    PROVE  \E a \in Accounts :
             /\ acct' = [acct EXCEPT ![a].isGroup = TRUE]
             /\ acct' \in [Accounts -> [isGroup : BOOLEAN, isActive : BOOLEAN]]
             /\ req' \in [Requests -> Request] /\ req'[r] = Idle /\ Does(r)'
             /\ \A q \in Requests \ {r} : /\ SameRequest(q)
                                          /\ req'[q].late = (req[q].late \/ q \in PastAccount(a))
             /\ UNCHANGED <<entry, nextNo, locked, matched, locks, overtaken>>
<1>1. req[r].op = "group" /\ Settles(r)
  BY DEF CommitGroup, At, IInv, Does
<1>2. PICK a \in Accounts : a = req[r].on
  BY <1>1 DEF Settles
<1>3. PICK passed : passed = PastAccount(a)
  OBVIOUS
<1>4. /\ acct' = [acct EXCEPT ![a].isGroup = TRUE]
      /\ req' = [Overtaken(passed) EXCEPT ![r] = Idle]
      /\ UNCHANGED <<entry, nextNo, locked, matched, locks, overtaken>>
  BY <1>2, <1>3 DEF CommitGroup
<1>5. acct' \in [Accounts -> [isGroup : BOOLEAN, isActive : BOOLEAN]]
  BY <1>4 DEF IInv, TypeOK
<1>6. DOMAIN Overtaken(passed) = Requests
  BY DEF Overtaken
<1>7. \A q \in Requests : Overtaken(passed)[q] \in Request
  BY OvertakenIs DEF IInv
<1>8. /\ req' \in [Requests -> Request] /\ req'[r] = Idle
      /\ \A q \in Requests \ {r} : req'[q] = Overtaken(passed)[q]
  BY <1>4, <1>6, <1>7, IdleIsRequest DEF Overtaken
<1>9. \A q \in Requests \ {r} : SameRequest(q) /\ req'[q].late = (req[q].late \/ q \in passed)
  BY <1>8, OvertakenIs DEF IInv, SameRequest
<1>10. Does(r)'
  BY <1>8, NoneAssumption DEF Idle, Does, Rests, InsertsEntry, PostsDraft, Deletes, Reverses,
     Settles, HasNumber, Operations
<1> QED
  BY <1>3, <1>4, <1>5, <1>8, <1>9, <1>10

\* CommitGroup keeps the invariant.
LEMMA CommitGroupKeeps ==
    ASSUME IInv, NEW r \in Requests, CommitGroup(r)
    PROVE  IInv'
<1>1. /\ acct' \in [Accounts -> [isGroup : BOOLEAN, isActive : BOOLEAN]]
      /\ req' \in [Requests -> Request] /\ Does(r)'
      /\ \A q \in Requests \ {r} : SameRequest(q)
      /\ UNCHANGED <<entry, nextNo, locked, matched, locks>>
  BY CommitGroupDoes
<1>2. L!LocksTypeOK' /\ L!LocksExclusive' /\ \A q \in Requests : locks'[q] = locks[q]
  BY <1>1, LocksStay DEF IInv
<1>3. TypeOK'
  BY <1>1, <1>2 DEF IInv, TypeOK
<1>4. EntriesStay /\ NumbersGapFree' /\ BookedBalance'
  BY <1>1 DEF EntriesStay, IInv, NumbersGapFree, BookedBalance
<1>5. WritesOnly(r, {})
  BY <1>1, <1>2 DEF WritesOnly
<1>6. \A q \in Requests \ {r} : LeavesAlone(q)
  BY <1>5, OthersWait
<1> QED
  BY <1>1, <1>2, <1>3, <1>4, <1>6, StepKeeps

\* A request that goes on or fails keeps the invariant.
LEMMA ProceedKeeps ==
    ASSUME IInv, NEW r \in Requests, Proceed(r) \/ Fail(r)
    PROVE  IInv'
BY LockDraftKeeps, ReadOriginalKeeps, CheckPeriodKeeps, CheckAccountsKeeps, TakeNumberKeeps,
   CommitNewKeeps, CommitPostDraftKeeps, CommitReverseKeeps, CommitDeleteKeeps, CommitGroupKeeps,
   CommitMatchKeeps, RollbackKeeps DEF Proceed, Refuse, Fail

\* The empty journal satisfies the invariant.
LEMMA InitKeeps ==
    ASSUME Init
    PROVE  IInv
<1>1. NoEntry \in Entry
  BY DEF NoEntry, Entry, Kept, Booked
<1>2. L!LocksTypeOK /\ L!LocksExclusive
  BY DEF Init, L!NoLocks, L!LocksTypeOK, L!LocksExclusive
<1>3. TypeOK
  BY <1>1, <1>2, IdleIsRequest, LinesAssumption DEF Init, TypeOK
<1>4. \A r \in Requests : Does(r)
  BY IdleDoes DEF Init
<1>5. NumbersGapFree /\ BookedBalance
  BY LinesAssumption DEF Init, NumbersGapFree, BookedBalance, NoEntry, Numbers, Booked
<1> QED
  BY <1>2, <1>3, <1>4, <1>5 DEF IInv

\* Every step keeps the invariant.
LEMMA NextKeeps ==
    ASSUME IInv, [Next]_vars
    PROVE  IInv'
<1>1. ASSUME NEW r \in Requests, Start(r) \/ Proceed(r) \/ Fail(r) PROVE IInv'
  BY <1>1, StartKeeps, ProceedKeeps
<1>2. ASSUME NEW p \in Periods, SetPeriodLock(p) PROVE IInv'
  BY <1>2, LocksOfPeriods, OnlyLateKeeps
<1>3. ASSUME NEW a \in Accounts, SetAccount(a) PROVE IInv'
  BY <1>3, FlagsOfAccounts, OnlyLateKeeps
<1>4. ASSUME UNCHANGED vars PROVE IInv'
  <2>1. OnlyLate
    BY <1>4 DEF vars, OnlyLate, SameRequest, IInv, TypeOK
  <2> QED
    BY <2>1, OnlyLateKeeps
<1> QED
  BY <1>1, <1>2, <1>3, <1>4 DEF Next

\* The inductive invariant of the general ledger.
THEOREM Invariance == Spec => []IInv
  BY InitKeeps, NextKeeps, PTL DEF Spec

\* Every variable holds rows of its table (Journal.TypeOK).
THEOREM TypeCorrect == Spec => []TypeOK
  BY Invariance, PTL DEF IInv

\* Journal numbers are given out in the order of the commits and without a
\* gap, whatever requests run, fail and delete: numbering.next keeps the
\* sequence row locked until the entry is there.
THEOREM NoGaps == Spec => []NumbersGapFree
  BY Invariance, PTL DEF IInv

-------------------------------------------------------------------------------
(* The trial balance                                                       *)

\* A mirror negates its original, which is marked, and only a request that was
\* overtaken writes a second one.
MirrorsOf(n) ==
    /\ entry[n].status = "none" => entry[n].mirrorOf = 0
    /\ entry[n].status = "reversed" <=> (\E m \in Numbers : entry[m].mirrorOf = n)
                                        /\ entry[n].status # "deleted"
    /\ \A m \in Numbers : entry[m].mirrorOf = n => entry[m].body = Negated(entry[n].body)
    /\ \A m, k \in Numbers \ overtaken : entry[m].mirrorOf = n /\ entry[k].mirrorOf = n => m = k

MirrorInv == \A n \in Numbers : MirrorsOf(n)

WritesEntries(r) == CommitNew(r) \/ CommitPostDraft(r) \/ CommitReverse(r) \/ CommitDelete(r)

\* The steps that write no entry and match no statement line.
LEMMA OtherSteps ==
    ASSUME IInv, [Next]_vars
    PROVE  \/ UNCHANGED <<entry, matched, overtaken>>
           \/ \E r \in Requests : WritesEntries(r) \/ CommitMatch(r)
<1>1. ASSUME NEW r \in Requests, Start(r) PROVE UNCHANGED <<entry, matched, overtaken>>
  BY <1>1 DEF Start, BeginPost, BeginDraft, BeginPostDraft, BeginDelete, BeginReverse, BeginGroup,
     BeginMatch, ReadToMatch, Begin
<1>2. ASSUME NEW r \in Requests,
             LockDraft(r) \/ ReadOriginal(r) \/ CheckPeriod(r) \/ CheckAccounts(r) \/ TakeNumber(r)
             \/ CommitGroup(r) \/ Rollback(r)
      PROVE UNCHANGED <<entry, matched, overtaken>>
  BY <1>2 DEF LockDraft, ReadOriginal, CheckPeriod, CheckAccounts, TakeNumber, CommitGroup, Rollback
<1>3. ASSUME NEW r \in Requests, Proceed(r) \/ Fail(r)
      PROVE  UNCHANGED <<entry, matched, overtaken>> \/ WritesEntries(r) \/ CommitMatch(r)
  BY <1>2, <1>3 DEF Proceed, Refuse, Fail, WritesEntries
<1>4. ASSUME NEW p \in Periods, SetPeriodLock(p) PROVE UNCHANGED <<entry, matched, overtaken>>
  BY <1>4 DEF SetPeriodLock
<1>5. ASSUME NEW a \in Accounts, SetAccount(a) PROVE UNCHANGED <<entry, matched, overtaken>>
  BY <1>5 DEF SetAccount
<1>6. ASSUME UNCHANGED vars PROVE UNCHANGED <<entry, matched, overtaken>>
  BY <1>6 DEF vars
<1> QED
  BY <1>1, <1>3, <1>4, <1>5, <1>6 DEF Next

\* CommitNew keeps reversals the mirrors of their originals.
LEMMA CommitNewKeepsMirrors ==
    ASSUME IInv, MirrorInv, NEW r \in Requests, CommitNew(r)
    PROVE  MirrorInv'
<1>1. PICK row \in Entry :
         /\ row.status \in {"posted", "draft"} /\ row.mirrorOf = 0
         /\ nextNo \in Numbers /\ entry[nextNo].status = "none"
         /\ entry' = [entry EXCEPT ![nextNo] = row]
         /\ overtaken' = overtaken
  BY CommitNewDoes
<1>2. PICK k \in Numbers : k = nextNo
  BY <1>1
<1>3. /\ entry[k].status = "none" /\ entry'[k].status \in {"posted", "draft"}
      /\ entry'[k].mirrorOf = 0
      /\ \A m \in Numbers \ {k} : entry'[m] = entry[m]
  BY <1>1, <1>2 DEF IInv, TypeOK
<1>4. entry[k].mirrorOf = 0 /\ \A m \in Numbers : entry[m].mirrorOf # k
  BY <1>3 DEF MirrorInv, MirrorsOf
<1>5. \A m \in Numbers : entry'[m].mirrorOf = entry[m].mirrorOf
  BY <1>3, <1>4
<1>6. 0 \notin Numbers
  BY DEF Numbers
<1>7. ASSUME NEW n \in Numbers PROVE MirrorsOf(n)'
  <2>1. CASE n = k
    BY <1>3, <1>4, <1>5, <2>1 DEF MirrorsOf
  <2>2. CASE n # k
    <3>1. MirrorsOf(n) /\ entry'[n] = entry[n]
      BY <1>3, <2>2 DEF MirrorInv
    <3>2. \A m \in Numbers : entry'[m].mirrorOf = n => entry'[m] = entry[m]
      BY <1>3, <1>6
    <3> QED
      BY <1>1, <1>5, <3>1, <3>2 DEF MirrorsOf
  <2> QED
    BY <2>1, <2>2
<1> QED
  BY <1>7 DEF MirrorInv

\* CommitPostDraft keeps reversals the mirrors of their originals.
LEMMA CommitPostDraftKeepsMirrors ==
    ASSUME IInv, MirrorInv, NEW r \in Requests, CommitPostDraft(r)
    PROVE  MirrorInv'
<1>1. PICK k \in Numbers :
         /\ entry[k].status = "draft" /\ overtaken' = overtaken
         /\ entry' = [entry EXCEPT ![k] = [entry[k] EXCEPT !.status = "posted"]]
  BY CommitPostDraftDoes
<1>2. entry[k] \in Entry
  BY DEF IInv, TypeOK
<1>3. /\ entry'[k].status = "posted" /\ entry'[k].body = entry[k].body
      /\ entry'[k].mirrorOf = entry[k].mirrorOf
      /\ \A m \in Numbers \ {k} : entry'[m] = entry[m]
  BY <1>1, <1>2 DEF IInv, TypeOK, Entry
<1>4. \A m \in Numbers : entry'[m].mirrorOf = entry[m].mirrorOf /\ entry'[m].body = entry[m].body
  BY <1>3
<1>5. ASSUME NEW n \in Numbers PROVE MirrorsOf(n)'
  BY <1>1, <1>3, <1>4 DEF MirrorInv, MirrorsOf
<1> QED
  BY <1>5 DEF MirrorInv

\* CommitDelete keeps reversals the mirrors of their originals.
LEMMA CommitDeleteKeepsMirrors ==
    ASSUME IInv, MirrorInv, NEW r \in Requests, CommitDelete(r)
    PROVE  MirrorInv'
<1>1. PICK k \in Numbers :
         /\ entry' = [entry EXCEPT ![k] = [entry[k] EXCEPT !.status = "deleted"]]
         /\ overtaken' = IF entry[k].status = "draft" THEN overtaken ELSE overtaken \cup {k}
  BY CommitDeleteDoes
<1>2. entry[k] \in Entry
  BY DEF IInv, TypeOK
<1>3. /\ entry'[k].status = "deleted" /\ entry'[k].body = entry[k].body
      /\ entry'[k].mirrorOf = entry[k].mirrorOf
      /\ \A m \in Numbers \ {k} : entry'[m] = entry[m]
  BY <1>1, <1>2 DEF IInv, TypeOK, Entry
<1>4. \A m \in Numbers : entry'[m].mirrorOf = entry[m].mirrorOf /\ entry'[m].body = entry[m].body
  BY <1>3
<1>5. Numbers \ overtaken' \subseteq Numbers \ overtaken
  BY <1>1
<1>6. ASSUME NEW n \in Numbers PROVE MirrorsOf(n)'
  BY <1>3, <1>4, <1>5 DEF MirrorInv, MirrorsOf
<1> QED
  BY <1>6 DEF MirrorInv

\* CommitReverse keeps reversals the mirrors of their originals.
LEMMA CommitReverseKeepsMirrors ==
    ASSUME IInv, MirrorInv, NEW r \in Requests, CommitReverse(r)
    PROVE  MirrorInv'
<1>1. PICK o \in Numbers, row \in Entry :
             /\ row.status = "posted" /\ row.mirrorOf = o /\ row.body = Negated(entry[o].body)
             /\ nextNo \in Numbers /\ entry[nextNo].status = "none"
             /\ o # nextNo /\ entry[o].status \notin {"none", "draft"}
             /\ entry'[nextNo] = row
             /\ entry'[o] = IF entry[o].status \in Booked THEN [entry[o] EXCEPT !.status = "reversed"]
                                                          ELSE entry[o]
             /\ \A m \in Numbers \ {o, nextNo} : entry'[m] = entry[m]
             /\ overtaken' = IF entry[o].status = "posted" THEN overtaken
                                                           ELSE overtaken \cup {nextNo}
  BY CommitReverseDoes
<1>2. PICK k \in Numbers : k = nextNo
  BY <1>1
<1>3. /\ k # o /\ entry[k].status = "none" /\ entry'[k] = row
      /\ \A m \in Numbers \ {o, k} : entry'[m] = entry[m]
      /\ overtaken' = IF entry[o].status = "posted" THEN overtaken ELSE overtaken \cup {k}
  BY <1>1, <1>2
<1>4. /\ entry'[o].body = entry[o].body /\ entry'[o].mirrorOf = entry[o].mirrorOf
      /\ entry'[o].status \in {"reversed", "deleted"}
      /\ entry[o].status = "deleted" => entry'[o].status = "deleted"
      /\ entry'[o].status # "none"
  BY <1>1 DEF IInv, TypeOK, Entry, Kept, Booked
<1>5. /\ \A m \in Numbers : entry[m].mirrorOf # k
      /\ entry[k].mirrorOf = 0
  BY <1>3 DEF MirrorInv, MirrorsOf
<1>6. /\ entry'[k].mirrorOf = o /\ entry'[k].body = Negated(entry[o].body)
      /\ entry'[k].status = "posted"
      /\ \A m \in Numbers \ {k} : entry'[m].mirrorOf = entry[m].mirrorOf
                                  /\ entry'[m].body = entry[m].body
  BY <1>1, <1>3, <1>4
<1>7. MirrorsOf(o)'
  <2>1. MirrorsOf(o)
    BY DEF MirrorInv
  <2>2. \A m \in Numbers : entry'[m].mirrorOf = o => entry'[m].body = Negated(entry'[o].body)
    BY <1>4, <1>6, <2>1 DEF MirrorsOf
  <2>3. \A m, l \in Numbers \ overtaken' : entry'[m].mirrorOf = o /\ entry'[l].mirrorOf = o => m = l
    <3>1. CASE entry[o].status = "posted"
      <4>1. \A m \in Numbers : entry[m].mirrorOf # o
        BY <2>1, <3>1 DEF MirrorsOf
      <4> QED BY <1>6, <4>1
    <3>2. CASE entry[o].status # "posted"
      <4>1. k \in overtaken' /\ overtaken \subseteq overtaken'
        BY <1>3, <3>2
      <4> QED BY <1>6, <2>1, <4>1 DEF MirrorsOf
    <3> QED BY <3>1, <3>2
  <2> QED
    BY <1>4, <1>6, <2>2, <2>3 DEF MirrorsOf
<1>8. MirrorsOf(k)'
  BY <1>3, <1>5, <1>6 DEF MirrorsOf
<1>9. ASSUME NEW n \in Numbers \ {o, k} PROVE MirrorsOf(n)'
  <2>1. MirrorsOf(n) /\ entry'[n] = entry[n] /\ overtaken \subseteq overtaken'
    BY <1>3 DEF MirrorInv
  <2>2. \A m \in Numbers : (entry'[m].mirrorOf = n) <=> (entry[m].mirrorOf = n)
    <3>1. entry[k].mirrorOf # n
      BY <1>5 DEF Numbers
    <3> QED BY <1>6, <3>1
  <2>3. \A m \in Numbers : entry'[m].mirrorOf = n => entry'[m].body = entry[m].body
    BY <1>6
  <2> QED
    BY <2>1, <2>2, <2>3 DEF MirrorsOf
<1> QED
  BY <1>7, <1>8, <1>9 DEF MirrorInv

\* The empty journal holds no reversal.
LEMMA InitMirrors ==
    ASSUME Init
    PROVE  MirrorInv
  BY DEF Init, NoEntry, MirrorInv, MirrorsOf, Numbers

\* Every step keeps each reversal the mirror of its original.
LEMMA NextMirrors ==
    ASSUME IInv, MirrorInv, [Next]_vars
    PROVE  MirrorInv'
<1>1. ASSUME entry' = entry, overtaken \subseteq overtaken' PROVE MirrorInv'
  BY <1>1 DEF MirrorInv, MirrorsOf
<1>2. ASSUME NEW r \in Requests, CommitMatch(r) PROVE MirrorInv'
  BY <1>1, <1>2, CommitMatchDoes
<1> QED
  BY <1>1, <1>2, OtherSteps, CommitNewKeepsMirrors, CommitPostDraftKeepsMirrors,
     CommitReverseKeepsMirrors, CommitDeleteKeepsMirrors DEF WritesEntries

\* What MirrorsOf says of single mirrors, in terms of the set of them.
LEMMA MirrorsBalance ==
    ASSUME IInv, MirrorInv
    PROVE  TrialBalance
<1> SUFFICES ASSUME NEW n \in Numbers
             PROVE  /\ entry[n].status \in Booked => Total(entry[n].body) = 0
                    /\ entry[n].status = "reversed" <=> Mirrors(n) # {} /\ entry[n].status # "deleted"
                    /\ \A m \in Mirrors(n) : entry[m].body = Negated(entry[n].body)
                    /\ Cardinality(Mirrors(n) \ overtaken) <= 1
  BY DEF TrialBalance
<1>1. MirrorsOf(n)
  BY DEF MirrorInv
<1>2. entry[n].status \in Booked => Total(entry[n].body) = 0
  BY DEF IInv, BookedBalance
<1>3. /\ entry[n].status = "reversed" <=> Mirrors(n) # {} /\ entry[n].status # "deleted"
      /\ \A m \in Mirrors(n) : entry[m].body = Negated(entry[n].body)
  BY <1>1 DEF MirrorsOf, Mirrors
<1>4. Cardinality(Mirrors(n) \ overtaken) <= 1
  <2>1. PICK M : M = Mirrors(n) \ overtaken
    OBVIOUS
  <2>2. \A m, k \in M : m = k
    BY <1>1, <2>1 DEF MirrorsOf, Mirrors
  <2>3. Cardinality(M) \in {0, 1}
    <3>1. CASE M = {}
      BY <3>1, FS_EmptySet
    <3>2. CASE M # {}
      <4>1. PICK m : M = {m}
        BY <2>2, <3>2
      <4>2. Cardinality({m}) = 1
        BY FS_Singleton
      <4> QED BY <4>1, <4>2
    <3> QED BY <3>1, <3>2
  <2> QED BY <2>1, <2>3
<1> QED
  BY <1>2, <1>3, <1>4

\* The trial balance balances at every moment: what is booked balances, a
\* mirror negates an original that is marked, a marked entry has a mirror,
\* and only a request that was overtaken writes a second one.
THEOREM BooksBalance == Spec => []TrialBalance
<1>1. Spec => []MirrorInv
  BY Invariance, InitMirrors, NextMirrors, PTL DEF Spec
<1> QED
  BY <1>1, Invariance, MirrorsBalance, PTL

-------------------------------------------------------------------------------
(* The bank statement                                                      *)

\* A matched line stays, and says what the statement line says.
Rightly(s) == matched[s] # None => Matchable(s, matched[s][1], matched[s][2])

MatchInv ==
    /\ \A s, q \in Statement \ overtaken :
          s # q /\ matched[s] # None => matched[s] # matched[q]
    /\ \A s \in Statement : Rightly(s)

\* What a commit that writes entries leaves of them and of the statement.
LEMMA EntriesKept ==
    ASSUME IInv, NEW r \in Requests, WritesEntries(r)
    PROVE  /\ matched' = matched /\ overtaken \subseteq overtaken'
           /\ \A n \in Numbers : entry[n].status \in Kept /\ Referenced(n)
                 => entry'[n].body = entry[n].body /\ entry'[n].status \in Kept
<1>0. entry \in [Numbers -> Entry]
  BY DEF IInv, TypeOK
<1>1. CASE CommitNew(r)
  <2>1. PICK row \in Entry :
          /\ nextNo \in Numbers /\ entry[nextNo].status = "none"
          /\ entry' = [entry EXCEPT ![nextNo] = row]
          /\ UNCHANGED <<matched, overtaken>>
    BY <1>1, CommitNewDoes
  <2> QED
    BY <1>0, <2>1 DEF Kept, Booked
<1>2. CASE CommitPostDraft(r)
  <2>1. PICK k \in Numbers :
          /\ entry' = [entry EXCEPT ![k] = [entry[k] EXCEPT !.status = "posted"]]
          /\ UNCHANGED <<matched, overtaken>>
    BY <1>2, CommitPostDraftDoes
  <2> QED
    BY <1>0, <2>1 DEF Kept, Booked, Entry
<1>3. CASE CommitReverse(r)
  <2>1. PICK o \in Numbers, row \in Entry :
          /\ nextNo \in Numbers /\ entry[nextNo].status = "none" /\ o # nextNo
          /\ entry'[o] = IF entry[o].status \in Booked THEN [entry[o] EXCEPT !.status = "reversed"]
                                                       ELSE entry[o]
          /\ \A m \in Numbers \ {o, nextNo} : entry'[m] = entry[m]
          /\ overtaken' = IF entry[o].status = "posted" THEN overtaken ELSE overtaken \cup {nextNo}
          /\ matched' = matched
    BY <1>3, CommitReverseDoes
  <2> QED
    BY <1>0, <2>1 DEF Kept, Booked, Entry
<1>4. CASE CommitDelete(r)
  <2>1. PICK k \in Numbers :
          /\ ~Referenced(k)
          /\ entry' = [entry EXCEPT ![k] = [entry[k] EXCEPT !.status = "deleted"]]
          /\ overtaken' = IF entry[k].status = "draft" THEN overtaken ELSE overtaken \cup {k}
          /\ matched' = matched
    BY <1>4, CommitDeleteDoes
  <2> QED
    BY <1>0, <2>1 DEF Kept, Booked, Entry
<1> QED
  BY <1>1, <1>2, <1>3, <1>4 DEF WritesEntries

\* Writing an entry unmatches nothing and gives no line a second match.
LEMMA CommitsKeepMatches ==
    ASSUME IInv, MatchInv, NEW r \in Requests, WritesEntries(r)
    PROVE  MatchInv'
<1>1. matched' = matched /\ overtaken \subseteq overtaken'
  BY EntriesKept
<1>2. ASSUME NEW s \in Statement PROVE Rightly(s)'
  <2>1. SUFFICES ASSUME matched[s] # None PROVE Matchable(s, matched[s][1], matched[s][2])'
    BY <1>1 DEF Rightly
  <2>2. PICK n \in Numbers, i \in Nat : matched[s] = <<n, i>>
    BY <2>1 DEF IInv, TypeOK
  <2>3. Matchable(s, n, i) /\ Referenced(n)
    BY <2>1, <2>2 DEF MatchInv, Rightly, Referenced
  <2>4. entry'[n].body = entry[n].body /\ entry'[n].status \in Kept
    BY <2>3, EntriesKept DEF Matchable
  <2>5. Matchable(s, n, i)'
    BY <2>3, <2>4 DEF Matchable
  <2> QED
    BY <1>1, <2>2, <2>5 DEF Matchable
<1> QED
  BY <1>1, <1>2 DEF MatchInv

\* A match is made only where neither side is matched, unless another match overtook it.
LEMMA CommitMatchKeepsMatches ==
    ASSUME IInv, MatchInv, NEW r \in Requests, CommitMatch(r)
    PROVE  MatchInv'
<1>1. PICK s \in Statement, n \in Numbers, i \in Nat :
             /\ entry[n].status \in Kept /\ i \in DOMAIN entry[n].body
             /\ entry[n].body[i] = [account |-> BankAccount, amount |-> Amount[s]]
             /\ \/ /\ matched[s] = None
                   /\ matched' = [matched EXCEPT ![s] = <<n, i>>]
                   /\ overtaken' = IF Claimants(<<n, i>>) = {} THEN overtaken
                                                               ELSE overtaken \cup {s}
                \/ UNCHANGED <<matched, overtaken>>
             /\ entry' = entry
  BY CommitMatchDoes
<1>2. CASE UNCHANGED <<matched, overtaken>>
  BY <1>1, <1>2 DEF MatchInv, Rightly, Matchable
<1>3. CASE /\ matched' = [matched EXCEPT ![s] = <<n, i>>]
           /\ overtaken' = IF Claimants(<<n, i>>) = {} THEN overtaken ELSE overtaken \cup {s}
  <2>1. PICK line : line = <<n, i>>
    OBVIOUS
  <2>2. /\ matched'[s] = line /\ \A q \in Statement \ {s} : matched'[q] = matched[q]
        /\ line[1] = n /\ line[2] = i
    BY <1>3, <2>1 DEF IInv, TypeOK
  <2>3. Matchable(s, n, i)
    BY <1>1 DEF Matchable
  <2>4. Rightly(s)'
    BY <1>1, <2>2, <2>3 DEF Rightly, Matchable
  <2>5. \A q \in Statement \ {s} : Rightly(q)'
    BY <1>1, <2>2 DEF MatchInv, Rightly, Matchable
  <2>6. s \in Statement \ overtaken' => \A q \in Statement : matched[q] # line
    BY <1>3, <2>1 DEF Claimants
  <2>7. overtaken \subseteq overtaken'
    BY <1>3
  <2>8. \A q, t \in Statement \ overtaken' : q # t /\ matched'[q] # None => matched'[q] # matched'[t]
    BY <2>2, <2>6, <2>7 DEF MatchInv
  <2> QED
    BY <2>4, <2>5, <2>8 DEF MatchInv
<1> QED
  BY <1>1, <1>2, <1>3

\* Every step keeps matched lines matched once.
LEMMA NextMatches ==
    ASSUME IInv, MatchInv, [Next]_vars
    PROVE  MatchInv'
<1>1. ASSUME UNCHANGED <<entry, matched, overtaken>> PROVE MatchInv'
  BY <1>1 DEF MatchInv, Rightly, Matchable
<1> QED
  BY <1>1, OtherSteps, CommitsKeepMatches, CommitMatchKeepsMatches

\* At first nothing is matched.
LEMMA InitMatches ==
    ASSUME Init
    PROVE  MatchInv
  BY DEF Init, MatchInv, Rightly

-------------------------------------------------------------------------------
(* The reconciliation                                                      *)

\* The lines of the bank account are finitely many, and their amounts are whole.
LEMMA BankLinesAre ==
    ASSUME IInv
    PROVE  /\ IsFiniteSet(BankLines) /\ BankLines \subseteq Numbers \X Nat
           /\ \A l \in BankLines : entry[l[1]].body[l[2]].amount \in Int
<1> DEFINE Known == {n \in Numbers : entry[n].status \in Booked}
           Of(n) == {n} \X {i \in DOMAIN entry[n].body : entry[n].body[i].account = BankAccount}
           f == [n \in Known |-> Of(n)]
<1>1. ASSUME NEW n \in Numbers
      PROVE  /\ IsFiniteSet(DOMAIN entry[n].body) /\ DOMAIN entry[n].body \subseteq Nat
             /\ \A i \in DOMAIN entry[n].body : entry[n].body[i].amount \in Int
  <2>1. entry[n].body \in AllBodies \cup {<<>>}
    BY DEF IInv, TypeOK, Entry
  <2> QED
    BY <2>1, BodyShape DEF Line
<1>2. BankLines = UNION {Of(n) : n \in Known}
  BY DEF BankLines
<1>3. ASSUME NEW n \in Known PROVE IsFiniteSet(Of(n))
  <2>1. PICK D : D = {i \in DOMAIN entry[n].body : entry[n].body[i].account = BankAccount}
    OBVIOUS
  <2>2. IsFiniteSet(D)
    BY <1>1, <2>1, FS_Subset
  <2>3. IsFiniteSet({n})
    BY FS_Singleton
  <2>4. IsFiniteSet({n} \X D)
    BY <2>2, <2>3, FS_Product
  <2> QED
    BY <2>1, <2>4
<1>4. IsFiniteSet(Known)
  <2>1. IsFiniteSet(1..MaxNo)
    BY LinesAssumption, FS_Interval
  <2> QED
    BY <2>1, FS_Subset DEF Numbers
<1>5. PICK All : All = {Of(n) : n \in Known}
  OBVIOUS
<1>6. f \in Surjection(Known, All)
  BY <1>5 DEF Surjection
<1>7. IsFiniteSet(All) /\ \A T \in All : IsFiniteSet(T)
  <2> HIDE DEF f, Known
  <2>1. IsFiniteSet(All)
    BY <1>4, <1>6, FS_Surjection
  <2>2. \A T \in All : IsFiniteSet(T)
    BY <1>3, <1>5
  <2> QED BY <2>1, <2>2
<1>8. IsFiniteSet(BankLines)
  BY <1>2, <1>5, <1>7, FS_UNION
<1>9. \A l \in BankLines : l[1] \in Numbers /\ l[2] \in DOMAIN entry[l[1]].body /\ l = <<l[1], l[2]>>
  BY DEF BankLines
<1> QED
  BY <1>1, <1>8, <1>9

\* Each matched ledger line counts for one statement line, and says the same.
LEMMA ReconciliationComesOut ==
    ASSUME IInv, MatchInv, Statement \cap overtaken = {},
           \A s \in Statement : matched[s] \in BankLines \cup {None}
    PROVE  ExpectedStatementBalance = Reconciled
<1>1. PICK B : B = BankLines
  OBVIOUS
<1>2. /\ IsFiniteSet(B) /\ B \subseteq Numbers \X Nat /\ None \notin B
      /\ \A l \in B : entry[l[1]].body[l[2]].amount \in Int
  BY <1>1, BankLinesAre, NoneAssumption
<1>3. PICK f \in [B -> Int] : f = [l \in B |-> entry[l[1]].body[l[2]].amount]
  BY <1>2
<1>4. PICK M \in SUBSET B : M = B \cap {matched[s] : s \in Statement}
  OBVIOUS
<1>5. PICK S \in SUBSET Statement : S = {s \in Statement : matched[s] # None}
  OBVIOUS
<1>6. \A s \in S : matched[s] \in M /\ f[matched[s]] = Amount[s]
  <2> TAKE s \in S
  <2>1. matched[s] \in M
    BY <1>1, <1>4, <1>5
  <2>2. Matchable(s, matched[s][1], matched[s][2])
    BY <1>5 DEF MatchInv, Rightly
  <2>3. entry[matched[s][1]].body[matched[s][2]].amount = Amount[s]
    BY <2>2 DEF Matchable
  <2>4. f[matched[s]] = entry[matched[s][1]].body[matched[s][2]].amount
    BY <1>3, <1>4, <2>1
  <2> QED
    BY <2>1, <2>3, <2>4
<1>7. PICK h \in [S -> M] : h = [s \in S |-> matched[s]]
  BY <1>6
<1>8. \A s, q \in S : h[s] = h[q] => s = q
  <2>1. \A s \in S : s \in Statement \ overtaken /\ matched[s] # None
    BY <1>5
  <2> QED
    BY <1>7, <2>1 DEF MatchInv
<1>9. \A l \in M : \E s \in S : h[s] = l
  BY <1>2, <1>4, <1>5, <1>7
<1>10. PICK g \in [S -> Int] : g = [s \in S |-> Amount[s]]
  BY LinesAssumption
<1>11. PICK m \in [M -> Int] : m = Restrict(f, M)
  BY DEF Restrict
<1>12. IsFiniteSet(M) /\ IsFiniteSet(S) /\ IsFiniteSet(Statement)
  BY <1>2, <1>4, <1>5, LinesAssumption, FS_Subset
<1>13. \A s \in S : g[s] = m[h[s]]
  <2>1. \A l \in M : m[l] = f[l]
    BY <1>11 DEF Restrict
  <2> QED
    BY <1>6, <1>7, <1>10, <2>1
<1>14. SumOver(g) = SumOver(m)
  BY ONLY <1>8, <1>9, <1>12, <1>13, SumReindexes
<1>15. SumOver(f) = SumOver(m) + SumOver(Restrict(f, B \ M))
  BY <1>2, <1>11, SumParts
<1>16. Reconciled = SumOver(g)
  <2>1. PICK c \in [Statement -> Int] : c = [s \in Statement |-> IF matched[s] # None THEN Amount[s] ELSE 0]
    <3>1. [s \in Statement |-> IF matched[s] # None THEN Amount[s] ELSE 0] \in [Statement -> Int]
      BY LinesAssumption
    <3> QED BY <3>1
  <2>2. \A s \in Statement \ S : c[s] = 0
    <3>1. \A s \in Statement \ S : matched[s] = None
      BY <1>5
    <3> QED BY <2>1, <3>1
  <2>3. Restrict(c, S) = g
    BY <1>5, <1>10, <2>1 DEF Restrict
  <2>4. SumOver(c) = SumOver(Restrict(c, S))
    BY <1>12, <2>2, SumOfSome
  <2> QED
    BY <2>1, <2>3, <2>4 DEF Reconciled
<1>17. BookBalance(BankLines) = SumOver(f)
  BY <1>1, <1>3 DEF BookBalance
<1>18. BookBalance(BankLines \ {matched[s] : s \in Statement}) = SumOver(Restrict(f, B \ M))
  <2>1. BankLines \ {matched[s] : s \in Statement} = B \ M
    BY <1>1, <1>4
  <2>2. Restrict(f, B \ M) = [l \in B \ M |-> entry[l[1]].body[l[2]].amount]
    BY <1>3 DEF Restrict
  <2> QED
    BY <2>1, <2>2 DEF BookBalance
<1>19. SumOver(m) \in Int /\ SumOver(Restrict(f, B \ M)) \in Int
  <2>1. Restrict(f, B \ M) \in [B \ M -> Int] /\ IsFiniteSet(B \ M)
    BY <1>2, FS_Subset DEF Restrict
  <2> QED
    BY <1>12, <2>1, SumIsInt
<1> QED
  BY <1>14, <1>15, <1>16, <1>17, <1>18, <1>19 DEF ExpectedStatementBalance

\* What is reconciled is counted once, a matched line never goes or changes,
\* and the reconciliation comes out even once what is matched is booked.
THEOREM Reconciles == Spec => []MatchedOnce
<1>1. Spec => []MatchInv
  BY Invariance, InitMatches, NextMatches, PTL DEF Spec
<1>2. IInv /\ MatchInv => MatchedOnce
  <2> HAVE IInv /\ MatchInv
  <2> QED
    BY ReconciliationComesOut DEF MatchedOnce, MatchInv, Rightly
<1> QED
  BY <1>1, <1>2, Invariance, PTL

-------------------------------------------------------------------------------
(* The checks of a posting                                                 *)

\* A request that has found its period open and its accounts usable would find
\* them so now, unless it is late.
Checked(r) ==
    Posts(r) /\ ~req[r].late =>
        /\ req[r].step \in {"accounts", "number", "commit"} => req[r].row.period \notin locked
        /\ req[r].step \in {"number", "commit"} => Postable(req[r].row.body)

CheckedInv == \A r \in Requests : Checked(r)

\* The accounts of a request's row are accounts there are.
LEMMA RowsAccounts ==
    ASSUME IInv, NEW r \in Requests, Posts(r), req[r].step \in {"accounts", "number", "commit"}
    PROVE  AccountsOf(req[r].row.body) \subseteq Accounts
<1>1. req[r].row \in Entry
  BY DEF Posts, IInv, TypeOK, Does, InsertsEntry, PostsDraft, Reverses, Entry, Kept, Booked
<1>2. req[r].row.body \in AllBodies \cup {<<>>}
  BY <1>1 DEF Entry
<1>3. \A i \in DOMAIN req[r].row.body : req[r].row.body[i] \in Line
  BY <1>2, BodyShape
<1> QED
  BY <1>3 DEF AccountsOf, Line

\* A step of r changes nothing that the others have checked.
LEMMA OwnStepKeepsChecked ==
    ASSUME IInv, CheckedInv, NEW r \in Requests, UNCHANGED <<locked, acct>>,
           \A q \in Requests \ {r} : req'[q] = req[q], Checked(r)'
    PROVE  CheckedInv'
  BY DEF CheckedInv, Checked, Posts, Postable

Unchecked(asked) ==
    asked.op \in {"post", "postDraft", "reverse"} => asked.step \in {"entry", "period"}

\* A request that begins has checked nothing.
LEMMA StartKeepsChecked ==
    ASSUME IInv, CheckedInv, NEW r \in Requests, Start(r)
    PROVE  CheckedInv'
<1>1. PICK asked : Begin(r, asked) /\ Unchecked(asked)
  <2>1. ASSUME NEW body \in Bodies, NEW p \in Periods, BeginPost(r, body, p)
        PROVE  \E asked : Begin(r, asked) /\ Unchecked(asked)
    <3>1. PICK asked : asked = [Idle EXCEPT !.op = "post", !.step = "period", !.row = NewEntry("posted", body, p, 0)]
      OBVIOUS
    <3>2. Begin(r, asked)
      BY <2>1, <3>1 DEF BeginPost
    <3>3. Unchecked(asked)
      BY <3>1 DEF Unchecked, Idle
    <3> QED BY <3>2, <3>3
  <2>2. ASSUME NEW body \in Bodies, NEW p \in Periods, BeginDraft(r, body, p)
        PROVE  \E asked : Begin(r, asked) /\ Unchecked(asked)
    <3>1. PICK asked : asked = [Idle EXCEPT !.op = "draft", !.step = "number", !.row = NewEntry("draft", body, p, 0)]
      OBVIOUS
    <3>2. Begin(r, asked)
      BY <2>2, <3>1 DEF BeginDraft
    <3>3. Unchecked(asked)
      BY <3>1 DEF Unchecked, Idle
    <3> QED BY <3>2, <3>3
  <2>3. ASSUME NEW n \in Numbers, BeginPostDraft(r, n)
        PROVE  \E asked : Begin(r, asked) /\ Unchecked(asked)
    <3>1. PICK asked : asked = [Idle EXCEPT !.op = "postDraft", !.step = "entry", !.on = n]
      OBVIOUS
    <3>2. Begin(r, asked)
      BY <2>3, <3>1 DEF BeginPostDraft
    <3>3. Unchecked(asked)
      BY <3>1 DEF Unchecked, Idle
    <3> QED BY <3>2, <3>3
  <2>4. ASSUME NEW n \in Numbers, BeginDelete(r, n)
        PROVE  \E asked : Begin(r, asked) /\ Unchecked(asked)
    <3>1. PICK asked : asked = [Idle EXCEPT !.op = "delete", !.step = "commit", !.on = n, !.was = entry[n].status]
      OBVIOUS
    <3>2. Begin(r, asked)
      BY <2>4, <3>1 DEF BeginDelete
    <3>3. Unchecked(asked)
      BY <3>1 DEF Unchecked, Idle
    <3> QED BY <3>2, <3>3
  <2>5. ASSUME NEW n \in Numbers, NEW p \in Periods, BeginReverse(r, n, p)
        PROVE  \E asked : Begin(r, asked) /\ Unchecked(asked)
    <3>1. PICK asked : asked = [Idle EXCEPT !.op = "reverse", !.step = "entry", !.on = n, !.row = NewEntry("posted", <<>>, p, n)]
      OBVIOUS
    <3>2. Begin(r, asked)
      BY <2>5, <3>1 DEF BeginReverse
    <3>3. Unchecked(asked)
      BY <3>1 DEF Unchecked, Idle
    <3> QED BY <3>2, <3>3
  <2>6. ASSUME NEW a \in Accounts, BeginGroup(r, a)
        PROVE  \E asked : Begin(r, asked) /\ Unchecked(asked)
    <3>1. PICK asked : asked = [Idle EXCEPT !.op = "group", !.step = "commit", !.on = a]
      OBVIOUS
    <3>2. Begin(r, asked)
      BY <2>6, <3>1 DEF BeginGroup
    <3>3. Unchecked(asked)
      BY <3>1 DEF Unchecked, Idle
    <3> QED BY <3>2, <3>3
  <2>7. ASSUME NEW s \in Statement, NEW n \in Numbers,
             NEW i \in DOMAIN entry[n].body, BeginMatch(r, s, n, i)
        PROVE  \E asked : Begin(r, asked) /\ Unchecked(asked)
    <3>1. PICK asked : asked = [Idle EXCEPT !.op = "match", !.step = "commit", !.on = s, !.line = <<n, i>>,
                                          !.rivals = Claimants(<<n, i>>)]
      OBVIOUS
    <3>2. Begin(r, asked)
      BY <2>7, <3>1 DEF BeginMatch, ReadToMatch
    <3>3. Unchecked(asked)
      BY <3>1 DEF Unchecked, Idle
    <3> QED BY <3>2, <3>3
  <2> QED
    BY <2>1, <2>2, <2>3, <2>4, <2>5, <2>6, <2>7 DEF Start
<1>2. UNCHANGED <<locked, acct>> /\ req'[r] = asked /\ \A q \in Requests \ {r} : req'[q] = req[q]
  BY <1>1 DEF Begin, IInv, TypeOK
<1>3. Checked(r)'
  BY <1>1, <1>2 DEF Checked, Posts, Unchecked
<1> QED
  BY <1>2, <1>3, OwnStepKeepsChecked

\* A request that only locks or reads has checked nothing that could go stale.
LEMMA ReadsKeepChecked ==
    ASSUME IInv, CheckedInv, NEW r \in Requests, LockDraft(r) \/ ReadOriginal(r)
    PROVE  CheckedInv'
<1>1. /\ UNCHANGED <<locked, acct>> /\ req'[r].step = "period"
      /\ \A q \in Requests \ {r} : req'[q] = req[q]
  BY DEF LockDraft, ReadOriginal, IInv, TypeOK, Request
<1>2. Checked(r)'
  BY <1>1 DEF Checked
<1> QED
  BY <1>1, <1>2, OwnStepKeepsChecked

\* Each check is true when it is made.
LEMMA StepsKeepChecked ==
    ASSUME IInv, CheckedInv, NEW r \in Requests, CheckPeriod(r) \/ CheckAccounts(r) \/ TakeNumber(r)
    PROVE  CheckedInv'
<1>1. PICK step \in Steps : Goto(r, step)
  BY DEF CheckPeriod, CheckAccounts, TakeNumber, Steps
<1>2. /\ UNCHANGED <<locked, acct>> /\ req'[r].step = step /\ req'[r].op = req[r].op
      /\ req'[r].row = req[r].row /\ req'[r].late = req[r].late /\ req'[r] \in Request
      /\ \A q \in Requests \ {r} : req'[q] = req[q]
  <2>1. \A q \in Requests \ {r} : req'[q] = req[q]
    BY <1>1 DEF Goto, IInv, TypeOK
  <2>2. UNCHANGED <<locked, acct>>
    BY DEF CheckPeriod, CheckAccounts, TakeNumber
  <2> QED BY <1>1, <2>1, <2>2, Gone DEF IInv
<1>3. Checked(r)
  BY DEF CheckedInv
<1>4. CASE CheckPeriod(r)
  <2>1. req[r].row.period \notin locked /\ step = "accounts"
    BY <1>2, <1>4 DEF CheckPeriod, Goto, IInv, TypeOK, Request
  <2>2. Checked(r)'
    BY <1>2, <2>1 DEF Checked
  <2> QED BY <1>2, <2>2, OwnStepKeepsChecked
<1>5. CASE CheckAccounts(r)
  <2>1. Postable(req[r].row.body) /\ req[r].step = "accounts"
    BY <1>5 DEF CheckAccounts
  <2>2. Postable(req[r].row.body)'
    BY <1>2, <2>1 DEF Postable
  <2>3. Checked(r)'
    BY <1>2, <1>3, <2>1, <2>2 DEF Checked, Posts, Postable
  <2> QED BY <1>2, <2>3, OwnStepKeepsChecked
<1>6. CASE TakeNumber(r)
  <2>1. req[r].step = "number"
    BY <1>6 DEF TakeNumber
  <2>2. Checked(r)'
    BY <1>2, <1>3, <2>1 DEF Checked, Posts, Postable
  <2> QED BY <1>2, <2>2, OwnStepKeepsChecked
<1> QED
  BY <1>4, <1>5, <1>6

\* A request that ends drops what it checked; the others keep theirs.
LEMMA EndsKeepChecked ==
    ASSUME IInv, CheckedInv, NEW r \in Requests,
           WritesEntries(r) \/ CommitMatch(r) \/ Rollback(r)
    PROVE  CheckedInv'
<1>1. UNCHANGED <<locked, acct>> /\ req' = [req EXCEPT ![r] = Idle]
  BY DEF WritesEntries, CommitNew, CommitPostDraft, CommitReverse, CommitDelete, CommitMatch, Commit,
     Rollback
<1>2. req'[r] = Idle /\ \A q \in Requests \ {r} : req'[q] = req[q]
  BY <1>1 DEF IInv, TypeOK
<1>3. Checked(r)'
  BY <1>2, NoneAssumption DEF Checked, Posts, Idle, Operations
<1> QED
  BY <1>1, <1>2, <1>3, OwnStepKeepsChecked

\* Nothing a request has checked changes unless it is late from now on.
LEMMA OvertakenIsLate ==
    ASSUME IInv, NEW q \in Requests, Checked(q), SameRequest(q), req'[q] \in Request,
           ~req'[q].late => ~req[q].late,
           \A p \in locked' \ locked : q \in PastPeriod(p) => req'[q].late,
           \A a \in Accounts : ~acct[a].isGroup /\ acct[a].isActive =>
               \/ ~acct'[a].isGroup /\ acct'[a].isActive
               \/ q \in PastAccount(a) => req'[q].late
    PROVE  Checked(q)'
<1> SUFFICES ASSUME Posts(q), ~req'[q].late
             PROVE  /\ req[q].step \in {"accounts", "number", "commit"} => req[q].row.period \notin locked'
                    /\ req[q].step \in {"number", "commit"} => Postable(req[q].row.body)'
  BY DEF Checked, Posts, SameRequest, Postable
<1>1. ASSUME req[q].step \in {"accounts", "number", "commit"} PROVE req[q].row.period \notin locked'
  BY <1>1 DEF Checked, PastPeriod, Past, Posts
<1>2. ASSUME req[q].step \in {"number", "commit"} PROVE Postable(req[q].row.body)'
  <2>1. AccountsOf(req[q].row.body) \subseteq Accounts /\ Postable(req[q].row.body)
    BY <1>2, RowsAccounts DEF Checked
  <2>2. \A a \in AccountsOf(req[q].row.body) : ~acct'[a].isGroup /\ acct'[a].isActive
    BY <1>2, <2>1 DEF PastAccount, Past, Posts, Postable
  <2>3. AccountsOf(req[q].row.body)' = AccountsOf(req'[q].row.body)
    BY DEF AccountsOf
  <2> QED
    BY <2>2, <2>3 DEF Postable, SameRequest
<1> QED
  BY <1>1, <1>2

\* A period's flag overtakes exactly those that had checked it.
LEMMA LocksKeepChecked ==
    ASSUME IInv, CheckedInv, NEW p \in Periods, SetPeriodLock(p)
    PROVE  CheckedInv'
<1>1. OnlyLate /\ acct' = acct
  BY LocksOfPeriods DEF SetPeriodLock
<1>2. ASSUME NEW q \in Requests PROVE Checked(q)'
  <2>1. SameRequest(q) /\ req'[q] \in Request /\ Checked(q)
    BY <1>1 DEF OnlyLate, CheckedInv
  <2>2. CASE locked' \subseteq locked /\ req' = req
    BY <1>1, <2>1, <2>2, OvertakenIsLate
  <2>3. CASE locked' = locked \cup {p} /\ req' = Overtaken(PastPeriod(p))
    <3>1. PICK passed : passed = PastPeriod(p)
      OBVIOUS
    <3>2. req'[q].late = (req[q].late \/ q \in PastPeriod(p))
      BY <2>3, <3>1, OvertakenIs DEF IInv
    <3> QED
      BY <1>1, <2>1, <2>3, <3>2, OvertakenIsLate
  <2> QED
    BY <2>2, <2>3 DEF SetPeriodLock
<1> QED
  BY <1>2 DEF CheckedInv

\* An account's flag overtakes exactly those that had checked it.
LEMMA FlagsKeepChecked ==
    ASSUME IInv, CheckedInv, NEW a \in Accounts, SetAccount(a)
    PROVE  CheckedInv'
<1>1. OnlyLate /\ locked' = locked
  BY FlagsOfAccounts DEF SetAccount
<1>2. ASSUME NEW q \in Requests PROVE Checked(q)'
  <2>1. SameRequest(q) /\ req'[q] \in Request /\ Checked(q)
    BY <1>1 DEF OnlyLate, CheckedInv
  <2>2. CASE req' = req /\ (acct' = [acct EXCEPT ![a].isActive = TRUE]
                            \/ acct' = [acct EXCEPT ![a].isGroup = FALSE])
    <3>1. \A b \in Accounts : ~acct[b].isGroup /\ acct[b].isActive =>
                                  ~acct'[b].isGroup /\ acct'[b].isActive
      BY <2>2 DEF IInv, TypeOK
    <3> QED
      BY <1>1, <2>1, <2>2, <3>1, OvertakenIsLate
  <2>3. CASE acct' = [acct EXCEPT ![a].isActive = FALSE] /\ req' = Overtaken(PastAccount(a))
    <3>1. PICK passed : passed = PastAccount(a)
      OBVIOUS
    <3>2. req'[q].late = (req[q].late \/ q \in PastAccount(a))
      BY <2>3, <3>1, OvertakenIs DEF IInv
    <3>3. \A b \in Accounts \ {a} : acct'[b] = acct[b]
      BY <2>3 DEF IInv, TypeOK
    <3> QED
      BY <1>1, <2>1, <3>2, <3>3, OvertakenIsLate
  <2> QED
    BY <2>2, <2>3 DEF SetAccount
<1> QED
  BY <1>2 DEF CheckedInv

\* An account that becomes a group overtakes exactly those that had checked it.
LEMMA GroupsKeepChecked ==
    ASSUME IInv, CheckedInv, NEW r \in Requests, CommitGroup(r)
    PROVE  CheckedInv'
<1>1. PICK a \in Accounts :
             /\ acct' = [acct EXCEPT ![a].isGroup = TRUE] /\ locked' = locked
             /\ req' \in [Requests -> Request] /\ req'[r] = Idle
             /\ \A q \in Requests \ {r} : /\ SameRequest(q)
                                          /\ req'[q].late = (req[q].late \/ q \in PastAccount(a))
  BY CommitGroupDoes
<1>2. Checked(r)'
  BY <1>1, NoneAssumption DEF Checked, Posts, Idle, Operations
<1>3. \A b \in Accounts \ {a} : acct'[b] = acct[b]
  BY <1>1 DEF IInv, TypeOK
<1>4. ASSUME NEW q \in Requests \ {r} PROVE Checked(q)'
  <2>1. /\ SameRequest(q) /\ req'[q] \in Request /\ Checked(q)
        /\ req'[q].late = (req[q].late \/ q \in PastAccount(a))
    BY <1>1 DEF CheckedInv
  <2> QED
    BY <1>1, <1>3, <2>1, OvertakenIsLate
<1> QED
  BY <1>2, <1>4 DEF CheckedInv

\* At first no request has checked anything.
LEMMA InitChecked ==
    ASSUME Init
    PROVE  CheckedInv
  BY NoneAssumption DEF Init, CheckedInv, Checked, Posts, Idle, Operations

\* Every step keeps what was checked true, or marks who was overtaken.
LEMMA NextChecked ==
    ASSUME IInv, CheckedInv, [Next]_vars
    PROVE  CheckedInv'
<1>1. ASSUME NEW r \in Requests, Start(r) \/ Proceed(r) \/ Fail(r) PROVE CheckedInv'
  BY <1>1, StartKeepsChecked, ReadsKeepChecked, StepsKeepChecked, EndsKeepChecked, GroupsKeepChecked
     DEF Proceed, Refuse, Fail, WritesEntries
<1>2. ASSUME UNCHANGED vars PROVE CheckedInv'
  BY <1>2 DEF vars, CheckedInv, Checked, Posts, Postable
<1> QED
  BY <1>1, <1>2, LocksKeepChecked, FlagsKeepChecked DEF Next

\* Who books an entry has made both checks, or is late.
LEMMA BooksCheckedOnly ==
    ASSUME IInv, CheckedInv, [Next]_vars, NEW n \in Numbers,
           entry[n].status \notin Booked, entry'[n].status \in Booked
    PROVE  \/ entry'[n].period \notin locked /\ Postable(entry'[n].body)
           \/ \E r \in Requests : req[r].late /\ req[r].step = "commit" /\ req'[r] = Idle
<1>0. entry \in [Numbers -> Entry]
  BY DEF IInv, TypeOK
<1>1. ASSUME NEW r \in Requests, Posts(r), req[r].step = "commit", req' = [req EXCEPT ![r] = Idle],
             entry'[n].period = req[r].row.period, entry'[n].body = req[r].row.body
      PROVE  \/ entry'[n].period \notin locked /\ Postable(entry'[n].body)
             \/ \E q \in Requests : req[q].late /\ req[q].step = "commit" /\ req'[q] = Idle
  <2>1. req'[r] = Idle /\ Checked(r)
    BY <1>1 DEF IInv, TypeOK, CheckedInv
  <2>2. CASE req[r].late
    BY <1>1, <2>1, <2>2
  <2>3. CASE ~req[r].late
    BY <1>1, <2>1, <2>3 DEF Checked
  <2> QED
    BY <2>2, <2>3
<1>2. ASSUME NEW r \in Requests, CommitNew(r)
      PROVE  \/ entry'[n].period \notin locked /\ Postable(entry'[n].body)
             \/ \E q \in Requests : req[q].late /\ req[q].step = "commit" /\ req'[q] = Idle
  <2>1. PICK row \in Entry :
             /\ row = req[r].row /\ (row.status = "posted" => req[r].op = "post")
             /\ row.status \in {"posted", "draft"}
             /\ entry' = [entry EXCEPT ![nextNo] = row] /\ req' = [req EXCEPT ![r] = Idle]
    BY <1>2, CommitNewDoes
  <2>2. n = nextNo /\ entry'[n] = row
    BY <1>0, <2>1
  <2>3. Posts(r) /\ req[r].step = "commit"
    BY <1>2, <2>1, <2>2 DEF Posts, CommitNew, Booked
  <2> QED
    BY <1>1, <2>1, <2>2, <2>3
<1>3. ASSUME NEW r \in Requests, CommitPostDraft(r)
      PROVE  \/ entry'[n].period \notin locked /\ Postable(entry'[n].body)
             \/ \E q \in Requests : req[q].late /\ req[q].step = "commit" /\ req'[q] = Idle
  <2>1. PICK k \in Numbers :
             /\ req[r].op = "postDraft" /\ req[r].step = "commit"
             /\ req[r].row = [entry[k] EXCEPT !.status = "posted"]
             /\ entry' = [entry EXCEPT ![k] = [entry[k] EXCEPT !.status = "posted"]]
             /\ req' = [req EXCEPT ![r] = Idle]
    BY <1>3, CommitPostDraftDoes
  <2>2. n = k /\ entry'[n] = req[r].row
    BY <1>0, <2>1
  <2> QED
    BY <1>1, <2>1, <2>2 DEF Posts
<1>4. ASSUME NEW r \in Requests, CommitReverse(r)
      PROVE  \/ entry'[n].period \notin locked /\ Postable(entry'[n].body)
             \/ \E q \in Requests : req[q].late /\ req[q].step = "commit" /\ req'[q] = Idle
  <2>1. PICK o \in Numbers, row \in Entry :
             /\ row = req[r].row /\ req[r].op = "reverse"
             /\ entry'[nextNo] = row
             /\ entry'[o] = IF entry[o].status \in Booked THEN [entry[o] EXCEPT !.status = "reversed"]
                                                          ELSE entry[o]
             /\ \A m \in Numbers \ {o, nextNo} : entry'[m] = entry[m]
             /\ req' = [req EXCEPT ![r] = Idle]
    BY <1>4, CommitReverseDoes
  <2>2. n = nextNo /\ entry'[n] = row
    BY <2>1
  <2>3. Posts(r) /\ req[r].step = "commit"
    BY <1>4, <2>1 DEF Posts, CommitReverse, At
  <2> QED
    BY <1>1, <2>1, <2>2, <2>3
<1>5. ASSUME NEW r \in Requests, CommitDelete(r) PROVE FALSE
  <2>1. PICK k \in Numbers : entry' = [entry EXCEPT ![k] = [entry[k] EXCEPT !.status = "deleted"]]
    BY <1>5, CommitDeleteDoes
  <2>2. n # k
    BY <1>0, <2>1 DEF Booked, Entry
  <2> QED
    BY <1>0, <2>1, <2>2
<1>6. ASSUME NEW r \in Requests, CommitMatch(r) PROVE FALSE
  BY <1>6 DEF CommitMatch
<1> QED
  BY <1>2, <1>3, <1>4, <1>5, <1>6, OtherSteps DEF WritesEntries

\* Nothing is booked in a locked period or on a group or inactive account,
\* except by a request that was past that check when the lock or the flag was
\* set: the next-state relation has no other way to book an entry.
THEOREM ChecksAreMade == Spec => OnlyOvertakenBook
<1>1. Spec => []CheckedInv
  BY Invariance, InitChecked, NextChecked, PTL DEF Spec
<1>2. IInv /\ CheckedInv /\ [Next]_vars =>
        [\A n \in Numbers :
          entry[n].status \notin Booked /\ entry'[n].status \in Booked =>
              \/ entry'[n].period \notin locked /\ Postable(entry'[n].body)
              \/ \E r \in Requests : req[r].late /\ req[r].step = "commit" /\ req'[r] = Idle]_vars
  BY BooksCheckedOnly
<1> QED
  BY <1>1, <1>2, Invariance, PTL DEF Spec, OnlyOvertakenBook

\* What a step may do to a booked entry.
LEMMA BookedStays ==
    ASSUME IInv, [Next]_vars, NEW n \in Numbers \ overtaken', entry[n].status \in Booked
    PROVE  /\ entry'[n].status \in {entry[n].status, "reversed"}
           /\ [entry'[n] EXCEPT !.status = "posted"] = [entry[n] EXCEPT !.status = "posted"]
<1>0. entry \in [Numbers -> Entry] /\ entry[n] \in Entry
  BY DEF IInv, TypeOK
<1>1. ASSUME NEW r \in Requests, CommitNew(r) PROVE entry'[n] = entry[n]
  <2>1. PICK row \in Entry : entry[nextNo].status = "none" /\ entry' = [entry EXCEPT ![nextNo] = row]
    BY <1>1, CommitNewDoes
  <2> QED BY <1>0, <2>1 DEF Booked
<1>2. ASSUME NEW r \in Requests, CommitPostDraft(r) PROVE entry'[n] = entry[n]
  <2>1. PICK k \in Numbers :
          entry[k].status = "draft" /\ entry' = [entry EXCEPT ![k] = [entry[k] EXCEPT !.status = "posted"]]
    BY <1>2, CommitPostDraftDoes
  <2> QED BY <1>0, <2>1 DEF Booked
<1>3. ASSUME NEW r \in Requests, CommitReverse(r)
      PROVE  entry'[n] = entry[n] \/ entry'[n] = [entry[n] EXCEPT !.status = "reversed"]
  <2>1. PICK o \in Numbers, row \in Entry :
             /\ entry[nextNo].status = "none"
             /\ entry'[o] = IF entry[o].status \in Booked THEN [entry[o] EXCEPT !.status = "reversed"]
                                                          ELSE entry[o]
             /\ \A m \in Numbers \ {o, nextNo} : entry'[m] = entry[m]
    BY <1>3, CommitReverseDoes
  <2> QED BY <1>0, <2>1 DEF Booked
<1>4. ASSUME NEW r \in Requests, CommitDelete(r) PROVE entry'[n] = entry[n]
  <2>1. PICK k \in Numbers :
             /\ entry' = [entry EXCEPT ![k] = [entry[k] EXCEPT !.status = "deleted"]]
             /\ overtaken' = IF entry[k].status = "draft" THEN overtaken ELSE overtaken \cup {k}
    BY <1>4, CommitDeleteDoes
  <2>2. n # k
    BY <2>1 DEF Booked
  <2> QED BY <1>0, <2>1, <2>2
<1>5. ASSUME NEW r \in Requests, CommitMatch(r) PROVE entry'[n] = entry[n]
  BY <1>5 DEF CommitMatch
<1>6. entry'[n] = entry[n] \/ entry'[n] = [entry[n] EXCEPT !.status = "reversed"]
  BY <1>1, <1>2, <1>3, <1>4, <1>5, OtherSteps DEF WritesEntries
<1> QED
  BY <1>0, <1>6 DEF Entry

\* A booked entry is never changed, except that it is marked reversed, and
\* never deleted, unless the delete read it as a draft.
THEOREM EntriesAreKept == Spec => BookedIsForever
<1>1. IInv /\ [Next]_vars =>
        [\A n \in Numbers \ overtaken' :
          entry[n].status \in Booked =>
              /\ entry'[n].status \in {entry[n].status, "reversed"}
              /\ [entry'[n] EXCEPT !.status = "posted"] = [entry[n] EXCEPT !.status = "posted"]]_vars
  BY BookedStays
<1> QED
  BY <1>1, Invariance, PTL DEF Spec, BookedIsForever

================================================================================
