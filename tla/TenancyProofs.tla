----------------------------- MODULE TenancyProofs -----------------------------
(***************************************************************************)
(* What Tenancy promises holds for any number of companies and requests,   *)
(* any size of the map of pools and any time its statuses are kept.        *)
(*                                                                         *)
(* The invariants come in layers, each proved with the ones before it:     *)
(* the types (TypeInv), the pools (PoolInv), the databases (SetupInv) and  *)
(* the cached statuses (TimeInv).                                          *)
(*                                                                         *)
(* The last parts are about Company: Access, with what a cached entry and  *)
(* a count of seats still say (InTimeInv, SeatsInv), and Sessions, with    *)
(* what the tabs and the calls under way know of a sign-out (SignedOutInv).*)
(***************************************************************************)
EXTENDS Company, SequenceTheorems, FiniteSetTheorems, TLAPS

(* Sequences without repetition, as the map of pools is one                *)

Distinct(s) == \A i, j \in DOMAIN s : s[i] = s[j] => i = j

\* A tenant taken out of the map leaves the others, in their order.
LEMMA TakesOut ==
    ASSUME NEW t, pools \in Seq(Tenants), Distinct(pools)
    PROVE  /\ Without(t) \in Seq(Tenants)
           /\ Distinct(Without(t))
           /\ Range(Without(t)) = Range(pools) \ {t}
           /\ Len(Without(t)) = Len(pools) - (IF t \in Range(pools) THEN 1 ELSE 0)
<1>1. CASE t \notin Range(pools)
  BY <1>1, LenProperties DEF Without
<1>2. CASE t \in Range(pools)
  <2>1. PICK k : k = CHOOSE i \in DOMAIN pools : pools[i] = t
    OBVIOUS
  <2>2. k \in DOMAIN pools /\ pools[k] = t
    BY <1>2, <2>1 DEF Range
  <2>3. PICK n \in Nat : n = Len(pools) /\ DOMAIN pools = 1 .. n
    BY LenProperties
  <2>4. \A i \in 1 .. n : pools[i] \in Tenants
    BY <2>3, ElementOfSeq
  <2>5. PICK a : a = SubSeq(pools, 1, k - 1)
    OBVIOUS
  <2>6. PICK b : b = SubSeq(pools, k + 1, n)
    OBVIOUS
  <2>7. /\ a \in Seq(Tenants)
        /\ Len(a) = k - 1
        /\ \A i \in 1 .. k - 1 : a[i] = pools[i]
    <3>1. 1 \in Int /\ k - 1 \in Int /\ k \in 1 .. n
      BY <2>2, <2>3
    <3>2. \A i \in 1 .. k - 1 : pools[i] \in Tenants
      BY <3>1, <2>4
    <3>3. /\ SubSeq(pools, 1, k - 1) \in Seq(Tenants)
          /\ Len(SubSeq(pools, 1, k - 1)) = IF 1 <= k - 1 THEN k - 1 - 1 + 1 ELSE 0
          /\ \A i \in 1 .. k - 1 - 1 + 1 : SubSeq(pools, 1, k - 1)[i] = pools[1 + i - 1]
      BY <3>1, <3>2, SubSeqProperties
    <3>4. k - 1 - 1 + 1 = k - 1 /\ \A i \in 1 .. k - 1 : 1 + i - 1 = i
      BY <3>1
    <3> QED
      BY <3>1, <3>3, <3>4, <2>5
  <2>8. /\ b \in Seq(Tenants)
        /\ Len(b) = n - k
        /\ \A i \in 1 .. n - k : b[i] = pools[k + i]
    <3>1. k + 1 \in Int /\ n \in Int /\ k \in 1 .. n
      BY <2>2, <2>3
    <3>2. \A i \in k + 1 .. n : pools[i] \in Tenants
      BY <3>1, <2>4
    <3>3. /\ SubSeq(pools, k + 1, n) \in Seq(Tenants)
          /\ Len(SubSeq(pools, k + 1, n)) = IF k + 1 <= n THEN n - (k + 1) + 1 ELSE 0
          /\ \A i \in 1 .. n - (k + 1) + 1 : SubSeq(pools, k + 1, n)[i] = pools[k + 1 + i - 1]
      BY <3>1, <3>2, SubSeqProperties
    <3>4. n - (k + 1) + 1 = n - k /\ \A i \in 1 .. n - k : k + 1 + i - 1 = k + i
      BY <3>1
    <3> QED
      BY <3>1, <3>3, <3>4, <2>6
  <2>9. PICK w : w = a \o b
    OBVIOUS
  <2>10. Without(t) = w
    BY <1>2, <2>1, <2>3, <2>5, <2>6, <2>9 DEF Without, RemoveAt
  <2>11. /\ w \in Seq(Tenants)
         /\ Len(w) = n - 1
         /\ \A i \in 1 .. n - 1 : w[i] = IF i <= k - 1 THEN a[i] ELSE b[i - (k - 1)]
    <3>1. /\ a \o b \in Seq(Tenants)
          /\ Len(a \o b) = Len(a) + Len(b)
          /\ \A i \in 1 .. Len(a) + Len(b) : (a \o b)[i] = IF i <= Len(a) THEN a[i] ELSE b[i - Len(a)]
      BY <2>7, <2>8, ConcatProperties
    <3>2. k \in 1 .. n
      BY <2>2, <2>3
    <3>3. (k - 1) + (n - k) = n - 1
      BY <3>2
    <3> QED
      BY <3>1, <3>3, <2>7, <2>8, <2>9
  <2>12. DOMAIN w = 1 .. n - 1
    BY <2>11, LenProperties
  <2>13. \A i \in 1 .. n - 1 : w[i] = pools[IF i < k THEN i ELSE i + 1]
    <3> SUFFICES ASSUME NEW i \in 1 .. n - 1
                 PROVE  w[i] = pools[IF i < k THEN i ELSE i + 1]
      OBVIOUS
    <3>1. k \in 1 .. n
      BY <2>2, <2>3
    <3>2. CASE i < k
      <4>1. i <= k - 1 /\ i \in 1 .. k - 1
        BY <3>1, <3>2
      <4>2. w[i] = a[i]
        BY <4>1, <2>11
      <4>3. a[i] = pools[i]
        BY <4>1, <2>7
      <4> QED
        BY <4>2, <4>3, <3>2
    <3>3. CASE ~(i < k)
      <4>1. ~(i <= k - 1) /\ i - (k - 1) \in 1 .. n - k /\ k + (i - (k - 1)) = i + 1
        BY <3>1, <3>3
      <4>2. w[i] = b[i - (k - 1)]
        BY <4>1, <2>11
      <4>3. b[i - (k - 1)] = pools[k + (i - (k - 1))]
        BY <4>1, <2>8
      <4> QED
        BY <4>1, <4>2, <4>3, <3>3
    <3> QED
      BY <3>2, <3>3
  <2>14. Distinct(w)
    <3> SUFFICES ASSUME NEW i \in 1 .. n - 1, NEW j \in 1 .. n - 1, w[i] = w[j]
                 PROVE  i = j
      BY <2>12 DEF Distinct
    <3>1. PICK x \in 1 .. n : x = IF i < k THEN i ELSE i + 1
      BY <2>2, <2>3
    <3>2. PICK y \in 1 .. n : y = IF j < k THEN j ELSE j + 1
      BY <2>2, <2>3
    <3>3. pools[x] = pools[y]
      BY <2>13, <3>1, <3>2
    <3>4. x = y
      BY <3>3, <2>3 DEF Distinct
    <3> QED
      BY <3>1, <3>2, <3>4, <2>2, <2>3
  <2>15. Range(w) = Range(pools) \ {t}
    <3>1. ASSUME NEW u \in Range(w)
          PROVE  u \in Range(pools) \ {t}
      <4>1. PICK i \in 1 .. n - 1 : u = w[i]
        BY <2>12 DEF Range
      <4>2. PICK x \in 1 .. n : x = IF i < k THEN i ELSE i + 1
        BY <2>2, <2>3
      <4>3. u = pools[x] /\ x # k
        BY <4>1, <4>2, <2>13, <2>2, <2>3
      <4>4. u # t
        BY <4>3, <2>2, <2>3 DEF Distinct
      <4> QED
        BY <4>3, <4>4, <2>3 DEF Range
    <3>2. ASSUME NEW u \in Range(pools) \ {t}
          PROVE  u \in Range(w)
      <4>1. PICK x \in 1 .. n : u = pools[x]
        BY <2>3 DEF Range
      <4>2. x # k
        BY <4>1, <2>2
      <4>3. PICK i : i = IF x < k THEN x ELSE x - 1
        OBVIOUS
      <4>4. i \in 1 .. n - 1 /\ x = IF i < k THEN i ELSE i + 1
        BY <4>2, <4>3, <2>2, <2>3
      <4>5. u = w[i]
        BY <4>1, <4>4, <2>13
      <4> QED
        BY <4>4, <4>5, <2>12 DEF Range
    <3> QED
      BY <3>1, <3>2
  <2> QED
    BY <1>2, <2>3, <2>10, <2>11, <2>14, <2>15
<1> QED
  BY <1>1, <1>2

\* A tenant that is not in a sequence is put at its end.
LEMMA PutsLast ==
    ASSUME NEW s \in Seq(Tenants), Distinct(s), NEW t \in Tenants, t \notin Range(s)
    PROVE  /\ Append(s, t) \in Seq(Tenants)
           /\ Distinct(Append(s, t))
           /\ Range(Append(s, t)) = Range(s) \cup {t}
           /\ Len(Append(s, t)) = Len(s) + 1
           /\ Append(s, t)[Len(s) + 1] = t
<1>1. PICK n \in Nat : n = Len(s) /\ DOMAIN s = 1 .. n
  BY LenProperties
<1>2. PICK a : a = Append(s, t)
  OBVIOUS
<1>3. /\ a \in Seq(Tenants)
      /\ Len(a) = n + 1
      /\ a[n + 1] = t
      /\ \A i \in 1 .. n : a[i] = s[i]
  BY <1>1, <1>2, AppendProperties
<1>4. DOMAIN a = 1 .. n + 1
  BY <1>3, LenProperties
<1>5. \A i \in 1 .. n : s[i] # t
  BY <1>1 DEF Range
<1>6. Distinct(a)
  <2> SUFFICES ASSUME NEW i \in 1 .. n + 1, NEW j \in 1 .. n + 1, a[i] = a[j]
               PROVE  i = j
    BY <1>4 DEF Distinct
  <2>1. CASE i \in 1 .. n /\ j \in 1 .. n
    <3>1. s[i] = s[j]
      BY <2>1, <1>3
    <3> QED
      BY <3>1, <2>1, <1>1 DEF Distinct
  <2>2. CASE ~(i \in 1 .. n /\ j \in 1 .. n)
    <3>1. (i = n + 1 \/ i \in 1 .. n) /\ (j = n + 1 \/ j \in 1 .. n)
      OBVIOUS
    <3> QED
      BY <3>1, <2>2, <1>3, <1>5
  <2> QED
    BY <2>1, <2>2
<1>7. Range(a) = Range(s) \cup {t}
  <2>1. 1 .. n + 1 = 1 .. n \cup {n + 1}
    OBVIOUS
  <2> QED
    BY <2>1, <1>1, <1>3, <1>4 DEF Range
<1> QED
  BY <1>1, <1>2, <1>3, <1>6, <1>7

\* A map of at most one pool too many loses the least recently used one, which is
\* not the one just put in.
LEMMA Evicts ==
    ASSUME NEW order \in Seq(Tenants), Distinct(order), Len(order) <= PoolMax + 1
    PROVE  /\ Excess(order) = <<>> =>
                /\ Len(order) <= PoolMax
                /\ SubSeq(order, Len(Excess(order)) + 1, Len(order)) = order
           /\ Excess(order) # <<>> =>
                \E old \in Range(order), kept \in Seq(Tenants) :
                    /\ old # order[Len(order)]
                    /\ Range(Excess(order)) = {old}
                    /\ kept = SubSeq(order, Len(Excess(order)) + 1, Len(order))
                    /\ Distinct(kept)
                    /\ Range(kept) = Range(order) \ {old}
                    /\ Len(kept) = PoolMax
<1>1. PICK n \in Nat : n = Len(order) /\ DOMAIN order = 1 .. n
  BY LenProperties
<1>2. \A i \in 1 .. n : order[i] \in Tenants
  BY <1>1, ElementOfSeq
<1>3. PoolMax \in Nat /\ PoolMax >= 1
  BY TenancyAssumption
<1>4. PICK e : e = Excess(order) /\ e = SubSeq(order, 1, n - PoolMax)
  BY <1>1 DEF Excess
<1>5. /\ e \in Seq(Tenants)
      /\ Len(e) = IF 1 <= n - PoolMax THEN n - PoolMax ELSE 0
      /\ \A i \in 1 .. n - PoolMax : e[i] = order[i]
  <2>1. 1 \in Int /\ n - PoolMax \in Int /\ \A i \in 1 .. n - PoolMax : order[i] \in Tenants
    BY <1>2, <1>3
  <2>2. /\ SubSeq(order, 1, n - PoolMax) \in Seq(Tenants)
        /\ Len(SubSeq(order, 1, n - PoolMax)) = IF 1 <= n - PoolMax THEN n - PoolMax - 1 + 1 ELSE 0
        /\ \A i \in 1 .. n - PoolMax - 1 + 1 : SubSeq(order, 1, n - PoolMax)[i] = order[1 + i - 1]
    BY <2>1, SubSeqProperties
  <2>3. n - PoolMax - 1 + 1 = n - PoolMax /\ \A i \in 1 .. n - PoolMax : 1 + i - 1 = i
    BY <1>3
  <2> QED
    BY <1>4, <2>2, <2>3
<1>6. DOMAIN e = 1 .. Len(e)
  BY <1>5, LenProperties
<1>7. CASE e = <<>>
  <2>1. Len(e) = 0
    BY <1>7
  <2>2. n <= PoolMax
    BY <2>1, <1>3, <1>5
  <2>3. SubSeq(order, 1, Len(order)) = order
    BY SubSeqFull
  <2>4. Len(e) + 1 = 1
    BY <2>1
  <2> QED
    BY <1>1, <1>4, <1>7, <2>2, <2>3, <2>4
<1>8. CASE e # <<>>
  <2>1. Len(e) # 0
    BY <1>5, <1>8, EmptySeq
  <2>2. n = PoolMax + 1 /\ Len(e) = 1
    BY <2>1, <1>1, <1>3, <1>5
  <2>3. e[1] = order[1]
    BY <2>2, <1>3, <1>5
  <2>4. Range(e) = {order[1]}
    BY <2>2, <2>3, <1>6 DEF Range
  <2>5. PICK kept : kept = SubSeq(order, Len(e) + 1, n)
    OBVIOUS
  <2>6. /\ kept \in Seq(Tenants)
        /\ Len(kept) = PoolMax
        /\ \A i \in 1 .. PoolMax : kept[i] = order[i + 1]
    <3>1. 2 \in Int /\ n \in Int /\ \A i \in 2 .. n : order[i] \in Tenants
      BY <1>2
    <3>2. /\ SubSeq(order, 2, n) \in Seq(Tenants)
          /\ Len(SubSeq(order, 2, n)) = IF 2 <= n THEN n - 2 + 1 ELSE 0
          /\ \A i \in 1 .. n - 2 + 1 : SubSeq(order, 2, n)[i] = order[2 + i - 1]
      BY <3>1, SubSeqProperties
    <3>3. n - 2 + 1 = PoolMax /\ 2 <= n /\ \A i \in 1 .. PoolMax : 2 + i - 1 = i + 1
      BY <1>3, <2>2
    <3>4. kept = SubSeq(order, 2, n)
      BY <2>2, <2>5
    <3> QED
      BY <3>2, <3>3, <3>4
  <2>7. DOMAIN kept = 1 .. PoolMax
    BY <2>6, LenProperties
  <2>8. Distinct(kept)
    <3> SUFFICES ASSUME NEW i \in 1 .. PoolMax, NEW j \in 1 .. PoolMax, kept[i] = kept[j]
                 PROVE  i = j
      BY <2>7 DEF Distinct
    <3>1. order[i + 1] = order[j + 1] /\ i + 1 \in 1 .. n /\ j + 1 \in 1 .. n
      BY <2>2, <2>6, <1>3
    <3>2. i + 1 = j + 1
      BY <3>1, <1>1 DEF Distinct
    <3> QED
      BY <3>2, <1>3
  <2>9. Range(kept) = Range(order) \ {order[1]}
    <3>1. ASSUME NEW u \in Range(kept)
          PROVE  u \in Range(order) \ {order[1]}
      <4>1. PICK i \in 1 .. PoolMax : u = kept[i]
        BY <2>7 DEF Range
      <4>2. u = order[i + 1] /\ i + 1 \in 1 .. n /\ i + 1 # 1 /\ 1 \in 1 .. n
        BY <4>1, <2>2, <2>6, <1>3
      <4>3. u # order[1]
        BY <4>2, <1>1 DEF Distinct
      <4> QED
        BY <4>2, <4>3, <1>1 DEF Range
    <3>2. ASSUME NEW u \in Range(order) \ {order[1]}
          PROVE  u \in Range(kept)
      <4>1. PICK i \in 1 .. n : u = order[i]
        BY <1>1 DEF Range
      <4>2. i # 1
        BY <4>1
      <4>3. i - 1 \in 1 .. PoolMax /\ (i - 1) + 1 = i
        BY <4>2, <2>2, <1>3
      <4>4. u = kept[i - 1]
        BY <4>1, <4>3, <2>6
      <4> QED
        BY <4>3, <4>4, <2>7 DEF Range
    <3> QED
      BY <3>1, <3>2
  <2>10. order[1] \in Range(order) /\ order[1] # order[n]
    <3>1. 1 \in 1 .. n /\ n \in 1 .. n /\ n # 1
      BY <2>2, <1>3
    <3> QED
      BY <3>1, <1>1 DEF Range, Distinct
  <2> QED
    BY <1>1, <1>4, <1>8, <2>4, <2>5, <2>6, <2>8, <2>9, <2>10
<1> QED
  BY <1>4, <1>7, <1>8

-------------------------------------------------------------------------------
(* Types                                                                   *)

StepNames == {"idle", "select", "store", "wait", "open", "insert", "settle", "serve",
              "update", "invalidate"}
Statuses  == {"none", "provisioning", "active", "suspended", "failed"}
Targets   == {"active", "suspended"}

Request == [step : StepNames, op : {"use", "setStatus", None}, tenant : Tenants \cup {None},
            to : Targets \cup {None}, seen : Statuses \cup {None}, late : BOOLEAN, waited : {0, 1}]
Cached  == [status : Statuses, age : 0 .. TTL, late : BOOLEAN]

RowsOK ==
    /\ status \in [Tenants -> Statuses]
    /\ setup \in [Tenants -> 0 .. 4]
    /\ prov \in [Tenants -> {"none", "running", "activated"}]
    /\ out \in [Tenants -> 0 .. MaxOut]

CachesOK ==
    /\ meta \in [Tenants -> Cached \cup {None}]
    /\ pools \in Seq(Tenants)
    /\ Distinct(pools)
    /\ alive \in [Tenants -> Int]
    /\ pending \in [Tenants -> BOOLEAN]

\* A request has what its step needs.
Equipped(q) ==
    /\ q.step # "idle" => q.tenant \in Tenants
    /\ q.step = "store" => q.seen \in Statuses
    /\ q.step = "update" => q.to \in Targets

RequestsOK == req \in [Requests -> Request] /\ \A r \in Requests : Equipped(req[r])

TypeInv == RowsOK /\ CachesOK /\ RequestsOK

\* TTL counts at least one tick, and there are four steps of provisioning.
LEMMA Bounds == TTL \in Nat /\ TTL >= 1 /\ MaxOut = TTL + 1 /\ Len(Steps) = 4
BY TenancyAssumption DEF MaxOut, Steps

\* A request at rest has the type of a request and no pool to hold.
LEMMA IdleTyped == Idle \in Request /\ Equipped(Idle) /\ Idle.step = "idle"
BY DEF Idle, Request, StepNames, Equipped

\* A request's record that is replaced by one of its type leaves the requests typed.
LEMMA RequestReplaced ==
    ASSUME RequestsOK, NEW r \in Requests, NEW q \in Request, Equipped(q)
    PROVE  [req EXCEPT ![r] = q] \in [Requests -> Request] /\
           \A p \in Requests : Equipped([req EXCEPT ![r] = q][p])
BY DEF RequestsOK

\* The requests stay typed when late marks them.
LEMMA OutdatedTyped ==
    ASSUME RequestsOK, NEW t \in Tenants, NEW s
    PROVE  /\ Outdated(t, s) \in [Requests -> Request]
           /\ \A p \in Requests : Equipped(Outdated(t, s)[p])
           /\ \A p \in Requests :
                /\ Outdated(t, s)[p].step = req[p].step
                /\ Outdated(t, s)[p].tenant = req[p].tenant
                /\ Outdated(t, s)[p].seen = req[p].seen
                /\ Outdated(t, s)[p].waited = req[p].waited
                /\ Outdated(t, s)[p].op = req[p].op
                /\ Outdated(t, s)[p].to = req[p].to
                /\ Outdated(t, s)[p].late <=>
                     (req[p].late \/ (req[p].tenant = t /\ req[p].step = "store" /\ req[p].seen # s))
<1> SUFFICES ASSUME NEW p \in Requests
             PROVE  /\ Outdated(t, s)[p] \in Request
                    /\ Equipped(Outdated(t, s)[p])
                    /\ Outdated(t, s)[p].step = req[p].step
                    /\ Outdated(t, s)[p].tenant = req[p].tenant
                    /\ Outdated(t, s)[p].seen = req[p].seen
                    /\ Outdated(t, s)[p].waited = req[p].waited
                    /\ Outdated(t, s)[p].op = req[p].op
                    /\ Outdated(t, s)[p].to = req[p].to
                    /\ Outdated(t, s)[p].late <=>
                         (req[p].late \/ (req[p].tenant = t /\ req[p].step = "store" /\ req[p].seen # s))
  BY DEF Outdated
<1>1. req[p] \in Request /\ Equipped(req[p])
  BY DEF RequestsOK
<1>2. Outdated(t, s)[p] = IF req[p].tenant = t /\ req[p].step = "store" /\ req[p].seen # s
                          THEN [req[p] EXCEPT !.late = TRUE] ELSE req[p]
  BY DEF Outdated
<1>3. /\ Outdated(t, s)[p] \in Request
      /\ Outdated(t, s)[p].step = req[p].step
      /\ Outdated(t, s)[p].tenant = req[p].tenant
      /\ Outdated(t, s)[p].seen = req[p].seen
      /\ Outdated(t, s)[p].waited = req[p].waited
      /\ Outdated(t, s)[p].op = req[p].op
      /\ Outdated(t, s)[p].to = req[p].to
  BY <1>1, <1>2 DEF Request
<1>4. Equipped(Outdated(t, s)[p])
  BY <1>1, <1>3 DEF Equipped
<1>5. Outdated(t, s)[p].late <=>
        (req[p].late \/ (req[p].tenant = t /\ req[p].step = "store" /\ req[p].seen # s))
  BY <1>1, <1>2 DEF Request
<1> QED
  BY <1>3, <1>4, <1>5

\* A process that starts has well-typed caches and requests.
LEMMA InitTypes == Init => TypeInv
<1> SUFFICES ASSUME Init PROVE TypeInv
  OBVIOUS
<1>1. RowsOK
  BY TenancyAssumption, Bounds DEF Init, InitTenants, RowsOK, Statuses
<1>2. CachesOK
  <2>1. pools = <<>> /\ pools \in Seq(Tenants)
    BY EmptySeq DEF Init, InitTenants
  <2>2. Distinct(pools)
    BY <2>1 DEF Distinct
  <2> QED
    BY <2>1, <2>2 DEF Init, InitTenants, CachesOK
<1>3. RequestsOK
  BY IdleTyped DEF Init, RequestsOK
<1> QED
  BY <1>1, <1>2, <1>3 DEF TypeInv

\* A request admitted or refused keeps the types, and of the pools it changes the order
\* at most.
LEMMA AdmitTyped ==
    ASSUME TypeInv, NEW r \in Requests, NEW t \in Tenants, NEW s, Admit(r, t, s)
    PROVE  /\ RequestsOK'
           /\ pools' \in Seq(Tenants) /\ Distinct(pools')
           /\ Range(pools') = Range(pools) /\ Len(pools') = Len(pools)
           /\ pending' \in [Tenants -> BOOLEAN]
           /\ req' = [req EXCEPT ![r] = req'[r]]
           /\ \/ req'[r] = Idle /\ UNCHANGED pending
              \/ /\ s = "active"
                 /\ req'[r] = [Idle EXCEPT !.step = Route(t), !.op = "use", !.tenant = t]
                 /\ pending' = [pending EXCEPT ![t] = (@ \/ Route(t) = "open")]
<1>1. pools \in Seq(Tenants) /\ Distinct(pools) /\ pending \in [Tenants -> BOOLEAN] /\ RequestsOK
  BY DEF TypeInv, CachesOK
<1>2. CASE s # "active"
  BY <1>1, <1>2, IdleTyped, RequestReplaced DEF Admit, End, RequestsOK
<1>3. CASE s = "active"
  <2>1. PICK q : q = [Idle EXCEPT !.step = Route(t), !.op = "use", !.tenant = t]
    OBVIOUS
  <2>2. Route(t) \in {"serve", "wait", "open"}
    BY DEF Route
  <2>3. q \in Request /\ Equipped(q)
    BY <2>1, <2>2 DEF Idle, Request, StepNames, Equipped
  <2>4. /\ req' = [req EXCEPT ![r] = q]
        /\ pools' = IF Route(t) = "serve" THEN Append(Without(t), t) ELSE pools
        /\ pending' = [pending EXCEPT ![t] = (@ \/ Route(t) = "open")]
    BY <1>3, <2>1 DEF Admit
  <2>5. RequestsOK' /\ req' = [req EXCEPT ![r] = req'[r]] /\ req'[r] = q
    BY <1>1, <2>3, <2>4, RequestReplaced DEF RequestsOK
  <2>6. /\ pending' \in [Tenants -> BOOLEAN]
        /\ req'[r] = [Idle EXCEPT !.step = Route(t), !.op = "use", !.tenant = t]
    BY <1>1, <2>1, <2>4, <2>5
  <2>7. ASSUME Route(t) = "serve"
        PROVE  /\ pools' \in Seq(Tenants) /\ Distinct(pools')
               /\ Range(pools') = Range(pools) /\ Len(pools') = Len(pools)
    <3>1. t \in Range(pools)
      BY <2>7 DEF Route
    <3>2. /\ Without(t) \in Seq(Tenants) /\ Distinct(Without(t))
          /\ Range(Without(t)) = Range(pools) \ {t} /\ Len(Without(t)) = Len(pools) - 1
      BY <1>1, <3>1, TakesOut
    <3>3. PICK w \in Seq(Tenants) : w = Without(t)
      BY <3>2
    <3>4. /\ Append(w, t) \in Seq(Tenants) /\ Distinct(Append(w, t))
          /\ Range(Append(w, t)) = Range(w) \cup {t} /\ Len(Append(w, t)) = Len(w) + 1
      BY <3>2, <3>3, PutsLast
    <3>5. Len(pools) \in Nat
      BY <1>1, LenProperties
    <3>6. pools' = Append(w, t)
      BY <2>4, <2>7, <3>3
    <3>7. Range(Append(w, t)) = Range(pools) /\ Len(Append(w, t)) = Len(pools)
      BY <3>1, <3>2, <3>3, <3>4, <3>5
    <3> QED
      BY <3>4, <3>6, <3>7
  <2>8. ASSUME Route(t) # "serve"
        PROVE  /\ pools' \in Seq(Tenants) /\ Distinct(pools')
               /\ Range(pools') = Range(pools) /\ Len(pools') = Len(pools)
    BY <1>1, <2>4, <2>8
  <2>9. /\ pools' \in Seq(Tenants) /\ Distinct(pools')
        /\ Range(pools') = Range(pools) /\ Len(pools') = Len(pools)
    BY <2>7, <2>8
  <2> QED
    BY <1>3, <2>4, <2>5, <2>6, <2>9
<1> QED
  BY <1>2, <1>3

\* A request that goes on or ends keeps the requests typed.
LEMMA GotoTyped ==
    ASSUME RequestsOK, NEW r \in Requests, NEW step \in StepNames, Goto(r, step),
           req[r].step # "idle", step \notin {"store", "update"}
    PROVE  RequestsOK'
<1>1. PICK q : q = [req[r] EXCEPT !.step = step, !.waited = 0]
  OBVIOUS
<1>2. q \in Request /\ Equipped(q)
  <2>1. req[r] \in Request /\ req[r].tenant \in Tenants
    BY DEF RequestsOK, Equipped
  <2>2. q \in Request /\ q.step = step /\ q.tenant = req[r].tenant
    BY <1>1, <2>1 DEF Request
  <2> QED
    BY <2>1, <2>2 DEF Equipped
<1>3. req' = [req EXCEPT ![r] = q]
  BY <1>1 DEF Goto
<1> QED
  BY <1>2, <1>3, RequestReplaced DEF RequestsOK

\* A request that ends leaves the requests typed.
LEMMA EndTyped ==
    ASSUME RequestsOK, NEW r \in Requests, End(r)
    PROVE  RequestsOK'
BY IdleTyped, RequestReplaced DEF End, RequestsOK

\* So do the requests that wait together, served or failed together.
LEMMA TogetherTyped ==
    ASSUME RequestsOK, NEW r \in Requests, req[r].step # "idle",
           req' = Settled(r) \/ req' = [q \in Requests |-> IF q \in Together(r) THEN Idle ELSE req[q]]
    PROVE  RequestsOK'
<1>1. ASSUME NEW q \in Requests
      PROVE  req'[q] \in Request /\ Equipped(req'[q])
  <2>1. req[q] \in Request /\ Equipped(req[q])
    BY DEF RequestsOK
  <2>2. req'[q] \in {req[q], Idle, [req[q] EXCEPT !.step = "serve"]} /\ (req'[q] = [req[q] EXCEPT !.step = "serve"] => req[q].step # "idle" \/ req'[q] = req[q] \/ req'[q] = Idle)
    BY DEF Settled, Together
  <2>3. PICK u : u = [req[q] EXCEPT !.step = "serve"]
    OBVIOUS
  <2>4. u \in Request /\ u.step = "serve" /\ u.tenant = req[q].tenant
    BY <2>1, <2>3 DEF Request, StepNames
  <2>5. req[q].step # "idle" => Equipped(u)
    BY <2>1, <2>4 DEF Equipped
  <2> QED
    BY <2>1, <2>2, <2>3, <2>4, <2>5, IdleTyped
<1>2. req' = [q \in Requests |-> req'[q]]
  BY DEF Settled
<1> QED
  BY <1>1, <1>2 DEF RequestsOK

\* Taking a tenant out of the caches keeps them typed.
LEMMA InvalidatedTyped ==
    ASSUME CachesOK, NEW t \in Tenants, Invalidated(t)
    PROVE  CachesOK'
<1>1. pools' \in Seq(Tenants) /\ Distinct(pools')
  BY TakesOut DEF CachesOK, Invalidated
<1>2. alive' \in [Tenants -> Int]
  BY DEF CachesOK, Invalidated, Ended
<1> QED
  BY <1>1, <1>2 DEF CachesOK, Invalidated

\* A new pool keeps the caches typed, and says which pool has made room for it.
LEMMA InsertTyped ==
    ASSUME TypeInv, NEW r \in Requests, InsertPool(r), Len(pools) <= PoolMax,
           req[r].tenant \notin Range(pools)
    PROVE  /\ CachesOK'
           /\ \/ /\ Len(pools') <= PoolMax
                 /\ Range(pools') = Range(pools) \cup {req[r].tenant}
                 /\ alive' = [alive EXCEPT ![req[r].tenant] = @ + 1]
                 /\ req' = Settled(r)
                 /\ pending' = [pending EXCEPT ![req[r].tenant] = FALSE]
              \/ \E old \in Range(pools) :
                   /\ Len(pools') <= PoolMax
                   /\ Range(pools') = (Range(pools) \cup {req[r].tenant}) \ {old}
                   /\ alive' = [alive EXCEPT ![req[r].tenant] = @ + 1, ![old] = @ - 1]
                   /\ Goto(r, "settle")
                   /\ UNCHANGED pending
<1>1. PICK t \in Tenants : t = req[r].tenant
  BY DEF InsertPool, TypeInv, RequestsOK, Equipped
<1>2. CachesOK
  BY DEF TypeInv
<1>3. Without(t) = pools
  BY <1>1 DEF Without
<1>4. PICK order : order = Append(pools, t)
  OBVIOUS
<1>5. /\ order \in Seq(Tenants)
      /\ Distinct(order)
      /\ Range(order) = Range(pools) \cup {t}
      /\ Len(order) = Len(pools) + 1
      /\ order[Len(order)] = t
  BY <1>1, <1>2, <1>4, PutsLast DEF CachesOK
<1>6. Len(order) <= PoolMax + 1
  BY <1>2, <1>5, LenProperties, TenancyAssumption DEF CachesOK
<1>7. PICK excess : excess = Excess(order)
  OBVIOUS
<1>8. /\ pools' = SubSeq(order, Len(excess) + 1, Len(order))
      /\ alive' = [u \in Tenants |-> alive[u] + (IF u = t THEN 1 ELSE 0)
                                              - (IF u \in Range(excess) THEN 1 ELSE 0)]
      /\ IF excess = <<>> THEN /\ req' = Settled(r)
                              /\ pending' = [pending EXCEPT ![t] = FALSE]
         ELSE Goto(r, "settle") /\ UNCHANGED pending
      /\ UNCHANGED meta
  BY <1>1, <1>3, <1>4, <1>7 DEF InsertPool
<1>9. alive \in [Tenants -> Int] /\ pending \in [Tenants -> BOOLEAN]
  BY <1>2 DEF CachesOK
<1>10. alive' \in [Tenants -> Int] /\ pending' \in [Tenants -> BOOLEAN]
  <2>1. alive' \in [Tenants -> Int]
    BY <1>8, <1>9
  <2>2. pending' \in [Tenants -> BOOLEAN]
    BY <1>8, <1>9
  <2> QED
    BY <2>1, <2>2
<1>11. CASE excess = <<>>
  <2>1. Len(order) <= PoolMax /\ pools' = order
    BY <1>5, <1>6, <1>7, <1>8, <1>11, Evicts
  <2>2. \A u : u \notin Range(excess)
    BY <1>11 DEF Range
  <2>3. alive' = [alive EXCEPT ![t] = @ + 1]
    <3>1. alive' = [u \in Tenants |-> alive[u] + (IF u = t THEN 1 ELSE 0) - 0]
      BY <1>8, <2>2
    <3>2. \A u \in Tenants : alive'[u] = IF u = t THEN alive[u] + 1 ELSE alive[u]
      BY <3>1, <1>9
    <3> QED
      BY <3>1, <3>2, <1>9
  <2>4. CachesOK'
    BY <1>2, <1>5, <1>8, <1>10, <2>1 DEF CachesOK
  <2> QED
    BY <1>1, <1>5, <1>8, <1>11, <2>1, <2>3, <2>4
<1>12. CASE excess # <<>>
  <2>1. PICK old \in Range(order), kept \in Seq(Tenants) :
            /\ old # t
            /\ Range(excess) = {old}
            /\ kept = pools'
            /\ Distinct(kept)
            /\ Range(kept) = Range(order) \ {old}
            /\ Len(kept) = PoolMax
    BY <1>5, <1>6, <1>7, <1>8, <1>12, Evicts
  <2>2. old \in Range(pools) /\ old \in Tenants
    <3>1. old \in Range(pools)
      BY <1>5, <2>1
    <3>2. \A i \in DOMAIN pools : pools[i] \in Tenants
      BY <1>2, LenProperties, ElementOfSeq DEF CachesOK
    <3> QED
      BY <3>1, <3>2 DEF Range
  <2>3. alive' = [alive EXCEPT ![t] = @ + 1, ![old] = @ - 1]
    <3>1. alive' = [u \in Tenants |-> alive[u] + (IF u = t THEN 1 ELSE 0)
                                                - (IF u = old THEN 1 ELSE 0)]
      BY <1>8, <2>1
    <3>2. \A u \in Tenants : alive'[u] = IF u = t THEN alive[u] + 1
                                        ELSE IF u = old THEN alive[u] - 1 ELSE alive[u]
      BY <3>1, <1>9, <2>1
    <3> QED
      BY <3>1, <3>2, <1>9, <2>1
  <2>4. CachesOK'
    BY <1>2, <1>8, <1>10, <2>1 DEF CachesOK
  <2>5. Len(pools') <= PoolMax /\ Range(pools') = (Range(pools) \cup {t}) \ {old}
    BY <1>5, <2>1, TenancyAssumption
  <2> QED
    BY <1>1, <1>8, <1>12, <2>2, <2>3, <2>4, <2>5
<1> QED
  BY <1>11, <1>12

-------------------------------------------------------------------------------
(* Pools                                                                   *)

Early(q)   == q.step \in {"open", "insert"}
Opening(q) == Early(q) \/ q.step = "settle"

\* A pool that is being opened is pending, one request opens it, and until it is put
\* into the map the tenant has none.
OpeningInv ==
    /\ \A r \in Requests : Opening(req[r]) => pending[req[r].tenant]
    /\ \A q, r \in Requests : Opening(req[q]) /\ Opening(req[r]) /\ req[q].tenant = req[r].tenant
                                  => q = r
    /\ \A r \in Requests : Early(req[r]) => req[r].tenant \notin Range(pools)

PoolInv == OnePool /\ OpeningInv

IInv == TypeInv /\ PoolInv

\* No request begins to open a pool.
NoneOpens ==
    \A q \in Requests : Opening(req'[q]) => /\ Opening(req[q])
                                            /\ req'[q].tenant = req[q].tenant
                                            /\ Early(req'[q]) => Early(req[q])

\* Where no request begins to open a pool, and those that are being opened stay pending and
\* without a pool in the map, openings stay apart.
LEMMA OpeningsGoOn ==
    ASSUME OpeningInv, NoneOpens,
           \A q \in Requests : Opening(req'[q]) => pending'[req[q].tenant],
           \A q \in Requests : Early(req'[q]) => req[q].tenant \notin Range(pools')
    PROVE  OpeningInv'
<1>1. \A q \in Requests : Early(req'[q]) => Opening(req'[q])
  BY DEF Opening
<1> QED
  BY <1>1 DEF OpeningInv, NoneOpens

\* The same of steps that open none and only lose pools.
LEMMA NoneOpened ==
    ASSUME OpeningInv, NoneOpens,
           UNCHANGED pending \/ \A q \in Requests : pending[req[q].tenant] => pending'[req[q].tenant],
           Range(pools') \subseteq Range(pools)
    PROVE  OpeningInv'
<1>1. \A q \in Requests : Opening(req'[q]) => pending'[req[q].tenant]
  BY DEF OpeningInv, NoneOpens
<1>2. \A q \in Requests : Early(req'[q]) => Opening(req'[q])
  BY DEF Opening
<1>3. \A q \in Requests : Early(req'[q]) => req[q].tenant \notin Range(pools')
  BY <1>2 DEF OpeningInv, NoneOpens
<1> QED
  BY <1>1, <1>3, OpeningsGoOn

\* A step that leaves the pools and opens none.
PoolsRest == UNCHANGED <<pools, alive, pending>> /\ NoneOpens

\* A step that touches neither pools nor the requests that hold them keeps the pools.
LEMMA PoolsAtRest ==
    ASSUME PoolInv, PoolsRest
    PROVE  PoolInv'
<1>1. OnePool'
  BY DEF PoolInv, OnePool, PoolsRest
<1>2. OpeningInv'
  BY NoneOpened DEF PoolInv, PoolsRest
<1> QED
  BY <1>1, <1>2 DEF PoolInv

\* An admitted request finds the pool, waits for it, or is the only one to open it.
LEMMA AdmitKeeps ==
    ASSUME IInv, NEW r \in Requests, NEW t \in Tenants, NEW s, Admit(r, t, s),
           ~Opening(req[r]), UNCHANGED alive
    PROVE  PoolInv'
<1>1. /\ Range(pools') = Range(pools) /\ Len(pools') = Len(pools)
      /\ req' = [req EXCEPT ![r] = req'[r]]
      /\ \/ req'[r] = Idle /\ UNCHANGED pending
         \/ /\ req'[r] = [Idle EXCEPT !.step = Route(t), !.op = "use", !.tenant = t]
            /\ pending' = [pending EXCEPT ![t] = (@ \/ Route(t) = "open")]
  BY AdmitTyped DEF IInv
<1>2. OnePool'
  BY <1>1 DEF IInv, PoolInv, OnePool
<1>3. pending \in [Tenants -> BOOLEAN] /\ req \in [Requests -> Request]
  BY DEF IInv, TypeInv, CachesOK, RequestsOK
<1>4. \A q \in Requests : q # r => req'[q] = req[q]
  BY <1>1, <1>3
<1>5. \A q \in Requests : Opening(req[q]) => req[q].tenant \in Tenants
  BY DEF IInv, TypeInv, RequestsOK, Equipped, Opening, Early
<1>6. CASE ~Opening(req'[r])
  <2>1. NoneOpens
    BY <1>4, <1>6 DEF NoneOpens
  <2>2. \A u \in Tenants : pending[u] => pending'[u]
    BY <1>1, <1>3
  <2>3. \A q \in Requests : Opening(req'[q]) => pending'[req[q].tenant]
    BY <1>5, <2>1, <2>2 DEF IInv, PoolInv, OpeningInv, NoneOpens
  <2>4. \A q \in Requests : Early(req'[q]) => Opening(req'[q])
    BY DEF Opening
  <2>5. \A q \in Requests : Early(req'[q]) => req[q].tenant \notin Range(pools')
    BY <1>1, <2>1, <2>4 DEF IInv, PoolInv, OpeningInv, NoneOpens
  <2> QED
    BY <1>2, <2>1, <2>3, <2>5, OpeningsGoOn DEF IInv, PoolInv
<1>7. CASE Opening(req'[r])
  <2>1. /\ req'[r].step = Route(t) /\ req'[r].tenant = t
        /\ pending' = [pending EXCEPT ![t] = (@ \/ Route(t) = "open")]
    <3>1. req'[r] # Idle
      BY <1>7, IdleTyped DEF Opening, Early
    <3>2. /\ req'[r] = [Idle EXCEPT !.step = Route(t), !.op = "use", !.tenant = t]
          /\ pending' = [pending EXCEPT ![t] = (@ \/ Route(t) = "open")]
      BY <1>1, <3>1
    <3> QED
      BY <3>2 DEF Idle
  <2>2. Route(t) = "open" /\ t \notin Range(pools) /\ ~pending[t]
    BY <1>7, <2>1 DEF Route, Opening, Early
  <2>3. pending'[t] /\ \A u \in Tenants : pending[u] => pending'[u]
    BY <1>3, <2>1, <2>2
  <2>4. \A q \in Requests : q # r /\ Opening(req'[q]) => req'[q].tenant # t /\ pending'[req'[q].tenant]
    BY <1>4, <1>5, <2>2, <2>3 DEF IInv, PoolInv, OpeningInv
  <2>5. \A q \in Requests : Early(req'[q]) => req'[q].tenant \notin Range(pools')
    BY <1>1, <1>4, <2>1, <2>2 DEF IInv, PoolInv, OpeningInv
  <2>6. \A p, q \in Requests : Opening(req'[p]) /\ Opening(req'[q]) /\ req'[p].tenant = req'[q].tenant
                                  => p = q
    BY <1>4, <2>1, <2>4 DEF IInv, PoolInv, OpeningInv
  <2>7. OpeningInv'
    BY <2>1, <2>3, <2>4, <2>5, <2>6 DEF OpeningInv
  <2> QED
    BY <1>2, <2>7 DEF PoolInv
<1> QED
  BY <1>6, <1>7

\* The opening that ends was the only one of its tenant.
LEMMA OpeningEnds ==
    ASSUME IInv, NEW r \in Requests, Opening(req[r]), OnePool',
           pending' = [pending EXCEPT ![req[r].tenant] = FALSE],
           Range(pools') \subseteq Range(pools) \cup {req[r].tenant},
           \A q \in Requests : req'[q] = req[q] \/ ~Opening(req'[q]),
           ~Opening(req'[r])
    PROVE  PoolInv'
<1>1. pending \in [Tenants -> BOOLEAN] /\ req[r].tenant \in Tenants
  BY DEF IInv, TypeInv, CachesOK, RequestsOK, Equipped, Opening, Early
<1>2. \A q \in Requests : Opening(req'[q]) => /\ req'[q] = req[q]
                                              /\ req[q].tenant # req[r].tenant
                                              /\ req[q].tenant \in Tenants
  <2>1. \A q \in Requests : Opening(req[q]) => req[q].tenant \in Tenants
    BY DEF IInv, TypeInv, RequestsOK, Equipped, Opening, Early
  <2> QED
    BY <2>1 DEF IInv, PoolInv, OpeningInv
<1>3. NoneOpens
  BY <1>2 DEF NoneOpens
<1>4. \A q \in Requests : Opening(req'[q]) => pending'[req[q].tenant]
  BY <1>1, <1>2 DEF IInv, PoolInv, OpeningInv
<1>5. \A q \in Requests : Early(req'[q]) => req[q].tenant \notin Range(pools')
  <2>1. \A q \in Requests : Early(req'[q]) => Opening(req'[q])
    BY DEF Opening
  <2> QED
    BY <2>1, <1>2 DEF IInv, PoolInv, OpeningInv
<1> QED
  BY <1>3, <1>4, <1>5, OpeningsGoOn DEF IInv, PoolInv

\* The pool of an invalidated tenant is taken out and ended.
LEMMA InvalidatedKeeps ==
    ASSUME IInv, NEW t \in Tenants, Invalidated(t), NoneOpens
    PROVE  PoolInv'
<1>1. pools \in Seq(Tenants) /\ Distinct(pools) /\ alive \in [Tenants -> Int]
  BY DEF IInv, TypeInv, CachesOK
<1>2. pools' = Without(t) /\ alive' = Ended(t) /\ UNCHANGED pending
  BY DEF Invalidated
<1>3. /\ Range(pools') = Range(pools) \ {t}
      /\ Len(pools') = Len(pools) - (IF t \in Range(pools) THEN 1 ELSE 0)
  BY <1>1, <1>2, TakesOut
<1>4. \A u \in Tenants : alive'[u] = IF u = t /\ t \in Range(pools) THEN alive[u] - 1 ELSE alive[u]
  BY <1>1, <1>2 DEF Ended
<1>5. OnePool'
  <2>1. Len(pools') <= PoolMax
    BY <1>1, <1>3, LenProperties, TenancyAssumption DEF IInv, PoolInv, OnePool
  <2>2. \A u \in Tenants : alive'[u] = IF u \in Range(pools') THEN 1 ELSE 0
    BY <1>3, <1>4 DEF IInv, PoolInv, OnePool
  <2> QED
    BY <2>1, <2>2 DEF OnePool
<1>6. OpeningInv'
  BY <1>2, <1>3, NoneOpened DEF IInv, PoolInv
<1> QED
  BY <1>5, <1>6 DEF PoolInv

\* A request that ends, or goes on without opening a pool, opens none.
LEMMA OneGoesOn ==
    ASSUME RequestsOK, NEW r \in Requests, NEW q, req' = [req EXCEPT ![r] = q], ~Opening(q)
    PROVE  NoneOpens
BY DEF RequestsOK, NoneOpens

\* A process that starts satisfies the invariant.
LEMMA InitKeeps == Init => IInv
<1> SUFFICES ASSUME Init PROVE IInv
  OBVIOUS
<1>1. pools = <<>> /\ Len(pools) = 0 /\ Range(pools) = {}
  <2>1. pools = <<>>
    BY DEF Init, InitTenants
  <2>2. Len(<<>>) = 0
    OBVIOUS
  <2> QED
    BY <2>1, <2>2 DEF Range
<1>2. OnePool
  BY <1>1, TenancyAssumption DEF Init, InitTenants, OnePool
<1>3. OpeningInv
  BY IdleTyped DEF Init, OpeningInv, Opening, Early
<1> QED
  BY <1>2, <1>3, InitTypes DEF IInv, PoolInv

\* A request that uses the tenant's pool keeps the invariant at each of its steps.
LEMMA UseKeeps ==
    ASSUME IInv, NEW r \in Requests, Use(r)
    PROVE  IInv'
<1>1. RowsOK /\ CachesOK /\ RequestsOK /\ PoolInv
  BY DEF IInv, TypeInv
<1>2. req[r] \in Request /\ Equipped(req[r]) /\ req \in [Requests -> Request]
  BY <1>1 DEF RequestsOK
<1>3. ASSUME NEW t \in Tenants, BeginCached(r, t)
      PROVE  IInv'
  <2>1. Admit(r, t, meta[t].status) /\ req[r] = Idle /\ UNCHANGED <<rows, meta, alive>>
    BY <1>3 DEF BeginCached
  <2>2. ~Opening(req[r])
    BY <2>1, IdleTyped DEF Opening, Early
  <2>3. TypeInv
    BY DEF IInv
  <2>4. RequestsOK' /\ pools' \in Seq(Tenants) /\ Distinct(pools') /\ pending' \in [Tenants -> BOOLEAN]
    BY <2>1, <2>3, AdmitTyped
  <2>5. TypeInv'
    BY <1>1, <2>1, <2>4 DEF TypeInv, RowsOK, CachesOK, rows
  <2>6. PoolInv'
    BY <2>1, <2>2, AdmitKeeps
  <2> QED
    BY <2>5, <2>6 DEF IInv
<1>4. ASSUME NEW t \in Tenants, BeginLookup(r, t)
      PROVE  IInv'
  <2>1. PICK q : q = [Idle EXCEPT !.step = "select", !.op = "use", !.tenant = t]
    OBVIOUS
  <2>2. q \in Request /\ Equipped(q) /\ ~Opening(q)
    BY <2>1 DEF Idle, Request, StepNames, Equipped, Opening, Early
  <2>3. req' = [req EXCEPT ![r] = q] /\ UNCHANGED <<rows, caches>>
    BY <1>4, <2>1 DEF BeginLookup
  <2>4. TypeInv'
    BY <1>1, <2>2, <2>3, RequestReplaced DEF TypeInv, RowsOK, CachesOK, RequestsOK, rows, caches
  <2>5. PoolsRest
    BY <1>1, <2>2, <2>3, OneGoesOn DEF PoolsRest, caches
  <2> QED
    BY <1>1, <2>4, <2>5, PoolsAtRest DEF IInv
<1>5. ASSUME Select(r)
      PROVE  IInv'
  <2>1. PICK q : q = [req[r] EXCEPT !.step = "store", !.seen = status[req[r].tenant]]
    OBVIOUS
  <2>2. req[r].step = "select" /\ req' = [req EXCEPT ![r] = q] /\ UNCHANGED <<rows, caches>>
    BY <1>2, <1>5, <2>1 DEF Select
  <2>3. q \in Request /\ Equipped(q) /\ ~Opening(q)
    <3>1. status[req[r].tenant] \in Statuses
      BY <1>1, <1>2, <2>2 DEF RowsOK, Equipped
    <3> QED
      BY <1>2, <2>1, <2>2, <3>1 DEF Request, StepNames, Equipped, Opening, Early
  <2>4. TypeInv'
    BY <1>1, <2>2, <2>3, RequestReplaced DEF TypeInv, RowsOK, CachesOK, RequestsOK, rows, caches
  <2>5. PoolsRest
    BY <1>1, <2>2, <2>3, OneGoesOn DEF PoolsRest, caches
  <2> QED
    BY <1>1, <2>4, <2>5, PoolsAtRest DEF IInv
<1>6. ASSUME Store(r)
      PROVE  IInv'
  <2>1. PICK t \in Tenants : t = req[r].tenant
    BY <1>2, <1>6 DEF Store, Equipped
  <2>2. PICK entry : entry = [status |-> req[r].seen, age |-> 0, late |-> req[r].late]
    OBVIOUS
  <2>3. /\ Admit(r, t, req[r].seen)
        /\ req[r].step = "store"
        /\ meta' = [meta EXCEPT ![t] = entry]
        /\ UNCHANGED <<rows, alive>>
    BY <1>6, <2>1, <2>2 DEF Store
  <2>4. ~Opening(req[r])
    BY <2>3 DEF Opening, Early
  <2>5. entry \in Cached
    BY <1>2, <2>2, <2>3, Bounds DEF Equipped, Request, Cached
  <2>6. meta' \in [Tenants -> Cached \cup {None}]
    BY <1>1, <2>3, <2>5 DEF CachesOK
  <2>7. TypeInv
    BY DEF IInv
  <2>8. RequestsOK' /\ pools' \in Seq(Tenants) /\ Distinct(pools') /\ pending' \in [Tenants -> BOOLEAN]
    BY <2>3, <2>7, AdmitTyped
  <2>9. TypeInv'
    BY <1>1, <2>3, <2>6, <2>8 DEF TypeInv, RowsOK, CachesOK, rows
  <2>10. PoolInv'
    BY <2>3, <2>4, AdmitKeeps
  <2> QED
    BY <2>9, <2>10 DEF IInv
<1>7. ASSUME ReadCredentials(r)
      PROVE  IInv'
  <2>1. req[r].step = "open" /\ Goto(r, "insert") /\ UNCHANGED <<rows, caches>>
    BY <1>7 DEF ReadCredentials
  <2>2. TypeInv'
    BY <1>1, <2>1, GotoTyped DEF TypeInv, RowsOK, CachesOK, StepNames, rows, caches
  <2>3. NoneOpens
    BY <1>2, <2>1 DEF NoneOpens, Goto, Opening, Early, Request
  <2> QED
    BY <1>1, <2>1, <2>2, <2>3, PoolsAtRest DEF IInv, PoolsRest, caches
<1>8. ASSUME OpenFails(r)
      PROVE  IInv'
  <2>1. /\ req[r].step = "open"
        /\ pending' = [pending EXCEPT ![req[r].tenant] = FALSE]
        /\ req' = [q \in Requests |-> IF q \in Together(r) THEN Idle ELSE req[q]]
        /\ UNCHANGED <<rows, meta, pools, alive>>
    BY <1>8 DEF OpenFails
  <2>2. RequestsOK'
    BY <1>1, <2>1, TogetherTyped
  <2>3. TypeInv'
    BY <1>1, <2>1, <2>2 DEF TypeInv, RowsOK, CachesOK, rows
  <2>4. \A q \in Requests : req'[q] = req[q] \/ ~Opening(req'[q])
    BY <2>1, IdleTyped DEF Opening, Early
  <2>5. ~Opening(req'[r]) /\ Opening(req[r])
    BY <2>1, IdleTyped DEF Opening, Early, Together
  <2>6. OnePool'
    BY <1>1, <2>1 DEF PoolInv, OnePool
  <2>7. PoolInv'
    BY <2>1, <2>4, <2>5, <2>6, OpeningEnds
  <2> QED
    BY <2>3, <2>7 DEF IInv
<1>9. ASSUME InsertPool(r)
      PROVE  IInv'
  <2>1. req[r].step = "insert" /\ UNCHANGED <<rows, meta>>
    BY <1>9 DEF InsertPool
  <2>2. Opening(req[r]) /\ Early(req[r])
    BY <2>1 DEF Opening, Early
  <2>3. PICK t \in Tenants : t = req[r].tenant /\ t \notin Range(pools) /\ pending[t]
    BY <1>1, <1>2, <2>1, <2>2 DEF PoolInv, OpeningInv, Equipped
  <2>4. Len(pools) <= PoolMax /\ TypeInv
    BY <1>1 DEF IInv, PoolInv, OnePool
  <2>5. /\ CachesOK'
        /\ \/ /\ Len(pools') <= PoolMax
              /\ Range(pools') = Range(pools) \cup {t}
              /\ alive' = [alive EXCEPT ![t] = @ + 1]
              /\ req' = Settled(r)
              /\ pending' = [pending EXCEPT ![t] = FALSE]
           \/ \E old \in Range(pools) :
                /\ Len(pools') <= PoolMax
                /\ Range(pools') = (Range(pools) \cup {t}) \ {old}
                /\ alive' = [alive EXCEPT ![t] = @ + 1, ![old] = @ - 1]
                /\ Goto(r, "settle")
                /\ UNCHANGED pending
    BY <1>9, <2>3, <2>4, InsertTyped
  <2>6. alive \in [Tenants -> Int] /\ \A u \in Tenants : alive[u] = IF u \in Range(pools) THEN 1 ELSE 0
    BY <1>1 DEF CachesOK, PoolInv, OnePool
  <2>7. CASE /\ Len(pools') <= PoolMax
             /\ Range(pools') = Range(pools) \cup {t}
             /\ alive' = [alive EXCEPT ![t] = @ + 1]
             /\ req' = Settled(r)
             /\ pending' = [pending EXCEPT ![t] = FALSE]
    <3>1. RequestsOK'
      BY <1>1, <2>1, <2>7, TogetherTyped
    <3>2. TypeInv'
      BY <1>1, <2>1, <2>5, <3>1 DEF TypeInv, RowsOK, rows
    <3>3. OnePool'
      BY <2>3, <2>6, <2>7 DEF OnePool
    <3>4. \A q \in Requests : req'[q] = req[q] \/ req'[q] = [req[q] EXCEPT !.step = "serve"]
      BY <2>7 DEF Settled
    <3>5. \A q \in Requests : req[q] \in Request
      BY <1>2
    <3>6. \A q \in Requests : req'[q] = req[q] \/ ~Opening(req'[q])
      BY <3>4, <3>5 DEF Opening, Early, Request
    <3>7. ~Opening(req'[r])
      BY <1>2, <2>7 DEF Settled, Together, Opening, Early, Request
    <3>8. PoolInv'
      BY <2>2, <2>3, <2>7, <3>3, <3>6, <3>7, OpeningEnds
    <3> QED
      BY <3>2, <3>8 DEF IInv
  <2>8. ASSUME NEW old \in Range(pools),
               /\ Len(pools') <= PoolMax
               /\ Range(pools') = (Range(pools) \cup {t}) \ {old}
               /\ alive' = [alive EXCEPT ![t] = @ + 1, ![old] = @ - 1]
               /\ Goto(r, "settle")
               /\ UNCHANGED pending
        PROVE  IInv'
    <3>1. RequestsOK'
      BY <1>1, <2>1, <2>8, GotoTyped DEF StepNames
    <3>2. TypeInv'
      BY <1>1, <2>1, <2>5, <3>1 DEF TypeInv, RowsOK, rows
    <3>3. old # t
      BY <2>3
    <3>4. \A u \in Tenants : alive'[u] = IF u = t THEN alive[u] + 1
                                        ELSE IF u = old THEN alive[u] - 1 ELSE alive[u]
      BY <2>6, <2>8, <3>3
    <3>5. OnePool'
      BY <2>3, <2>6, <2>8, <3>3, <3>4 DEF OnePool
    <3>6. /\ \A q \in Requests : q # r => req'[q] = req[q]
          /\ req'[r].step = "settle" /\ req'[r].tenant = t
      BY <1>2, <2>3, <2>8 DEF Goto, Request
    <3>7. NoneOpens
      BY <2>2, <2>3, <3>6 DEF NoneOpens, Early
    <3>8. \A q \in Requests : Opening(req'[q]) => pending'[req[q].tenant]
      BY <1>1, <2>8, <3>7 DEF PoolInv, OpeningInv, NoneOpens
    <3>9. \A q \in Requests : Early(req'[q]) => req[q].tenant \notin Range(pools')
      <4>1. ~Early(req'[r])
        BY <3>6 DEF Early
      <4>2. \A q \in Requests : Early(req[q]) => Opening(req[q])
        BY DEF Opening
      <4>3. \A q \in Requests : q # r /\ Early(req[q]) => req[q].tenant # t /\ req[q].tenant \notin Range(pools)
        BY <1>1, <2>2, <2>3, <4>2 DEF PoolInv, OpeningInv
      <4> QED
        BY <2>8, <3>6, <4>1, <4>3
    <3>10. PoolInv'
      BY <1>1, <3>5, <3>7, <3>8, <3>9, OpeningsGoOn DEF PoolInv
    <3> QED
      BY <3>2, <3>10 DEF IInv
  <2> QED
    BY <2>5, <2>7, <2>8
<1>10. ASSUME Settle(r)
       PROVE  IInv'
  <2>1. /\ req[r].step = "settle"
        /\ pending' = [pending EXCEPT ![req[r].tenant] = FALSE]
        /\ req' = Settled(r)
        /\ UNCHANGED <<rows, meta, pools, alive>>
    BY <1>10 DEF Settle
  <2>2. RequestsOK'
    BY <1>1, <2>1, TogetherTyped
  <2>3. TypeInv'
    BY <1>1, <2>1, <2>2 DEF TypeInv, RowsOK, CachesOK, rows
  <2>4. \A q \in Requests : req[q] \in Request /\
           (req'[q] = req[q] \/ req'[q] = [req[q] EXCEPT !.step = "serve"])
    BY <1>2, <2>1 DEF Settled
  <2>5. \A q \in Requests : req'[q] = req[q] \/ ~Opening(req'[q])
    BY <2>4 DEF Opening, Early, Request
  <2>6. ~Opening(req'[r]) /\ Opening(req[r])
    BY <1>2, <2>1 DEF Settled, Together, Opening, Early, Request
  <2>7. OnePool'
    BY <1>1, <2>1 DEF PoolInv, OnePool
  <2>8. PoolInv'
    BY <2>1, <2>5, <2>6, <2>7, OpeningEnds
  <2> QED
    BY <2>3, <2>8 DEF IInv
<1>11. ASSUME Serve(r)
       PROVE  IInv'
  <2>1. End(r) /\ UNCHANGED <<rows, caches>>
    BY <1>11 DEF Serve
  <2>2. TypeInv'
    BY <1>1, <2>1, EndTyped DEF TypeInv, RowsOK, CachesOK, rows, caches
  <2>3. ~Opening(Idle)
    BY IdleTyped DEF Opening, Early
  <2>4. PoolsRest
    BY <1>1, <2>1, <2>3, OneGoesOn DEF PoolsRest, End, caches
  <2> QED
    BY <1>1, <2>2, <2>4, PoolsAtRest DEF IInv
<1> QED
  BY <1>3, <1>4, <1>5, <1>6, <1>7, <1>8, <1>9, <1>10, <1>11 DEF Use

\* A change of the tenant's status keeps the invariant, and so does a request that fails.
LEMMA AdministerKeeps ==
    ASSUME IInv, NEW r \in Requests, Administer(r) \/ Fail(r)
    PROVE  IInv'
<1>1. RowsOK /\ CachesOK /\ RequestsOK /\ PoolInv
  BY DEF IInv, TypeInv
<1>2. req[r] \in Request /\ Equipped(req[r]) /\ req \in [Requests -> Request]
  BY <1>1 DEF RequestsOK
<1>3. ~Opening(Idle)
  BY IdleTyped DEF Opening, Early
<1>4. ASSUME NEW t \in Tenants, NEW to \in Targets, BeginSetStatus(r, t, to)
      PROVE  IInv'
  <2>1. PICK q : q = [Idle EXCEPT !.step = "update", !.op = "setStatus", !.tenant = t, !.to = to]
    OBVIOUS
  <2>2. q \in Request /\ Equipped(q) /\ ~Opening(q)
    BY <2>1 DEF Idle, Request, StepNames, Equipped, Opening, Early
  <2>3. req' = [req EXCEPT ![r] = q] /\ UNCHANGED <<rows, caches>>
    BY <1>4, <2>1 DEF BeginSetStatus
  <2>4. TypeInv'
    BY <1>1, <2>2, <2>3, RequestReplaced DEF TypeInv, RowsOK, CachesOK, RequestsOK, rows, caches
  <2>5. PoolsRest
    BY <1>1, <2>2, <2>3, OneGoesOn DEF PoolsRest, caches
  <2> QED
    BY <1>1, <2>4, <2>5, PoolsAtRest DEF IInv
<1>5. ASSUME UpdateStatus(r)
      PROVE  IInv'
  <2>1. PICK t \in Tenants : t = req[r].tenant
    BY <1>2, <1>5 DEF UpdateStatus, Equipped
  <2>2. PICK s \in Targets : s = req[r].to
    BY <1>2, <1>5 DEF UpdateStatus, Equipped
  <2>3. /\ req[r].step = "update"
        /\ SetRow(t, s)
        /\ req' = [Outdated(t, s) EXCEPT ![r].step = "invalidate", ![r].waited = 0]
        /\ UNCHANGED <<setup, prov, caches>>
    BY <1>5, <2>1, <2>2 DEF UpdateStatus
  <2>4. RowsOK'
    BY <1>1, <2>3, Bounds DEF RowsOK, SetRow, Targets, Statuses
  <2>5. PICK f \in [Requests -> Request] : f = Outdated(t, s)
    BY <1>1, OutdatedTyped
  <2>6. \A q \in Requests : Equipped(f[q]) /\ f[q].step = req[q].step /\ f[q].tenant = req[q].tenant
    BY <1>1, <2>5, OutdatedTyped
  <2>7. PICK p : p = [f[r] EXCEPT !.step = "invalidate", !.waited = 0]
    OBVIOUS
  <2>8. p \in Request /\ Equipped(p) /\ ~Opening(p)
    <3>1. f[r] \in Request /\ f[r].tenant \in Tenants
      BY <2>3, <2>5, <2>6 DEF Equipped
    <3>2. /\ p \in Request /\ p.step = "invalidate" /\ p.tenant = f[r].tenant
      BY <2>7, <3>1 DEF Request, StepNames
    <3> QED
      BY <3>1, <3>2 DEF Equipped, Opening, Early
  <2>9. req' = [f EXCEPT ![r] = p]
    BY <2>3, <2>5, <2>7
  <2>10. RequestsOK'
    BY <2>6, <2>8, <2>9 DEF RequestsOK
  <2>11. NoneOpens
    BY <2>6, <2>8, <2>9 DEF NoneOpens, Opening, Early
  <2>12. PoolsRest
    BY <2>3, <2>11 DEF PoolsRest, caches
  <2>13. CachesOK'
    BY <1>1, <2>3 DEF CachesOK, caches
  <2> QED
    BY <1>1, <2>4, <2>10, <2>12, <2>13, PoolsAtRest DEF IInv, TypeInv
<1>6. ASSUME Invalidate(r)
      PROVE  IInv'
  <2>1. PICK t \in Tenants : t = req[r].tenant
    BY <1>2, <1>6 DEF Invalidate, Equipped
  <2>2. Invalidated(t) /\ End(r) /\ UNCHANGED rows
    BY <1>6, <2>1 DEF Invalidate
  <2>3. TypeInv'
    BY <1>1, <2>2, InvalidatedTyped, EndTyped DEF TypeInv, RowsOK, rows
  <2>4. NoneOpens
    BY <1>1, <1>3, <2>2, OneGoesOn DEF End
  <2>5. PoolInv'
    BY <2>2, <2>4, InvalidatedKeeps
  <2> QED
    BY <2>3, <2>5 DEF IInv
<1>7. ASSUME Fail(r)
      PROVE  IInv'
  <2>1. End(r) /\ UNCHANGED <<rows, caches>>
    BY <1>7 DEF Fail
  <2>2. TypeInv'
    BY <1>1, <2>1, EndTyped DEF TypeInv, RowsOK, CachesOK, rows, caches
  <2>3. PoolsRest
    BY <1>1, <1>3, <2>1, OneGoesOn DEF PoolsRest, End, caches
  <2> QED
    BY <1>1, <2>2, <2>3, PoolsAtRest DEF IInv
<1> QED
  BY <1>4, <1>5, <1>6, <1>7 DEF Administer, Targets

\* A new status of the row leaves the pools alone.
LEMMA RowSet ==
    ASSUME IInv, NEW t \in Tenants, NEW s \in Statuses, req' = Outdated(t, s),
           UNCHANGED caches, RowsOK'
    PROVE  IInv'
<1>1. RowsOK /\ CachesOK /\ RequestsOK /\ PoolInv
  BY DEF IInv, TypeInv
<1>2. RequestsOK' /\ \A q \in Requests : req'[q].step = req[q].step /\ req'[q].tenant = req[q].tenant
  BY <1>1, OutdatedTyped DEF RequestsOK
<1>3. NoneOpens
  BY <1>2 DEF NoneOpens, Opening, Early
<1>4. PoolsRest
  BY <1>3 DEF PoolsRest, caches
<1>5. CachesOK'
  BY <1>1 DEF CachesOK, caches
<1> QED
  BY <1>1, <1>2, <1>4, <1>5, PoolsAtRest DEF IInv, TypeInv

\* Neither does a step that changes the rows only.
LEMMA RowsChange ==
    ASSUME IInv, UNCHANGED <<caches, req>>, RowsOK'
    PROVE  IInv'
<1>1. RowsOK /\ CachesOK /\ RequestsOK /\ PoolInv
  BY DEF IInv, TypeInv
<1>2. CachesOK' /\ RequestsOK'
  BY <1>1 DEF CachesOK, RequestsOK, caches
<1>3. PoolsRest
  BY DEF PoolsRest, NoneOpens, caches
<1> QED
  BY <1>1, <1>2, <1>3, PoolsAtRest DEF IInv, TypeInv

\* Provisioning a tenant keeps the invariant.
LEMMA ProvisionKeeps ==
    ASSUME IInv, NEW t \in Tenants, Provision(t)
    PROVE  IInv'
<1>1. RowsOK /\ CachesOK /\ RequestsOK /\ PoolInv
  BY DEF IInv, TypeInv
<1>2. 0 \in 0 .. MaxOut
  BY Bounds
<1>3. CASE CreateTenant(t)
  <2>1. RowsOK'
    BY <1>1, <1>3 DEF CreateTenant, RowsOK, Statuses
  <2> QED
    BY <1>3, <2>1, RowSet DEF CreateTenant, Statuses
<1>4. CASE ProvisionStep(t)
  <2>1. setup' = [setup EXCEPT ![t] = @ + 1] /\ setup[t] < 4 /\ UNCHANGED <<status, prov, out, caches, req>>
    BY <1>4, Bounds DEF ProvisionStep
  <2>2. setup' \in [Tenants -> 0 .. 4]
    BY <1>1, <2>1 DEF RowsOK
  <2>3. RowsOK'
    BY <1>1, <2>1, <2>2 DEF RowsOK
  <2> QED
    BY <2>1, <2>3, RowsChange
<1>5. CASE Activate(t)
  <2>1. RowsOK'
    BY <1>1, <1>2, <1>5 DEF Activate, RowsOK, Statuses, SetRow
  <2> QED
    BY <1>5, <2>1, RowSet DEF Activate, Statuses
<1>6. CASE Announce(t)
  <2>1. Invalidated(t) /\ RowsOK' /\ UNCHANGED req
    BY <1>1, <1>6 DEF Announce, RowsOK
  <2>2. CachesOK' /\ RequestsOK'
    BY <1>1, <2>1, InvalidatedTyped DEF RequestsOK
  <2>3. NoneOpens
    BY <2>1 DEF NoneOpens
  <2>4. PoolInv'
    BY <2>1, <2>3, InvalidatedKeeps
  <2> QED
    BY <2>1, <2>2, <2>4 DEF IInv, TypeInv
<1>7. CASE ProvisioningFails(t)
  <2>1. RowsOK'
    BY <1>1, <1>2, <1>7 DEF ProvisioningFails, RowsOK, Statuses, SetRow
  <2>2. UNCHANGED caches /\ (req' = Outdated(t, "failed") \/ UNCHANGED req)
    BY <1>7 DEF ProvisioningFails
  <2> QED
    BY <2>1, <2>2, RowSet, RowsChange DEF Statuses
<1> QED
  BY <1>3, <1>4, <1>5, <1>6, <1>7 DEF Provision

\* Time passing keeps the invariant.
LEMMA TickKeeps ==
    ASSUME IInv, Tick
    PROVE  IInv'
<1>1. RowsOK /\ CachesOK /\ RequestsOK /\ PoolInv
  BY DEF IInv, TypeInv
<1>2. /\ meta' = [t \in Tenants |-> Aged(meta[t])]
      /\ out' = [t \in Tenants |-> IF status[t] \in {"suspended", "failed"} /\ out[t] < MaxOut
                                   THEN out[t] + 1 ELSE out[t]]
      /\ req' = [r \in Requests |-> IF Querying(r) THEN [req[r] EXCEPT !.waited = 1] ELSE req[r]]
      /\ UNCHANGED <<status, setup, prov, pools, alive, pending>>
  BY DEF Tick
<1>3. RowsOK'
  <2>1. out' \in [Tenants -> 0 .. MaxOut]
    BY <1>1, <1>2, Bounds DEF RowsOK
  <2> QED
    BY <1>1, <1>2, <2>1 DEF RowsOK
<1>4. CachesOK'
  <2>1. ASSUME NEW e \in Cached \cup {None}
        PROVE  Aged(e) \in Cached \cup {None}
    <3>1. CASE e = None
      BY <3>1 DEF Aged
    <3>2. CASE e # None
      <4>1. e \in Cached /\ e.age \in 0 .. TTL
        BY <3>2 DEF Cached
      <4>2. PICK n : n = IF e.age < TTL THEN e.age + 1 ELSE e.age
        OBVIOUS
      <4>3. n \in 0 .. TTL
        BY <4>1, <4>2, Bounds
      <4>4. Aged(e) = [e EXCEPT !.age = n]
        BY <3>2, <4>2 DEF Aged
      <4> QED
        BY <4>1, <4>3, <4>4 DEF Cached
    <3> QED
      BY <3>1, <3>2
  <2>2. meta' \in [Tenants -> Cached \cup {None}]
    BY <1>1, <1>2, <2>1 DEF CachesOK
  <2> QED
    BY <1>1, <1>2, <2>2 DEF CachesOK
<1>5. \A r \in Requests : /\ req'[r] \in Request /\ Equipped(req'[r])
                          /\ req'[r].step = req[r].step /\ req'[r].tenant = req[r].tenant
  BY <1>1, <1>2 DEF RequestsOK, Request, Equipped
<1>6. RequestsOK'
  BY <1>2, <1>5 DEF RequestsOK
<1>7. PoolsRest
  BY <1>2, <1>5 DEF PoolsRest, NoneOpens, Opening, Early
<1> QED
  BY <1>1, <1>3, <1>4, <1>6, <1>7, PoolsAtRest DEF IInv, TypeInv

\* A restart drops every pool and cache at once, and keeps the invariant.
LEMMA RestartKeeps ==
    ASSUME IInv, Restart
    PROVE  IInv'
<1>1. RowsOK /\ CachesOK /\ RequestsOK /\ PoolInv
  BY DEF IInv, TypeInv
<1>2. /\ req' = [r \in Requests |-> Idle]
      /\ meta' = [t \in Tenants |-> None]
      /\ pools' = <<>>
      /\ alive' = [t \in Tenants |-> 0]
      /\ pending' = [t \in Tenants |-> FALSE]
      /\ prov' = [t \in Tenants |-> "none"]
      /\ UNCHANGED <<status, setup, out>>
  BY DEF Restart
<1>3. RowsOK'
  BY <1>1, <1>2 DEF RowsOK
<1>4. Range(pools') = {} /\ Len(pools') = 0 /\ pools' \in Seq(Tenants) /\ Distinct(pools')
  BY <1>2, EmptySeq DEF Range, Distinct
<1>5. CachesOK'
  BY <1>2, <1>4 DEF CachesOK
<1>6. RequestsOK'
  BY <1>2, IdleTyped DEF RequestsOK
<1>7. OnePool'
  BY <1>2, <1>4, TenancyAssumption DEF OnePool
<1>8. OpeningInv'
  BY <1>2, IdleTyped DEF OpeningInv, Opening, Early
<1> QED
  BY <1>3, <1>5, <1>6, <1>7, <1>8 DEF IInv, TypeInv, PoolInv

\* Every step keeps the invariant.
LEMMA NextKeeps == IInv /\ [Next]_vars => IInv'
<1> SUFFICES ASSUME IInv, [Next]_vars PROVE IInv'
  OBVIOUS
<1>1. CASE UNCHANGED vars
  <2>1. UNCHANGED <<caches, req>> /\ RowsOK'
    BY <1>1 DEF IInv, TypeInv, RowsOK, vars, rows
  <2> QED
    BY <2>1, RowsChange
<1>2. CASE Next
  BY <1>2, UseKeeps, AdministerKeeps, ProvisionKeeps, TickKeeps, RestartKeeps DEF Next
<1> QED
  BY <1>1, <1>2

\* Rows, caches and requests have their types, and the pools their bookkeeping, in
\* every state.
THEOREM Invariance == Spec => []IInv
<1>1. Init => IInv
  BY InitKeeps
<1>2. IInv /\ [Next]_vars => IInv'
  BY NextKeeps
<1> QED
  BY <1>1, <1>2, PTL DEF Spec

\* A tenant has one pool that has not been ended when it is in the map and none when it
\* is not, and the map keeps to its maximum, for any number of companies and requests.
THEOREM OnePoolEach == Spec => []OnePool
<1>1. IInv => OnePool
  BY DEF IInv, PoolInv
<1> QED
  BY <1>1, Invariance, PTL

-------------------------------------------------------------------------------
(* What the steps of requests leave alone                                  *)

\* Requests about to store a status, to update one or to invalidate a tenant: a step may
\* end such a request or leave it as it is.
Lasting(q) ==
    /\ req'[q].step \in {"store", "update"} => req'[q] = req[q]
    /\ req[q].step = "invalidate" => req'[q] = req[q]

\* Where one request goes on to a step that neither stores nor updates, every request lasts.
LEMMA OneChanges ==
    ASSUME RequestsOK, NEW r \in Requests, NEW q, req' = [req EXCEPT ![r] = q],
           q.step \notin {"store", "update"}, req[r].step # "invalidate"
    PROVE  \A p \in Requests : Lasting(p)
BY DEF RequestsOK, Lasting

\* So it does where those that waited together are served or fail together.
LEMMA TogetherLasting ==
    ASSUME RequestsOK, NEW r \in Requests, req[r].step \in {"open", "insert", "settle"},
           req' = Settled(r) \/ req' = [q \in Requests |-> IF q \in Together(r) THEN Idle ELSE req[q]]
    PROVE  \A p \in Requests : Lasting(p)
<1> SUFFICES ASSUME NEW p \in Requests PROVE Lasting(p)
  OBVIOUS
<1>1. req[p] \in Request
  BY DEF RequestsOK
<1>2. \/ req'[p] = req[p]
      \/ req[p].step # "invalidate" /\ req'[p] \in {Idle, [req[p] EXCEPT !.step = "serve"]}
  BY DEF Settled, Together
<1>3. Idle.step = "idle" /\ [req[p] EXCEPT !.step = "serve"].step = "serve"
  BY <1>1, IdleTyped DEF Request
<1>4. CASE req'[p] = req[p]
  BY <1>4 DEF Lasting
<1>5. CASE req[p].step # "invalidate" /\ req'[p] \in {Idle, [req[p] EXCEPT !.step = "serve"]}
  BY <1>3, <1>5 DEF Lasting
<1> QED
  BY <1>2, <1>4, <1>5

\* What an admitted request does next is none of these.
LEMMA AdmitLasting ==
    ASSUME IInv, NEW r \in Requests, NEW t \in Tenants, NEW s, Admit(r, t, s),
           req[r].step # "invalidate"
    PROVE  \A p \in Requests : Lasting(p)
<1>1. TypeInv /\ RequestsOK
  BY DEF IInv, TypeInv
<1>2. /\ req' = [req EXCEPT ![r] = req'[r]]
      /\ \/ req'[r] = Idle
         \/ req'[r] = [Idle EXCEPT !.step = Route(t), !.op = "use", !.tenant = t]
  BY <1>1, AdmitTyped
<1>3. req'[r].step \notin {"store", "update"}
  <2>1. Route(t) \in {"serve", "wait", "open"}
    BY DEF Route
  <2>2. PICK q : q = [Idle EXCEPT !.step = Route(t), !.op = "use", !.tenant = t]
    OBVIOUS
  <2>3. q.step = Route(t) /\ Idle.step = "idle"
    BY <2>2 DEF Idle
  <2> QED
    BY <1>2, <2>1, <2>2, <2>3
<1>4. PICK q : q = req'[r]
  OBVIOUS
<1>5. req' = [req EXCEPT ![r] = q] /\ q.step \notin {"store", "update"}
  BY <1>2, <1>3, <1>4
<1> QED
  BY <1>1, <1>5, OneChanges

\* The steps of a request on its way that read and write nothing of the tenant's status.
LEMMA UseLasting ==
    ASSUME IInv, NEW r \in Requests, Use(r), ~Select(r)
    PROVE  \A p \in Requests : Lasting(p)
<1>1. RequestsOK /\ req[r] \in Request
  BY DEF IInv, TypeInv, RequestsOK
<1>2. ASSUME NEW t \in Tenants, BeginCached(r, t)
      PROVE  \A p \in Requests : Lasting(p)
  BY <1>2, AdmitLasting, IdleTyped DEF BeginCached
<1>3. ASSUME NEW t \in Tenants, BeginLookup(r, t)
      PROVE  \A p \in Requests : Lasting(p)
  <2>1. PICK q : q = [Idle EXCEPT !.step = "select", !.op = "use", !.tenant = t]
    OBVIOUS
  <2>2. req' = [req EXCEPT ![r] = q] /\ q.step = "select" /\ req[r].step # "invalidate"
    BY <1>3, <2>1 DEF BeginLookup, Idle
  <2> QED
    BY <1>1, <2>2, OneChanges
<1>4. CASE Store(r)
  <2>1. req[r].tenant \in Tenants
    BY <1>4 DEF Store, IInv, TypeInv, RequestsOK, Equipped
  <2> QED
    BY <1>4, <2>1, AdmitLasting DEF Store
<1>5. CASE ReadCredentials(r)
  <2>1. PICK q : q = [req[r] EXCEPT !.step = "insert", !.waited = 0]
    OBVIOUS
  <2>2. req' = [req EXCEPT ![r] = q] /\ q.step = "insert" /\ req[r].step # "invalidate"
    BY <1>1, <1>5, <2>1 DEF ReadCredentials, Goto, Request
  <2> QED
    BY <1>1, <2>2, OneChanges
<1>6. CASE OpenFails(r)
  BY <1>1, <1>6, TogetherLasting DEF OpenFails
<1>7. CASE InsertPool(r)
  <2>1. req[r].step = "insert" /\ (req' = Settled(r) \/ Goto(r, "settle"))
    BY <1>7 DEF InsertPool
  <2>2. PICK q : q = [req[r] EXCEPT !.step = "settle", !.waited = 0]
    OBVIOUS
  <2>3. q.step = "settle" /\ (Goto(r, "settle") => req' = [req EXCEPT ![r] = q])
    BY <1>1, <2>2 DEF Goto, Request
  <2> QED
    BY <1>1, <2>1, <2>3, TogetherLasting, OneChanges
<1>8. CASE Settle(r)
  BY <1>1, <1>8, TogetherLasting DEF Settle
<1>9. CASE Serve(r)
  <2>1. req' = [req EXCEPT ![r] = Idle] /\ req[r].step # "invalidate"
    BY <1>9 DEF Serve, End
  <2> QED
    BY <1>1, <2>1, OneChanges, IdleTyped
<1> QED
  BY <1>2, <1>3, <1>4, <1>5, <1>6, <1>7, <1>8, <1>9 DEF Use

\* Serving a request writes no row of the master database, and of the metadata only the
\* copy it stores.
LEMMA UseLeavesRows ==
    ASSUME NEW r \in Requests, Use(r)
    PROVE  UNCHANGED rows /\ (Store(r) \/ UNCHANGED meta)
BY DEF Use, BeginCached, BeginLookup, Select, Store, ReadCredentials, OpenFails, InsertPool,
       Settle, Serve, caches

-------------------------------------------------------------------------------
(* Databases                                                               *)

\* Only a company whose database is set up is suspended or reactivated.
SetupInv ==
    /\ OpenIsReady
    /\ \A r \in Requests : req[r].step = "update" => setup[req[r].tenant] = Len(Steps)

\* No request begins to update a status.
NoneUpdates ==
    \A q \in Requests : req'[q].step = "update" => /\ req[q].step = "update"
                                                   /\ req'[q].tenant = req[q].tenant

\* A step that changes neither status nor setup leaves open tenants ready.
LEMMA SetupRests ==
    ASSUME SetupInv, NoneUpdates, UNCHANGED <<status, setup>>
    PROVE  SetupInv'
BY DEF SetupInv, OpenIsReady, NoneUpdates

\* Every step leaves open tenants ready.
LEMMA NextSetup == IInv /\ SetupInv /\ [Next]_vars => SetupInv'
<1> SUFFICES ASSUME IInv, SetupInv, [Next]_vars PROVE SetupInv'
  OBVIOUS
<1>1. RowsOK /\ RequestsOK
  BY DEF IInv, TypeInv
<1>2. CASE UNCHANGED vars
  BY <1>2, SetupRests DEF vars, rows, NoneUpdates
<1>3. ASSUME NEW r \in Requests, Use(r)
      PROVE  SetupInv'
  <2>1. NoneUpdates
    <3>1. CASE Select(r)
      BY <1>1, <3>1 DEF Select, NoneUpdates, RequestsOK, Request
    <3>2. CASE ~Select(r)
      BY <1>3, <3>2, UseLasting DEF NoneUpdates, Lasting
    <3> QED
      BY <3>1, <3>2
  <2> QED
    BY <1>3, <2>1, UseLeavesRows, SetupRests DEF rows
<1>4. ASSUME NEW r \in Requests, Fail(r)
      PROVE  SetupInv'
  BY <1>1, <1>4, IdleTyped, SetupRests DEF Fail, End, NoneUpdates, rows, RequestsOK
<1>5. ASSUME NEW r \in Requests, NEW t \in Tenants, NEW to \in Targets, BeginSetStatus(r, t, to)
      PROVE  SetupInv'
  <2>1. status[t] \in Targets
    BY <1>5 DEF BeginSetStatus, Targets
  <2>2. setup[t] = Len(Steps)
    BY <2>1 DEF SetupInv, OpenIsReady, Targets
  <2>3. \A q \in Requests : req'[q] = req[q] \/ req'[q].tenant = t
    BY <1>1, <1>5 DEF BeginSetStatus, RequestsOK, Idle
  <2>4. UNCHANGED <<status, setup>>
    BY <1>5 DEF BeginSetStatus, rows
  <2> QED
    BY <2>2, <2>3, <2>4 DEF SetupInv, OpenIsReady
<1>6. ASSUME NEW r \in Requests, UpdateStatus(r)
      PROVE  SetupInv'
  <2>1. PICK t \in Tenants : t = req[r].tenant
    BY <1>1, <1>6 DEF UpdateStatus, RequestsOK, Equipped
  <2>2. setup[t] = Len(Steps)
    BY <1>6, <2>1 DEF UpdateStatus, SetupInv
  <2>3. UNCHANGED setup /\ \A u \in Tenants : u # t => status'[u] = status[u]
    BY <1>1, <1>6, <2>1 DEF UpdateStatus, SetRow, RowsOK
  <2>4. req' = [Outdated(t, req[r].to) EXCEPT ![r].step = "invalidate", ![r].waited = 0]
    BY <1>6, <2>1 DEF UpdateStatus
  <2>5. PICK f \in [Requests -> Request] : f = Outdated(t, req[r].to)
    BY <1>1, OutdatedTyped
  <2>6. \A q \in Requests : f[q].step = req[q].step /\ f[q].tenant = req[q].tenant
    BY <1>1, <2>5, OutdatedTyped
  <2>7. NoneUpdates
    <3>1. PICK p : p = [f[r] EXCEPT !.step = "invalidate", !.waited = 0]
      OBVIOUS
    <3>2. req' = [f EXCEPT ![r] = p] /\ p.step = "invalidate"
      BY <2>4, <2>5, <3>1 DEF Request
    <3> QED
      BY <2>6, <3>2 DEF NoneUpdates
  <2> QED
    BY <2>2, <2>3, <2>7 DEF SetupInv, OpenIsReady, NoneUpdates
<1>7. ASSUME NEW r \in Requests, Invalidate(r)
      PROVE  SetupInv'
  BY <1>1, <1>7, IdleTyped, SetupRests DEF Invalidate, End, NoneUpdates, rows, RequestsOK
<1>8. ASSUME NEW t \in Tenants, Provision(t)
      PROVE  SetupInv'
  <2>1. \A s : req' = Outdated(t, s) => NoneUpdates
    BY <1>1, OutdatedTyped DEF NoneUpdates
  <2>2. UNCHANGED req => NoneUpdates
    BY DEF NoneUpdates
  <2>3. CASE CreateTenant(t)
    <3>1. UNCHANGED setup /\ status' = [status EXCEPT ![t] = "provisioning"] /\ NoneUpdates
      BY <2>1, <2>3 DEF CreateTenant
    <3> QED
      BY <1>1, <3>1 DEF SetupInv, OpenIsReady, NoneUpdates, RowsOK
  <2>4. CASE ProvisionStep(t)
    <3>1. /\ setup' = [setup EXCEPT ![t] = @ + 1] /\ setup[t] # Len(Steps)
          /\ UNCHANGED <<status, req>>
      BY <1>1, <2>4, Bounds DEF ProvisionStep, RowsOK
    <3>2. \A u \in Tenants : setup[u] = Len(Steps) => setup'[u] = Len(Steps)
      BY <1>1, <3>1 DEF RowsOK
    <3>3. \A q \in Requests : req[q].step = "update" => req[q].tenant \in Tenants
      BY <1>1 DEF RequestsOK, Equipped
    <3> QED
      BY <3>1, <3>2, <3>3 DEF SetupInv, OpenIsReady
  <2>5. CASE Activate(t)
    <3>1. /\ UNCHANGED setup /\ status' = [status EXCEPT ![t] = "active"]
          /\ setup[t] = Len(Steps) /\ NoneUpdates
      BY <2>1, <2>5 DEF Activate, SetRow, Ready
    <3> QED
      BY <1>1, <3>1 DEF SetupInv, OpenIsReady, NoneUpdates, RowsOK
  <2>6. CASE Announce(t)
    BY <2>2, <2>6, SetupRests DEF Announce
  <2>7. CASE ProvisioningFails(t)
    <3>1. UNCHANGED setup /\ (status' = [status EXCEPT ![t] = "failed"] \/ UNCHANGED status) /\ NoneUpdates
      BY <2>1, <2>2, <2>7 DEF ProvisioningFails, SetRow
    <3> QED
      BY <1>1, <3>1 DEF SetupInv, OpenIsReady, NoneUpdates, RowsOK
  <2> QED
    BY <1>8, <2>3, <2>4, <2>5, <2>6, <2>7 DEF Provision
<1>9. CASE Tick
  <2>1. \A r \in Requests : req'[r].step = req[r].step /\ req'[r].tenant = req[r].tenant
    BY <1>1, <1>9 DEF Tick, RequestsOK, Request
  <2> QED
    BY <1>9, <2>1, SetupRests DEF Tick, NoneUpdates
<1>10. CASE Restart
  BY <1>10, IdleTyped, SetupRests DEF Restart, NoneUpdates
<1> QED
  BY <1>2, <1>3, <1>4, <1>5, <1>6, <1>7, <1>8, <1>9, <1>10 DEF Next, Administer, Targets

\* A company that is or has been open has its database, its schema and its defaults,
\* wherever provisioning fails or the process stops.
THEOREM ReadyWhenOpen == Spec => []OpenIsReady
<1>1. Init => SetupInv
  <2> SUFFICES ASSUME Init PROVE SetupInv
    OBVIOUS
  <2>1. OpenIsReady
    BY DEF Init, InitTenants, OpenIsReady
  <2> QED
    BY <2>1, IdleTyped DEF Init, SetupInv
<1>2. IInv /\ SetupInv /\ [Next]_vars => SetupInv'
  BY NextSetup
<1>3. SetupInv => OpenIsReady
  BY DEF SetupInv
<1> QED
  BY <1>1, <1>2, <1>3, Invariance, PTL DEF Spec

-------------------------------------------------------------------------------
(* Cached statuses                                                         *)

\* Only a tenant whose status is suspended or failed has been out.
OutInv == \A t \in Tenants : out[t] # 0 => status[t] \in {"suspended", "failed"}

\* A lookup under way either knows the status or has been overtaken by a change of it,
\* and has not been under way for longer than its query takes.
LookupInv ==
    \A r \in Requests : req[r].step = "store" =>
        /\ req[r].seen = status[req[r].tenant] \/ req[r].late
        /\ req[r].seen = "active" => out[req[r].tenant] <= req[r].waited

\* A cached status that lets requests in is not older than the time the tenant has been
\* out, but for the tick of its lookup, and a stale one is accounted for.
CacheInv ==
    \A t \in Tenants : Fresh(t) /\ meta[t].status = "active" =>
        /\ out[t] <= meta[t].age + 1
        /\ status[t] = "suspended" => meta[t].late \/ Invalidating(t)

TimeInv == OutInv /\ LookupInv /\ CacheInv

\* A copy that is no older than its time to live serves a suspended tenant no longer than
\* that.
LEMMA TimeIsEnough == IInv /\ TimeInv => SuspendedInTime
<1> SUFFICES ASSUME IInv, TimeInv PROVE SuspendedInTime
  OBVIOUS
<1>1. ASSUME NEW t \in Tenants, Fresh(t), meta[t].status = "active"
      PROVE  out[t] <= TTL
  <2>1. out[t] <= meta[t].age + 1 /\ meta[t].age < TTL
    BY <1>1 DEF TimeInv, CacheInv, Fresh
  <2>2. meta[t] \in Cached /\ out[t] \in 0 .. MaxOut
    BY <1>1 DEF IInv, TypeInv, CachesOK, RowsOK, Fresh
  <2>3. meta[t].age \in 0 .. TTL
    BY <2>2 DEF Cached
  <2> QED
    BY <2>1, <2>2, <2>3, Bounds
<1>2. ASSUME NEW r \in Requests, req[r].step = "store", req[r].seen = "active"
      PROVE  out[req[r].tenant] <= TTL
  <2>1. out[req[r].tenant] <= req[r].waited
    BY <1>2 DEF TimeInv, LookupInv
  <2>2. req[r].waited \in {0, 1} /\ req[r].tenant \in Tenants
    BY <1>2 DEF IInv, TypeInv, RequestsOK, Request, Equipped
  <2>3. out[req[r].tenant] \in 0 .. MaxOut
    BY <2>2 DEF IInv, TypeInv, RowsOK
  <2> QED
    BY <2>1, <2>2, <2>3, Bounds
<1> QED
  BY <1>1, <1>2 DEF SuspendedInTime, TimeInv, CacheInv

\* A step that leaves rows and cached statuses, and the requests that look up, store or
\* invalidate.
LEMMA TimeRests ==
    ASSUME TimeInv, UNCHANGED <<status, out, meta>>, \A q \in Requests : Lasting(q)
    PROVE  TimeInv'
<1>1. OutInv'
  BY DEF TimeInv, OutInv
<1>2. LookupInv'
  BY DEF TimeInv, LookupInv, Lasting
<1>3. \A t \in Tenants : Invalidating(t) => Invalidating(t)'
  BY DEF Invalidating, Lasting
<1>4. \A t \in Tenants : Fresh(t)' => Fresh(t)
  BY DEF Fresh
<1>5. CacheInv'
  BY <1>3, <1>4 DEF TimeInv, CacheInv
<1> QED
  BY <1>1, <1>2, <1>5 DEF TimeInv

\* The tenant's row gets a new status, and the lookups under way are late: all that is
\* cached of it is accounted for, by r when it is suspended.
LEMMA RowSetInTime ==
    ASSUME IInv, TimeInv, NEW t \in Tenants, NEW s \in Statuses,
           status' = [status EXCEPT ![t] = s],
           out' = [out EXCEPT ![t] = 0] \/ (s = "provisioning" /\ status[t] = "none" /\ UNCHANGED out),
           UNCHANGED meta,
           s = "suspended" => Invalidating(t)',
           \A q \in Requests : \/ req'[q] = Outdated(t, s)[q]
                               \/ req'[q].step = "invalidate" /\ req[q].step # "invalidate"
    PROVE  TimeInv'
<1>1. RowsOK /\ CachesOK /\ RequestsOK
  BY DEF IInv, TypeInv
<1>2. out[t] # 0 => out'[t] = 0
  BY <1>1 DEF RowsOK, TimeInv, OutInv
<1>3. out'[t] = 0
  BY <1>1, <1>2 DEF RowsOK
<1>4. \A u \in Tenants : u # t => out'[u] = out[u] /\ status'[u] = status[u]
  BY <1>1 DEF RowsOK
<1>5. status'[t] = s
  BY <1>1 DEF RowsOK
<1>6. OutInv'
  BY <1>3, <1>4 DEF TimeInv, OutInv
<1>7. \A q \in Requests : Outdated(t, s)[q].step = "invalidate" <=> req[q].step = "invalidate"
  BY <1>1, OutdatedTyped
<1>8. \A q \in Requests : req[q].step = "invalidate" =>
          req'[q].step = "invalidate" /\ req'[q].tenant = req[q].tenant
  BY <1>1, OutdatedTyped
<1>9. \A u \in Tenants : Invalidating(u) => Invalidating(u)'
  BY <1>8 DEF Invalidating
<1>10. LookupInv'
  <2> SUFFICES ASSUME NEW q \in Requests, req'[q].step = "store"
               PROVE  /\ req'[q].seen = status'[req'[q].tenant] \/ req'[q].late
                      /\ req'[q].seen = "active" => out'[req'[q].tenant] <= req'[q].waited
    BY DEF LookupInv
  <2>1. /\ req[q].step = "store" /\ req'[q].tenant = req[q].tenant
        /\ req'[q].seen = req[q].seen /\ req'[q].waited = req[q].waited
        /\ req'[q].late <=> (req[q].late \/ (req[q].tenant = t /\ req[q].step = "store" /\ req[q].seen # s))
    BY <1>1, OutdatedTyped
  <2>2. req[q].tenant \in Tenants /\ req[q].waited \in {0, 1}
    BY <1>1, <2>1 DEF RequestsOK, Request, Equipped
  <2>3. CASE req[q].tenant = t
    <3>1. 0 <= req[q].waited
      BY <2>2
    <3> QED
      BY <1>3, <1>5, <2>1, <2>3, <3>1
  <2>4. CASE req[q].tenant # t
    <3>1. status'[req[q].tenant] = status[req[q].tenant] /\ out'[req[q].tenant] = out[req[q].tenant]
      BY <1>4, <2>2, <2>4
    <3> QED
      BY <2>1, <2>4, <3>1 DEF TimeInv, LookupInv
  <2> QED
    BY <2>3, <2>4
<1>11. CacheInv'
  <2> SUFFICES ASSUME NEW u \in Tenants, Fresh(u)', meta'[u].status = "active"
               PROVE  /\ out'[u] <= meta'[u].age + 1
                      /\ status'[u] = "suspended" => meta'[u].late \/ Invalidating(u)'
    BY DEF CacheInv
  <2>1. Fresh(u) /\ meta'[u] = meta[u]
    BY DEF Fresh
  <2>2. meta[u].age \in 0 .. TTL
    BY <1>1, <2>1 DEF CachesOK, Fresh, Cached
  <2>3. CASE u = t
    BY <1>3, <1>5, <2>1, <2>2, <2>3, Bounds
  <2>4. CASE u # t
    BY <1>4, <1>9, <2>1, <2>4 DEF TimeInv, CacheInv
  <2> QED
    BY <2>3, <2>4
<1> QED
  BY <1>6, <1>10, <1>11 DEF TimeInv

\* What is cached of t is dropped, and the other requests invalidate other tenants.
LEMMA InvalidatedInTime ==
    ASSUME IInv, TimeInv, NEW t \in Tenants, Invalidated(t), UNCHANGED <<status, out>>,
           \A q \in Requests : req'[q] = req[q] \/ (req'[q] = Idle /\ req[q].tenant = t)
    PROVE  TimeInv'
<1>1. OutInv'
  BY DEF TimeInv, OutInv
<1>2. LookupInv'
  BY IdleTyped DEF TimeInv, LookupInv
<1>3. \A u \in Tenants : u # t /\ Invalidating(u) => Invalidating(u)'
  BY DEF Invalidating
<1>4. \A u \in Tenants : meta'[u] = IF u = t THEN None ELSE meta[u]
  BY DEF Invalidated, IInv, TypeInv, CachesOK
<1>5. \A u \in Tenants : Fresh(u)' => Fresh(u) /\ u # t
  BY <1>4 DEF Fresh
<1>6. CacheInv'
  BY <1>3, <1>4, <1>5 DEF TimeInv, CacheInv
<1> QED
  BY <1>1, <1>2, <1>6 DEF TimeInv

\* A row read now is as fresh as can be.
LEMMA SelectInTime ==
    ASSUME IInv, TimeInv, NEW r \in Requests, Select(r)
    PROVE  TimeInv'
<1>1. RowsOK /\ CachesOK /\ RequestsOK
  BY DEF IInv, TypeInv
<1>2. PICK t \in Tenants : t = req[r].tenant
  BY <1>1 DEF Select, RequestsOK, Equipped
<1>3. PICK q : q = [req[r] EXCEPT !.step = "store", !.seen = status[t]]
  OBVIOUS
<1>4. req[r].step = "select" /\ req' = [req EXCEPT ![r] = q] /\ UNCHANGED <<rows, caches>>
  BY <1>1, <1>2, <1>3 DEF Select, RequestsOK
<1>5. q.tenant = t /\ q.seen = status[t] /\ q.waited \in {0, 1}
  BY <1>1, <1>2, <1>3 DEF RequestsOK, Request
<1>6. UNCHANGED <<status, out, meta>>
  BY <1>4 DEF rows, caches
<1>7. OutInv'
  BY <1>6 DEF TimeInv, OutInv
<1>8. q.seen = "active" => out[t] <= q.waited
  <2>1. q.seen = "active" => out[t] = 0
    BY <1>5 DEF TimeInv, OutInv
  <2> QED
    BY <1>5, <2>1
<1>9. LookupInv'
  BY <1>1, <1>4, <1>5, <1>6, <1>8 DEF TimeInv, LookupInv, RequestsOK
<1>10. \A p \in Requests : req[p].step = "invalidate" => req'[p] = req[p]
  BY <1>1, <1>4 DEF RequestsOK
<1>11. \A u \in Tenants : (Invalidating(u) => Invalidating(u)') /\ (Fresh(u)' => Fresh(u))
  BY <1>6, <1>10 DEF Invalidating, Fresh
<1>12. CacheInv'
  BY <1>6, <1>11 DEF TimeInv, CacheInv
<1> QED
  BY <1>7, <1>9, <1>12 DEF TimeInv

\* A copy that is stored is as old as the read it was made from.
LEMMA StoreInTime ==
    ASSUME IInv, TimeInv, NEW r \in Requests, Store(r), \A q \in Requests : Lasting(q)
    PROVE  TimeInv'
<1>1. RowsOK /\ CachesOK /\ RequestsOK
  BY DEF IInv, TypeInv
<1>2. PICK t \in Tenants : t = req[r].tenant
  BY <1>1 DEF Store, RequestsOK, Equipped
<1>3. PICK entry : entry = [status |-> req[r].seen, age |-> 0, late |-> req[r].late]
  OBVIOUS
<1>4. /\ req[r].step = "store"
      /\ meta' = [meta EXCEPT ![t] = entry]
      /\ UNCHANGED <<status, out>>
  BY <1>2, <1>3 DEF Store, rows
<1>5. OutInv'
  BY <1>4 DEF TimeInv, OutInv
<1>6. LookupInv'
  BY <1>4 DEF TimeInv, LookupInv, Lasting
<1>7. \A u \in Tenants : Invalidating(u) => Invalidating(u)'
  BY DEF Invalidating, Lasting
<1>8. \A u \in Tenants : meta'[u] = IF u = t THEN entry ELSE meta[u]
  BY <1>1, <1>4 DEF CachesOK
<1>9. entry.status = "active" =>
        /\ out[t] <= entry.age + 1
        /\ status[t] = "suspended" => entry.late
  <2>1. req[r].seen = "active" => out[t] <= req[r].waited
    BY <1>2, <1>4 DEF TimeInv, LookupInv
  <2>2. req[r].seen = "active" => status[t] = "active" \/ req[r].late
    BY <1>2, <1>4 DEF TimeInv, LookupInv
  <2>3. entry.status = req[r].seen /\ entry.age = 0 /\ entry.late = req[r].late
    BY <1>3
  <2>4. req[r].seen = "active" => out[t] <= 0 + 1
    <3>1. PICK w \in {0, 1} : w = req[r].waited
      BY <1>1 DEF RequestsOK, Request
    <3>2. out[t] \in 0 .. MaxOut
      BY <1>1 DEF RowsOK
    <3>3. out[t] <= w => out[t] <= 0 + 1
      BY <3>2, Bounds
    <3> QED
      BY <2>1, <3>1, <3>3
  <2>5. entry.status = "active" => out[t] <= entry.age + 1
    BY <2>3, <2>4
  <2>6. entry.status = "active" /\ status[t] = "suspended" => entry.late
    BY <2>2, <2>3
  <2> QED
    BY <2>5, <2>6
<1>10. CacheInv'
  <2> SUFFICES ASSUME NEW u \in Tenants, Fresh(u)', meta'[u].status = "active"
               PROVE  /\ out'[u] <= meta'[u].age + 1
                      /\ status'[u] = "suspended" => meta'[u].late \/ Invalidating(u)'
    BY DEF CacheInv
  <2>1. CASE u = t
    BY <1>4, <1>8, <1>9, <2>1
  <2>2. CASE u # t
    <3>1. Fresh(u) /\ meta'[u] = meta[u]
      BY <1>8, <2>2 DEF Fresh
    <3> QED
      BY <1>4, <1>7, <3>1 DEF TimeInv, CacheInv
  <2> QED
    BY <2>1, <2>2
<1> QED
  BY <1>5, <1>6, <1>10 DEF TimeInv

\* A tick ages copies only up to the point where they expire.
LEMMA TickInTime ==
    ASSUME IInv, TimeInv, Tick
    PROVE  TimeInv'
<1>1. RowsOK /\ CachesOK /\ RequestsOK
  BY DEF IInv, TypeInv
<1>2. /\ \A r \in Requests : Querying(r) => req[r].waited = 0
      /\ meta' = [t \in Tenants |-> Aged(meta[t])]
      /\ out' = [t \in Tenants |-> IF status[t] \in {"suspended", "failed"} /\ out[t] < MaxOut
                                   THEN out[t] + 1 ELSE out[t]]
      /\ req' = [r \in Requests |-> IF Querying(r) THEN [req[r] EXCEPT !.waited = 1] ELSE req[r]]
      /\ UNCHANGED status
  BY DEF Tick
<1>3. \A t \in Tenants : out[t] \in 0 .. MaxOut
  BY <1>1 DEF RowsOK
<1>4. \A t \in Tenants : /\ out'[t] \in {out[t], out[t] + 1}
                         /\ out'[t] # out[t] => status[t] \in {"suspended", "failed"}
  BY <1>2
<1>5. OutInv'
  BY <1>2, <1>4 DEF TimeInv, OutInv
<1>6. \A r \in Requests : /\ req'[r].step = req[r].step /\ req'[r].tenant = req[r].tenant
                          /\ req'[r].seen = req[r].seen /\ req'[r].late = req[r].late
                          /\ req[r].step = "store" => req'[r].waited = 1 /\ req[r].waited = 0
  BY <1>1, <1>2 DEF Querying, RequestsOK, Request
<1>7. LookupInv'
  <2> SUFFICES ASSUME NEW q \in Requests, req'[q].step = "store"
               PROVE  /\ req'[q].seen = status'[req'[q].tenant] \/ req'[q].late
                      /\ req'[q].seen = "active" => out'[req'[q].tenant] <= req'[q].waited
    BY DEF LookupInv
  <2>1. PICK t \in Tenants : t = req[q].tenant
    BY <1>1, <1>6 DEF RequestsOK, Equipped
  <2>2. req[q].seen = "active" => out[t] <= 0
    BY <1>6, <2>1 DEF TimeInv, LookupInv
  <2>3. req[q].seen = "active" => out'[t] <= 1
    BY <1>3, <1>4, <2>2, Bounds
  <2>4. req[q].seen = status[t] \/ req[q].late
    BY <1>6, <2>1 DEF TimeInv, LookupInv
  <2> QED
    BY <1>2, <1>6, <2>1, <2>3, <2>4
<1>8. CacheInv'
  <2> SUFFICES ASSUME NEW u \in Tenants, Fresh(u)', meta'[u].status = "active"
               PROVE  /\ out'[u] <= meta'[u].age + 1
                      /\ status'[u] = "suspended" => meta'[u].late \/ Invalidating(u)'
    BY DEF CacheInv
  <2>1. meta'[u] = Aged(meta[u]) /\ meta'[u] # None /\ meta'[u].age < TTL
    BY <1>2 DEF Fresh
  <2>2. meta[u] # None /\ meta[u] \in Cached
    BY <1>1, <2>1 DEF Aged, CachesOK
  <2>3. meta[u].age \in 0 .. TTL
    BY <2>2 DEF Cached
  <2>4. PICK n : n = IF meta[u].age < TTL THEN meta[u].age + 1 ELSE meta[u].age
    OBVIOUS
  <2>5. meta'[u] = [meta[u] EXCEPT !.age = n]
    BY <2>1, <2>2, <2>4 DEF Aged
  <2>6. meta'[u].age = n /\ meta'[u].status = meta[u].status /\ meta'[u].late = meta[u].late
    BY <2>2, <2>5 DEF Cached
  <2>7. meta[u].age < TTL /\ n = meta[u].age + 1
    BY <2>1, <2>3, <2>4, <2>6, Bounds
  <2>8. Fresh(u) /\ meta[u].status = "active"
    BY <2>2, <2>6, <2>7 DEF Fresh
  <2>9. out[u] <= meta[u].age + 1 /\ (status[u] = "suspended" => meta[u].late \/ Invalidating(u))
    BY <2>8 DEF TimeInv, CacheInv
  <2>10. Invalidating(u) => Invalidating(u)'
    BY <1>6 DEF Invalidating
  <2>11. out'[u] <= n + 1
    BY <1>3, <1>4, <2>3, <2>7, <2>9, Bounds
  <2> QED
    BY <1>2, <2>6, <2>9, <2>10, <2>11
<1> QED
  BY <1>5, <1>7, <1>8 DEF TimeInv

\* Every step keeps copies within their time.
LEMMA NextInTime == IInv /\ TimeInv /\ [Next]_vars => TimeInv'
<1> SUFFICES ASSUME IInv, TimeInv, [Next]_vars PROVE TimeInv'
  OBVIOUS
<1>1. RowsOK /\ CachesOK /\ RequestsOK
  BY DEF IInv, TypeInv
<1>2. CASE UNCHANGED vars
  BY <1>2, TimeRests DEF vars, rows, caches, Lasting
<1>3. ASSUME NEW r \in Requests, Use(r)
      PROVE  TimeInv'
  <2>1. CASE Select(r)
    BY <2>1, SelectInTime
  <2>2. CASE Store(r)
    <3>1. ~Select(r)
      BY <2>2 DEF Select, Store
    <3> QED
      BY <1>3, <2>2, <3>1, UseLasting, StoreInTime
  <2>3. CASE ~Select(r) /\ ~Store(r)
    BY <1>3, <2>3, UseLasting, UseLeavesRows, TimeRests DEF rows
  <2> QED
    BY <2>1, <2>2, <2>3
<1>4. ASSUME NEW r \in Requests, Fail(r)
      PROVE  TimeInv'
  <2>1. req' = [req EXCEPT ![r] = Idle] /\ req[r].step # "invalidate" /\ UNCHANGED <<status, out, meta>>
    BY <1>4 DEF Fail, End, rows, caches
  <2> QED
    BY <1>1, <2>1, IdleTyped, OneChanges, TimeRests
<1>5. ASSUME NEW r \in Requests, NEW t \in Tenants, NEW to \in Targets, BeginSetStatus(r, t, to)
      PROVE  TimeInv'
  <2>1. PICK q : q = [Idle EXCEPT !.step = "update", !.op = "setStatus", !.tenant = t, !.to = to]
    OBVIOUS
  <2>2. /\ req' = [req EXCEPT ![r] = q] /\ q.step = "update"
        /\ req[r].step = "idle" /\ UNCHANGED <<status, out, meta>>
    BY <1>5, <2>1, IdleTyped DEF BeginSetStatus, Idle, rows, caches
  <2>3. OutInv'
    BY <2>2 DEF TimeInv, OutInv
  <2>4. LookupInv'
    BY <1>1, <2>2 DEF TimeInv, LookupInv, RequestsOK
  <2>5. \A u \in Tenants : (Invalidating(u) => Invalidating(u)') /\ (Fresh(u)' => Fresh(u))
    BY <1>1, <2>2 DEF Invalidating, Fresh, RequestsOK
  <2>6. CacheInv'
    BY <2>2, <2>5 DEF TimeInv, CacheInv
  <2> QED
    BY <2>3, <2>4, <2>6 DEF TimeInv
<1>6. ASSUME NEW r \in Requests, UpdateStatus(r)
      PROVE  TimeInv'
  <2>1. PICK t \in Tenants : t = req[r].tenant
    BY <1>1, <1>6 DEF UpdateStatus, RequestsOK, Equipped
  <2>2. PICK s \in Statuses : s = req[r].to
    BY <1>1, <1>6 DEF UpdateStatus, RequestsOK, Equipped, Targets, Statuses
  <2>3. /\ req[r].step = "update" /\ UNCHANGED meta
        /\ status' = [status EXCEPT ![t] = s] /\ out' = [out EXCEPT ![t] = 0]
        /\ req' = [Outdated(t, s) EXCEPT ![r].step = "invalidate", ![r].waited = 0]
    BY <1>6, <2>1, <2>2 DEF UpdateStatus, SetRow, caches
  <2>4. PICK f \in [Requests -> Request] : f = Outdated(t, s)
    BY <1>1, OutdatedTyped
  <2>5. f[r].tenant = t
    BY <1>1, <2>1, <2>4, OutdatedTyped
  <2>6. PICK p : p = [f[r] EXCEPT !.step = "invalidate", !.waited = 0]
    OBVIOUS
  <2>7. p.step = "invalidate" /\ p.tenant = t /\ req' = [f EXCEPT ![r] = p]
    BY <2>3, <2>4, <2>5, <2>6 DEF Request
  <2>8. Invalidating(t)'
    BY <2>7 DEF Invalidating
  <2>9. \A q \in Requests : \/ req'[q] = Outdated(t, s)[q]
                            \/ req'[q].step = "invalidate" /\ req[q].step # "invalidate"
    BY <2>3, <2>4, <2>7
  <2> QED
    BY <2>3, <2>8, <2>9, RowSetInTime
<1>7. ASSUME NEW r \in Requests, Invalidate(r)
      PROVE  TimeInv'
  <2>1. PICK t \in Tenants : t = req[r].tenant
    BY <1>1, <1>7 DEF Invalidate, RequestsOK, Equipped
  <2>2. Invalidated(t) /\ req' = [req EXCEPT ![r] = Idle] /\ UNCHANGED <<status, out>>
    BY <1>7, <2>1 DEF Invalidate, End, rows
  <2>3. \A q \in Requests : req'[q] = req[q] \/ (req'[q] = Idle /\ req[q].tenant = t)
    BY <1>1, <2>1, <2>2 DEF RequestsOK
  <2> QED
    BY <2>2, <2>3, InvalidatedInTime
<1>8. ASSUME NEW t \in Tenants, Provision(t)
      PROVE  TimeInv'
  <2>1. CASE CreateTenant(t)
    <3>1. /\ status[t] = "none" /\ status' = [status EXCEPT ![t] = "provisioning"]
          /\ req' = Outdated(t, "provisioning") /\ UNCHANGED <<out, meta>>
      BY <2>1 DEF CreateTenant, caches
    <3> QED
      BY <3>1, RowSetInTime DEF Statuses
  <2>2. CASE ProvisionStep(t)
    BY <2>2, TimeRests DEF ProvisionStep, caches, Lasting
  <2>3. CASE Activate(t)
    <3>1. /\ status' = [status EXCEPT ![t] = "active"] /\ out' = [out EXCEPT ![t] = 0]
          /\ req' = Outdated(t, "active") /\ UNCHANGED meta
      BY <2>3 DEF Activate, SetRow, caches
    <3> QED
      BY <3>1, RowSetInTime DEF Statuses
  <2>4. CASE Announce(t)
    BY <2>4, InvalidatedInTime DEF Announce
  <2>5. CASE ProvisioningFails(t)
    <3>1. CASE SetRow(t, "failed") /\ req' = Outdated(t, "failed")
      <4>1. /\ status' = [status EXCEPT ![t] = "failed"] /\ out' = [out EXCEPT ![t] = 0]
            /\ UNCHANGED meta
        BY <2>5, <3>1 DEF ProvisioningFails, SetRow, caches
      <4> QED
        BY <3>1, <4>1, RowSetInTime DEF Statuses
    <3>2. CASE UNCHANGED <<status, out, req>>
      BY <2>5, <3>2, TimeRests DEF ProvisioningFails, caches, Lasting
    <3> QED
      BY <2>5, <3>1, <3>2 DEF ProvisioningFails
  <2> QED
    BY <1>8, <2>1, <2>2, <2>3, <2>4, <2>5 DEF Provision
<1>9. CASE Tick
  BY <1>9, TickInTime
<1>10. CASE Restart
  <2>1. /\ req' = [r \in Requests |-> Idle] /\ meta' = [t \in Tenants |-> None]
        /\ UNCHANGED <<status, out>>
    BY <1>10 DEF Restart
  <2>2. OutInv'
    BY <2>1 DEF TimeInv, OutInv
  <2>3. LookupInv'
    BY <2>1, IdleTyped DEF LookupInv
  <2>4. CacheInv'
    BY <2>1 DEF CacheInv, Fresh
  <2> QED
    BY <2>2, <2>3, <2>4 DEF TimeInv
<1> QED
  BY <1>2, <1>3, <1>4, <1>5, <1>6, <1>7, <1>8, <1>9, <1>10 DEF Next, Administer, Targets

\* Suspensions take effect: what is cached of a suspended company is accounted for, and no
\* request is admitted once the company has been out for longer than a status is kept.
THEOREM InTime == Spec => []SuspendedInTime
<1>1. Init => TimeInv
  <2> SUFFICES ASSUME Init PROVE TimeInv
    OBVIOUS
  <2>1. OutInv
    BY DEF Init, InitTenants, OutInv
  <2>2. LookupInv
    BY IdleTyped DEF Init, LookupInv
  <2>3. CacheInv
    BY DEF Init, InitTenants, CacheInv, Fresh
  <2> QED
    BY <2>1, <2>2, <2>3 DEF TimeInv
<1>2. IInv /\ TimeInv /\ [Next]_vars => TimeInv'
  BY NextInTime
<1>3. IInv /\ TimeInv => SuspendedInTime
  BY TimeIsEnough
<1> QED
  BY <1>1, <1>2, <1>3, Invariance, PTL DEF Spec

-------------------------------------------------------------------------------
(* Company: a step of one module is none of the others                     *)

\* What Access and Sessions do within the company is what they specify.
LEMMA PartsOfCompany == CompanySpec => A!Spec /\ W!Spec
<1>1. CompanyInit => A!Init /\ W!Init
  BY DEF CompanyInit
<1>2. [CompanyNext]_company => [A!Next]_A!vars /\ [W!Next]_W!vars
  BY DEF CompanyNext, company, vars, rows, caches, accessVars, sessionVars, A!vars, A!rows, W!vars, W!browser
<1> QED
  BY <1>1, <1>2, PTL DEF CompanySpec, A!Spec, W!Spec

-------------------------------------------------------------------------------
(* The users of one company, their permissions and their seats: Access, for  *)
(* any users, roles, permissions, modules, limits and times.                 *)

\* Sets of permissions, and of modules.
KeySets    == SUBSET Permissions
ModuleSets == SUBSET Modules

AccessRequest ==
    [step : {"idle", "user", "roles", "modules", "store", "limit", "count", "commit", "invalidate"},
     op : A!Operations \cup {None}, user : Users \cup {None}, role : Roles \cup {None},
     to : A!User \cup KeySets \cup ModuleSets \cup {None},
     active : BOOLEAN, keys : KeySets, modules : ModuleSets,
     limit : Limits \cup {None}, waited : {0, 1}, late : BOOLEAN]

CachedUser    == [keys : KeySets, active : BOOLEAN, age : Nat, late : BOOLEAN]
CachedModules == [modules : ModuleSets, age : Nat, late : BOOLEAN]

\* What a request is about, by its operation.
About(x) ==
    /\ x.op = "check" => x.user \in A!Known
    /\ x.op = "user" => x.user \in Users /\ x.to \in A!User
    /\ x.op = "role" => x.role \in Roles /\ x.to \in KeySets
    /\ x.op = "modules" => x.to \in ModuleSets

AccessTypes ==
    /\ user \in [Users -> A!User \cup {None}]
    /\ grants \in [Roles -> KeySets]
    /\ enabled \in ModuleSets
    /\ maxUsers \in Limits
    /\ perms \in [Users -> CachedUser \cup {None}]
    /\ mods \in CachedModules \cup {None}
    /\ lost \in [Users -> [Permissions -> [A!Causes -> Nat]]]
    /\ act \in [Requests -> AccessRequest]
    /\ \A r \in Requests : About(act[r])

\* The steps of a request up to its commit change that request alone.
LEMMA AccessTypesMove ==
    ASSUME AccessTypes, NEW r \in Requests, NEW x \in AccessRequest, About(x),
           act' = [act EXCEPT ![r] = x], UNCHANGED A!rows, UNCHANGED lost,
           perms' \in [Users -> CachedUser \cup {None}], mods' \in CachedModules \cup {None}
    PROVE  AccessTypes'
  BY DEF AccessTypes, About, A!rows, A!Known

\* A commit tells the requests that have read what it has changed.
LEMMA AccessTells ==
    ASSUME AccessTypes, NEW r \in Requests, NEW x \in AccessRequest, NEW S,
           act' = [q \in Requests |-> IF q = r THEN x ELSE [act[q] EXCEPT !.late = @ \/ q \in S]]
    PROVE  /\ act' \in [Requests -> AccessRequest]
           /\ act'[r] = x
           /\ \A q \in Requests \ {r} :
                 /\ act'[q].step = act[q].step /\ act'[q].op = act[q].op /\ act'[q].user = act[q].user
                 /\ act'[q].role = act[q].role /\ act'[q].to = act[q].to
                 /\ act'[q].active = act[q].active /\ act'[q].keys = act[q].keys
                 /\ act'[q].modules = act[q].modules /\ act'[q].limit = act[q].limit
                 /\ act'[q].waited = act[q].waited
                 /\ act'[q].late = (act[q].late \/ q \in S)
<1>1. \A q \in Requests : act[q] \in AccessRequest
  BY DEF AccessTypes
<1>2. ASSUME NEW q \in Requests \ {r}
      PROVE  /\ act'[q] \in AccessRequest
             /\ act'[q].step = act[q].step /\ act'[q].op = act[q].op /\ act'[q].user = act[q].user
             /\ act'[q].role = act[q].role /\ act'[q].to = act[q].to
             /\ act'[q].active = act[q].active /\ act'[q].keys = act[q].keys
             /\ act'[q].modules = act[q].modules /\ act'[q].limit = act[q].limit
             /\ act'[q].waited = act[q].waited
             /\ act'[q].late = (act[q].late \/ q \in S)
  <2> DEFINE late == act[q].late \/ q \in S
  <2>1. act[q] \in AccessRequest /\ act'[q] = [act[q] EXCEPT !.late = late]
    BY <1>1
  <2>2. late \in BOOLEAN
    OBVIOUS
  <2>3. late = (act[q].late \/ q \in S)
    OBVIOUS
  <2> HIDE DEF late
  <2>4. act'[q] \in AccessRequest
    BY <2>1, <2>2 DEF AccessRequest
  <2> QED
    BY <2>1, <2>3, <2>4 DEF AccessRequest
<1> QED
  BY <1>1, <1>2

\* It keeps the types when what it writes has its.
LEMMA AccessTypesCommit ==
    ASSUME AccessTypes, NEW r \in Requests, NEW x \in AccessRequest, NEW S, About(x),
           act' = [q \in Requests |-> IF q = r THEN x ELSE [act[q] EXCEPT !.late = @ \/ q \in S]],
           user' \in [Users -> A!User \cup {None}], \A u \in A!Known : user'[u] # None,
           grants' \in [Roles -> KeySets], enabled' \in ModuleSets,
           A!Lost, UNCHANGED <<maxUsers, perms, mods>>
    PROVE  AccessTypes'
<1>1. \A q \in Requests : About(act[q])
  BY DEF AccessTypes
<1>t. \A q \in Requests \ {r} :
         /\ act'[q].op = act[q].op /\ act'[q].user = act[q].user
         /\ act'[q].role = act[q].role /\ act'[q].to = act[q].to
  BY DEF AccessTypes, AccessRequest
<1>2. ASSUME NEW q \in Requests PROVE About(act[q])'
  <2>1. A!Known \subseteq A!Known'
    BY DEF A!Known
  <2>2. CASE q = r
    BY <2>1, <2>2, AccessTells DEF About
  <2>3. CASE q # r
    <3>1. /\ act'[q].op = act[q].op /\ act'[q].user = act[q].user
          /\ act'[q].role = act[q].role /\ act'[q].to = act[q].to
      BY <2>3, <1>t
    <3>2. About(act[q])
      BY <1>1
    <3> QED
      BY <2>1, <3>1, <3>2 DEF About
  <2> QED
    BY <2>2, <2>3
<1>3. lost' \in [Users -> [Permissions -> [A!Causes -> Nat]]]
  BY DEF A!Lost, AccessTypes
<1>4. act' \in [Requests -> AccessRequest]
  BY AccessTells
<1> QED
  BY <1>2, <1>3, <1>4 DEF AccessTypes

\* What is known of users, roles, modules, caches and requests is of its kind.
LEMMA AccessTypesHold ==
    ASSUME A!Assumptions PROVE A!Spec => []AccessTypes
<1>i. A!Idle \in AccessRequest /\ \A x : x = A!Idle => About(x)
  <2>0. {} \in KeySets /\ {} \in ModuleSets
    BY DEF KeySets, ModuleSets
  <2>1. A!Idle \in AccessRequest
    BY <2>0 DEF A!Idle, AccessRequest
  <2>2. A!Idle.op = None /\ None \notin A!Operations
    BY DEF A!Idle, A!Assumptions
  <2> QED
    BY <2>1, <2>2 DEF About, A!Operations
<1>1. A!Init => AccessTypes
  BY <1>i DEF A!Init, AccessTypes, KeySets, ModuleSets
<1>2. AccessTypes /\ [A!Next]_A!vars => AccessTypes'
  <2> SUFFICES ASSUME AccessTypes, [A!Next]_A!vars PROVE AccessTypes'
    OBVIOUS
  <2> USE DEF A!Operations
  <2>r. /\ \A q \in Requests : act[q] \in AccessRequest /\ About(act[q])
        /\ A!Idle \in AccessRequest /\ About(A!Idle)
        /\ perms \in [Users -> CachedUser \cup {None}] /\ mods \in CachedModules \cup {None}
        /\ maxUsers \in Limits /\ enabled \in ModuleSets
        /\ grants \in [Roles -> KeySets] /\ user \in [Users -> A!User \cup {None}]
    BY <1>i DEF AccessTypes
  <2>1. ASSUME NEW r \in Requests, NEW u \in Users, A!BeginCheck(r, u) PROVE AccessTypes'
    <3> DEFINE x == [A!Idle EXCEPT !.op = "check", !.step = "user", !.user = u]
    <3>1. x \in AccessRequest /\ About(x)
      BY <2>1, <2>r DEF A!Idle, AccessRequest, About, A!BeginCheck
    <3>2. act' = [act EXCEPT ![r] = x] /\ UNCHANGED <<A!rows, perms, mods, lost>>
      BY <2>1 DEF A!BeginCheck, A!Begin
    <3> QED
      BY <3>1, <3>2, <2>r, AccessTypesMove
  <2>2. ASSUME NEW r \in Requests, A!ReadUser(r) PROVE AccessTypes'
    <3> DEFINE x == [act[r] EXCEPT !.step = "roles", !.active = user[act[r].user].active]
    <3>1. x \in AccessRequest /\ About(x)
      <4>1. act[r] \in AccessRequest /\ About(act[r]) /\ act[r].op = "check"
        BY <2>2, <2>r DEF A!ReadUser, A!At
      <4>2. user[act[r].user].active \in BOOLEAN
        BY <2>r, <4>1 DEF About, A!Known, A!User
      <4>3. x \in AccessRequest
        BY <4>1, <4>2 DEF AccessRequest
      <4>4. About(x)
        BY <4>1 DEF AccessRequest, About
      <4> QED
        BY <4>3, <4>4
    <3>2. act' = [act EXCEPT ![r] = x] /\ UNCHANGED <<A!rows, perms, mods, lost>>
      BY <2>2 DEF A!ReadUser
    <3> QED
      BY <3>1, <3>2, <2>r, AccessTypesMove
  <2>3. ASSUME NEW r \in Requests, A!ReadRoles(r) PROVE AccessTypes'
    <3> DEFINE x == [act[r] EXCEPT !.step = "modules", !.keys = A!Granted(act[r].user)]
    <3>1. A!Granted(act[r].user) \in KeySets
      <4>1. act[r].user \in Users /\ user[act[r].user] \in A!User
        BY <2>3, <2>r DEF About, A!ReadRoles, A!At, A!Known
      <4>2. user[act[r].user].roles \subseteq Roles
        BY <4>1 DEF A!User
      <4> QED
        BY <2>r, <4>2 DEF KeySets, A!Granted
    <3>2. x \in AccessRequest /\ About(x)
      <4> HIDE DEF x
      <4>1. act[r] \in AccessRequest /\ About(act[r])
        BY <2>r
      <4>2. x \in AccessRequest
        BY <3>1, <4>1 DEF x, AccessRequest
      <4>3. About(x)
        BY <4>1 DEF x, AccessRequest, About
      <4> QED
        BY <4>2, <4>3
    <3>3. act' = [act EXCEPT ![r] = x] /\ UNCHANGED <<A!rows, perms, mods, lost>>
      BY <2>3 DEF A!ReadRoles
    <3> QED
      BY <3>2, <3>3, <2>r, AccessTypesMove
  <2> DEFINE Entry(r, modules, late) == [keys |-> A!Licensed(act[r].keys, modules), active |-> act[r].active,
                                         age |-> 0, late |-> act[r].late \/ late]
  <2>e. ASSUME NEW r \in Requests, NEW modules, NEW late \in BOOLEAN, perms' = A!Entry(r, modules, late)
        PROVE  perms' \in [Users -> CachedUser \cup {None}]
    <3>1. Entry(r, modules, late) \in CachedUser
      BY <2>r DEF AccessRequest, A!Licensed, CachedUser, KeySets
    <3>2. perms' = [perms EXCEPT ![act[r].user] = Entry(r, modules, late)]
      BY <2>e DEF A!Entry
    <3> HIDE DEF Entry
    <3> QED
      BY <3>1, <3>2, <2>r
  <2> HIDE DEF Entry
  <2>4. ASSUME NEW r \in Requests, A!CachedModules(r) PROVE AccessTypes'
    <3>1. mods.late \in BOOLEAN
      BY <2>4, <2>r DEF A!CachedModules, A!Fresh, CachedModules
    <3>2. act' = [act EXCEPT ![r] = A!Idle] /\ perms' = A!Entry(r, mods.modules, mods.late)
          /\ UNCHANGED <<A!rows, mods, lost>>
      BY <2>4 DEF A!CachedModules, A!End
    <3> QED
      BY <3>1, <3>2, <2>r, <2>e, AccessTypesMove
  <2>5. ASSUME NEW r \in Requests, A!ReadModules(r) PROVE AccessTypes'
    <3> DEFINE x == [act[r] EXCEPT !.step = "store", !.modules = enabled]
    <3>1. x \in AccessRequest /\ About(x)
      <4>1. x \in AccessRequest
        BY <2>r DEF AccessRequest
      <4>2. About(x)
        BY <2>r DEF AccessRequest, About
      <4> QED
        BY <4>1, <4>2
    <3>2. act' = [act EXCEPT ![r] = x] /\ UNCHANGED <<A!rows, perms, mods, lost>>
      BY <2>5 DEF A!ReadModules
    <3> QED
      BY <3>1, <3>2, <2>r, AccessTypesMove
  <2>6. ASSUME NEW r \in Requests, A!StoreModules(r) PROVE AccessTypes'
    <3>1. act' = [act EXCEPT ![r] = A!Idle] /\ perms' = A!Entry(r, act[r].modules, FALSE)
          /\ mods' = [modules |-> act[r].modules, age |-> 0, late |-> act[r].late]
          /\ UNCHANGED <<A!rows, lost>>
      BY <2>6 DEF A!StoreModules, A!End
    <3>2. mods' \in CachedModules
      BY <3>1, <2>r DEF AccessRequest, CachedModules
    <3> QED
      BY <3>1, <3>2, <2>r, <2>e, AccessTypesMove
  <2>7. ASSUME NEW r \in Requests, NEW u \in Users, NEW to \in A!User, A!BeginUser(r, u, to)
        PROVE  AccessTypes'
    <3> DEFINE step == IF to.active /\ u \notin A!Active THEN "limit" ELSE "commit"
               x == [A!Idle EXCEPT !.op = "user", !.user = u, !.to = to, !.step = step]
    <3>1. x \in AccessRequest /\ About(x)
      <4>0. step \in {"limit", "commit"}
        OBVIOUS
      <4> HIDE DEF step
      <4>1. x \in AccessRequest
        BY <4>0, <2>r DEF A!Idle, AccessRequest
      <4>2. About(x)
        BY <2>r DEF A!Idle, AccessRequest, About
      <4> QED
        BY <4>1, <4>2
    <3>2. act' = [act EXCEPT ![r] = x] /\ UNCHANGED <<A!rows, perms, mods, lost>>
      BY <2>7 DEF A!BeginUser, A!Begin
    <3> QED
      BY <3>1, <3>2, <2>r, AccessTypesMove
  <2>8. ASSUME NEW r \in Requests, A!ReadLimit(r) PROVE AccessTypes'
    <3> DEFINE step == IF maxUsers = None THEN "commit" ELSE "count"
               x == [act[r] EXCEPT !.step = step, !.limit = maxUsers]
    <3>1. x \in AccessRequest /\ About(x)
      <4>0. /\ step \in {"commit", "count"} /\ maxUsers \in Limits
            /\ act[r] \in AccessRequest /\ About(act[r])
        BY <2>r
      <4> HIDE DEF step
      <4>1. x \in AccessRequest
        BY <4>0 DEF AccessRequest
      <4>2. About(x)
        BY <4>0 DEF AccessRequest, About
      <4> QED
        BY <4>1, <4>2
    <3>2. act' = [act EXCEPT ![r] = x] /\ UNCHANGED <<A!rows, perms, mods, lost>>
      BY <2>8 DEF A!ReadLimit
    <3> QED
      BY <3>1, <3>2, <2>r, AccessTypesMove
  <2>9. ASSUME NEW r \in Requests, A!CountSeats(r) PROVE AccessTypes'
    <3> DEFINE x == [act[r] EXCEPT !.step = "commit"]
    <3>1. x \in AccessRequest /\ About(x)
      <4>1. x \in AccessRequest
        BY <2>r DEF AccessRequest
      <4>2. About(x)
        BY <2>r DEF AccessRequest, About
      <4> QED
        BY <4>1, <4>2
    <3>2. (act' = [act EXCEPT ![r] = x] \/ act' = [act EXCEPT ![r] = A!Idle])
          /\ UNCHANGED <<A!rows, perms, mods, lost>>
      BY <2>9 DEF A!CountSeats, A!End
    <3> QED
      BY <3>1, <3>2, <2>r, AccessTypesMove
  <2>10. ASSUME NEW r \in Requests, NEW o \in Roles, NEW to \in KeySets, A!BeginRole(r, o, to)
         PROVE  AccessTypes'
    <3> DEFINE x == [A!Idle EXCEPT !.op = "role", !.step = "commit", !.role = o, !.to = to]
    <3>1. x \in AccessRequest /\ About(x)
      <4>1. x \in AccessRequest
        BY <2>r DEF A!Idle, AccessRequest
      <4>2. About(x)
        BY <2>r DEF A!Idle, AccessRequest, About
      <4> QED
        BY <4>1, <4>2
    <3>2. act' = [act EXCEPT ![r] = x] /\ UNCHANGED <<A!rows, perms, mods, lost>>
      BY <2>10 DEF A!BeginRole, A!Begin
    <3> QED
      BY <3>1, <3>2, <2>r, AccessTypesMove
  <2>11. ASSUME NEW r \in Requests, NEW to \in ModuleSets, A!BeginModules(r, to) PROVE AccessTypes'
    <3> DEFINE x == [A!Idle EXCEPT !.op = "modules", !.step = "commit", !.to = to, !.modules = Modules]
    <3>1. x \in AccessRequest /\ About(x)
      <4>0. Modules \in ModuleSets
        BY DEF ModuleSets
      <4>1. x \in AccessRequest
        BY <4>0, <2>r DEF A!Idle, AccessRequest
      <4>2. About(x)
        BY <2>r DEF A!Idle, AccessRequest, About
      <4> QED
        BY <4>1, <4>2
    <3>2. act' = [act EXCEPT ![r] = x] /\ UNCHANGED <<A!rows, perms, mods, lost>>
      BY <2>11 DEF A!BeginModules, A!Begin
    <3> QED
      BY <3>1, <3>2, <2>r, AccessTypesMove
  <2> DEFINE Ends(r) == [act[r] EXCEPT !.step = "invalidate"]
  <2>i. \A r \in Requests : Ends(r) \in AccessRequest /\ About(Ends(r))
    BY <2>r DEF AccessRequest, About
  <2>12. ASSUME NEW r \in Requests, A!CommitUser(r) PROVE AccessTypes'
    <3> DEFINE u == act[r].user
               to == act[r].to
    <3>1. PICK S : /\ act' = [q \in Requests |-> IF q = r THEN Ends(r)
                                   ELSE [act[q] EXCEPT !.late = @ \/ q \in S]]
                   /\ user' = [user EXCEPT ![u] = to] /\ A!Lost
                   /\ UNCHANGED <<grants, enabled, maxUsers, perms, mods>>
      BY <2>12 DEF A!CommitUser, A!Committed
    <3>2. u \in Users /\ to \in A!User
      BY <2>12, <2>r DEF A!CommitUser, A!At, About
    <3>3. user' \in [Users -> A!User \cup {None}] /\ \A v \in A!Known : user'[v] # None
      BY <3>1, <3>2, <2>r DEF A!Assumptions, A!Known
    <3> QED
      BY <3>1, <3>3, <2>i, <2>r, AccessTypesCommit
  <2>13. ASSUME NEW r \in Requests, A!CommitRole(r) PROVE AccessTypes'
    <3>1. PICK S : /\ act' = [q \in Requests |-> IF q = r THEN Ends(r)
                                   ELSE [act[q] EXCEPT !.late = @ \/ q \in S]]
                   /\ grants' = [grants EXCEPT ![act[r].role] = act[r].to] /\ A!Lost
                   /\ UNCHANGED <<user, enabled, maxUsers, perms, mods>>
      BY <2>13 DEF A!CommitRole, A!Committed
    <3>2. act[r].to \in KeySets
      BY <2>13, <2>r DEF A!CommitRole, A!At, About
    <3>3. grants' \in [Roles -> KeySets] /\ \A v \in A!Known : user'[v] # None
      BY <3>1, <3>2, <2>r DEF A!Known
    <3> QED
      BY <3>1, <3>3, <2>i, <2>r, AccessTypesCommit
  <2>14. ASSUME NEW r \in Requests, NEW m \in Modules, A!WriteModule(r, m) PROVE AccessTypes'
    <3> DEFINE left == act[r].modules \ {m}
               step == IF left = {} THEN "invalidate" ELSE "commit"
               x == [act[r] EXCEPT !.modules = left, !.step = step]
    <3>1. PICK S : /\ act' = [q \in Requests |-> IF q = r THEN x
                                   ELSE [act[q] EXCEPT !.late = @ \/ q \in S]]
                   /\ enabled' = (IF m \in act[r].to THEN enabled \cup {m} ELSE enabled \ {m}) /\ A!Lost
                   /\ UNCHANGED <<user, grants, maxUsers, perms, mods>>
      BY <2>14 DEF A!WriteModule
    <3>2. x \in AccessRequest /\ About(x)
      <4>0. left \in ModuleSets
        BY <2>r DEF AccessRequest, ModuleSets
      <4>s. step \in {"invalidate", "commit"}
        OBVIOUS
      <4> HIDE DEF left, step
      <4>1. x \in AccessRequest
        BY <4>0, <4>s, <2>r DEF AccessRequest
      <4>2. About(x)
        BY <2>r DEF AccessRequest, About
      <4> QED
        BY <4>1, <4>2
    <3>3. enabled' \in ModuleSets /\ \A v \in A!Known : user'[v] # None
      BY <3>1, <2>r DEF A!Known, ModuleSets
    <3> HIDE DEF x
    <3> QED
      BY <3>1, <3>2, <3>3, <2>r, AccessTypesCommit
  <2>15. ASSUME NEW r \in Requests, A!Invalidate(r) PROVE AccessTypes'
    <3>1. /\ act' = [act EXCEPT ![r] = A!Idle] /\ UNCHANGED <<A!rows, lost>>
          /\ perms' \in [Users -> CachedUser \cup {None}] /\ mods' \in CachedModules \cup {None}
      BY <2>15, <2>r DEF A!Invalidate, A!End
    <3> QED
      BY <3>1, <2>r, AccessTypesMove
  <2>16. ASSUME NEW r \in Requests, A!Fail(r) PROVE AccessTypes'
    <3>1. \A e \in CachedUser \cup {None} : A!Late(e) \in CachedUser \cup {None}
      BY DEF A!Late, CachedUser
    <3>2. \A e \in CachedModules \cup {None} : A!Late(e) \in CachedModules \cup {None}
      BY DEF A!Late, CachedModules
    <3>3. /\ act' = [act EXCEPT ![r] = A!Idle] /\ UNCHANGED <<A!rows, lost>>
          /\ perms' \in [Users -> CachedUser \cup {None}] /\ mods' \in CachedModules \cup {None}
      BY <3>1, <3>2, <2>16, <2>r DEF A!Fail, A!End
    <3> QED
      BY <3>3, <2>r, AccessTypesMove
  <2>17. ASSUME NEW n \in Limits, A!SetSubscription(n) PROVE AccessTypes'
    <3>1. PICK S : /\ act' = [q \in Requests |-> [act[q] EXCEPT !.late = @ \/ q \in S]]
                   /\ maxUsers' = n /\ UNCHANGED <<user, grants, enabled, perms, mods, lost>>
      BY <2>17 DEF A!SetSubscription
    <3>2. \A q \in Requests :
             /\ act'[q] \in AccessRequest
             /\ act'[q].op = act[q].op /\ act'[q].user = act[q].user
             /\ act'[q].role = act[q].role /\ act'[q].to = act[q].to
      <4> SUFFICES ASSUME NEW q \in Requests
                   PROVE  /\ act'[q] \in AccessRequest
                          /\ act'[q].op = act[q].op /\ act'[q].user = act[q].user
                          /\ act'[q].role = act[q].role /\ act'[q].to = act[q].to
        OBVIOUS
      <4>1. act[q] \in AccessRequest /\ act'[q] = [act[q] EXCEPT !.late = @ \/ q \in S]
        BY <2>r, <3>1
      <4> QED
        BY <4>1 DEF AccessRequest
    <3>3. \A q \in Requests : About(act[q])'
      BY <3>1, <3>2, <2>r DEF About, A!Known
    <3> QED
      BY <3>1, <3>2, <3>3 DEF AccessTypes
  <2>18. CASE A!Tick
    <3>0. UNCHANGED <<user, grants, enabled, maxUsers, overtaken>>
          /\ act' = [q \in Requests |-> IF act[q] = A!Idle THEN A!Idle ELSE [act[q] EXCEPT !.waited = 1]]
      BY <2>18 DEF A!Tick, A!rows
    <3>1. \A q \in Requests :
             /\ act'[q] \in AccessRequest
             /\ act'[q].op = act[q].op /\ act'[q].user = act[q].user
             /\ act'[q].role = act[q].role /\ act'[q].to = act[q].to
      <4> SUFFICES ASSUME NEW q \in Requests
                   PROVE  /\ act'[q] \in AccessRequest
                          /\ act'[q].op = act[q].op /\ act'[q].user = act[q].user
                          /\ act'[q].role = act[q].role /\ act'[q].to = act[q].to
        OBVIOUS
      <4>1. CASE act[q] = A!Idle
        <5>1. act'[q] = act[q]
          BY <3>0, <4>1
        <5> QED
          BY <2>r, <5>1
      <4>2. CASE act[q] # A!Idle
        <5>1. act'[q] = [act[q] EXCEPT !.waited = 1]
          BY <3>0, <4>2
        <5> QED
          BY <2>r, <5>1 DEF AccessRequest
      <4> QED
        BY <4>1, <4>2
    <3>7. \A q \in Requests : About(act[q])'
      BY <3>0, <3>1, <2>r DEF About, A!Known
    <3>2. \A e \in CachedUser \cup {None} : A!Older(e, PermTTL) \in CachedUser \cup {None}
      BY DEF A!Older, CachedUser
    <3>3. \A e \in CachedModules \cup {None} : A!Older(e, ModuleTTL) \in CachedModules \cup {None}
      BY DEF A!Older, CachedModules
    <3>4. \A n \in Nat : n + 1 \in Nat
      OBVIOUS
    <3>5. lost' \in [Users -> [Permissions -> [A!Causes -> Nat]]]
      BY <2>18, <3>4 DEF A!Tick, AccessTypes
    <3>6. act' \in [Requests -> AccessRequest] /\ UNCHANGED A!rows
          /\ perms' \in [Users -> CachedUser \cup {None}] /\ mods' \in CachedModules \cup {None}
      BY <2>18, <2>r, <3>1, <3>2, <3>3 DEF A!Tick
    <3> QED
      BY <3>0, <3>5, <3>6, <3>7, <2>r DEF AccessTypes
  <2>19. CASE A!Restart
    <3>1. /\ act' = [q \in Requests |-> A!Idle] /\ UNCHANGED A!rows /\ UNCHANGED lost
          /\ perms' = [u \in Users |-> None] /\ mods' = None
      BY <2>19 DEF A!Restart
    <3>2. About(A!Idle)'
      BY DEF About, A!Idle, A!Assumptions
    <3> QED
      BY <3>1, <3>2, <2>r DEF AccessTypes, A!rows
  <2>20. CASE UNCHANGED A!vars
    BY <2>20 DEF A!vars, A!rows, AccessTypes, About, A!Known
  <2> QED
    BY <2>1, <2>2, <2>3, <2>4, <2>5, <2>6, <2>7, <2>8, <2>9, <2>10, <2>11, <2>12, <2>13, <2>14, <2>15,
       <2>16, <2>17, <2>18, <2>19, <2>20 DEF A!Next, A!Check, A!Write, KeySets, ModuleSets
<1> QED
  BY <1>1, <1>2, PTL DEF A!Spec

\* A request that goes on to make a user active has counted within the limit, which
\* still holds, unless something it went by has changed.
Counted(r) ==
    act[r].op = "user" /\ ~act[r].late =>
        /\ act[r].step = "count" =>
              /\ act[r].limit \in Nat
              /\ maxUsers # None => act[r].limit <= maxUsers
        /\ act[r].step = "commit" /\ act[r].to.active =>
              \/ act[r].user \in A!Active
              \/ act[r].limit = None /\ maxUsers = None
              \/ /\ act[r].limit \in Nat /\ Cardinality(A!Active) < act[r].limit
                 /\ maxUsers # None => act[r].limit <= maxUsers

SeatsInv == /\ \A r \in Requests : Counted(r)
            /\ A!SeatsKept

\* The sets that Access counts are those of FiniteSets.
LEMMA SeatsCounted ==
    \A S : (A!IsFiniteSet(S) <=> IsFiniteSet(S)) /\ A!Cardinality(S) = Cardinality(S)
<1>1. \A S : A!IsFiniteSet(S) <=> IsFiniteSet(S)
  BY DEF A!IsFiniteSet, IsFiniteSet
<1>2. \A S : A!Cardinality(S) = Cardinality(S)
  BY DEF A!Cardinality, Cardinality
<1> QED
  BY <1>1, <1>2

\* Active users are users, of which there are a number.
LEMMA ActiveUsers ==
    ASSUME A!Assumptions, AccessTypes
    PROVE  /\ \A S \in SUBSET Users : IsFiniteSet(S) /\ Cardinality(S) \in Nat
           /\ A!Active \subseteq Users
           /\ maxUsers # None => maxUsers \in Nat
<1>1. \A S \in SUBSET Users : IsFiniteSet(S)
  BY FS_Subset, SeatsCounted DEF A!Assumptions
<1>2. \A S \in SUBSET Users : Cardinality(S) \in Nat
  BY <1>1, FS_CardinalityType
<1> QED
  BY <1>1, <1>2 DEF A!Active, A!Known, AccessTypes, A!Assumptions

\* Steps that leave users and the limit alone keep what a request has counted, when
\* what it goes on with has it.
LEMMA SeatsMove ==
    ASSUME A!Assumptions, AccessTypes, SeatsInv, UNCHANGED A!rows, NEW r \in Requests, Counted(r)',
           \A q \in Requests \ {r} : act'[q] = act[q]
    PROVE  SeatsInv'
<1>1. UNCHANGED A!Active /\ UNCHANGED <<maxUsers, overtaken>>
  BY DEF A!rows, A!Active, A!Known
<1>2. \A q \in Requests : Counted(q)'
  BY <1>1 DEF SeatsInv, Counted
<1> QED
  BY SeatsCounted, <1>1, <1>2 DEF SeatsInv, A!SeatsKept

\* Commits of a role or a module change nothing that a user's request goes by.
LEMMA SeatsTold ==
    ASSUME SeatsInv, UNCHANGED <<user, maxUsers, overtaken>>, NEW r \in Requests, Counted(r)',
           \A q \in Requests \ {r} :
              /\ act'[q].op = act[q].op /\ act'[q].step = act[q].step /\ act'[q].limit = act[q].limit
              /\ act'[q].user = act[q].user /\ act'[q].to = act[q].to
              /\ act[q].late => act'[q].late
    PROVE  SeatsInv'
<1>1. UNCHANGED A!Active
  BY DEF A!Active, A!Known
<1>2. ASSUME NEW q \in Requests \ {r} PROVE Counted(q)'
  BY <1>1, <1>2 DEF Counted, SeatsInv
<1> QED
  BY <1>1, <1>2 DEF SeatsInv, A!SeatsKept

\* A commit of a user: its seat was counted, or it is overtaken.
LEMMA SeatsCommit ==
    ASSUME A!Assumptions, AccessTypes, SeatsInv, NEW r \in Requests, A!CommitUser(r)
    PROVE  SeatsInv'
<1> DEFINE u == act[r].user
           to == act[r].to
           S == A!Checking({u}, {"roles", "modules", "store"}) \cup A!Outnumbered(u, to)
<1>1. /\ u \in Users /\ to \in A!User /\ to # None /\ act[r].op = "user" /\ act[r].step = "commit"
      /\ user \in [Users -> A!User \cup {None}]
  BY DEF A!CommitUser, A!At, AccessTypes, About, A!Assumptions
<1>2. /\ user' = [user EXCEPT ![u] = to]
      /\ overtaken' = IF ~to.active THEN overtaken \ {u}
                      ELSE IF act[r].late /\ u \notin A!Active /\ maxUsers # None /\ ~A!Seat(maxUsers)
                      THEN overtaken \cup {u} ELSE overtaken
      /\ act' = [q \in Requests |-> IF q = r THEN [act[q] EXCEPT !.step = "invalidate"]
                                    ELSE [act[q] EXCEPT !.late = @ \/ q \in S]]
      /\ UNCHANGED maxUsers
  BY DEF A!CommitUser, A!Committed
<1>3. A!Active' = IF to.active THEN A!Active \cup {u} ELSE A!Active \ {u}
  BY <1>1, <1>2 DEF A!Active, A!Known
<1>4. A!SeatsKept'
  <2> SUFFICES ASSUME maxUsers # None
               PROVE  Cardinality(A!Active' \ overtaken') <= maxUsers
    BY SeatsCounted, <1>2 DEF A!SeatsKept
  <2>1. /\ maxUsers \in Nat /\ A!Active \subseteq Users
        /\ \A T \in SUBSET Users : IsFiniteSet(T) /\ Cardinality(T) \in Nat
    BY ActiveUsers
  <2>2. Cardinality(A!Active \ overtaken) <= maxUsers
    BY SeatsCounted DEF SeatsInv, A!SeatsKept
  <2>3. CASE A!Active' \ overtaken' \subseteq A!Active \ overtaken
    <3>1. IsFiniteSet(A!Active \ overtaken)
      BY <2>1
    <3>2. Cardinality(A!Active' \ overtaken') <= Cardinality(A!Active \ overtaken)
      BY <2>3, <3>1, FS_Subset
    <3>3. Cardinality(A!Active' \ overtaken') \in Nat /\ Cardinality(A!Active \ overtaken) \in Nat
      BY <2>1, <2>3
    <3> QED
      BY <2>1, <2>2, <3>2, <3>3
  <2>4. CASE to.active /\ u \notin A!Active /\ Cardinality(A!Active) < maxUsers
    <3>1. Cardinality(A!Active \cup {u}) = Cardinality(A!Active) + 1
      BY <2>1, <2>4, FS_AddElement
    <3>2. IsFiniteSet(A!Active \cup {u}) /\ A!Active' \ overtaken' \subseteq A!Active \cup {u}
      BY <1>1, <1>3, <2>1, <2>4
    <3>3. Cardinality(A!Active' \ overtaken') <= Cardinality(A!Active \cup {u})
      BY <3>2, FS_Subset
    <3>4. Cardinality(A!Active' \ overtaken') \in Nat /\ Cardinality(A!Active) \in Nat
      BY <1>1, <2>1, <3>2
    <3> QED
      BY <2>1, <2>4, <3>1, <3>3, <3>4
  <2>5. CASE ~to.active
    BY <1>2, <1>3, <2>3, <2>5
  <2>6. CASE to.active /\ u \in A!Active
    BY <1>2, <1>3, <2>3, <2>6
  <2>7. CASE to.active /\ u \notin A!Active /\ ~(Cardinality(A!Active) < maxUsers)
    <3>1. act[r].late
      BY <1>1, <2>1, <2>7 DEF SeatsInv, Counted
    <3>2. overtaken' = overtaken \cup {u}
      BY SeatsCounted, <1>2, <2>7, <3>1 DEF A!Seat
    <3> QED
      BY <1>3, <2>3, <2>7, <3>2
  <2> QED
    BY <2>4, <2>5, <2>6, <2>7
<1>5. ASSUME NEW q \in Requests PROVE Counted(q)'
  <2>1. CASE q = r
    BY <1>1, <1>2, <2>1 DEF AccessTypes, AccessRequest, Counted
  <2>2. CASE q # r
    <3>1. /\ act'[q].op = act[q].op /\ act'[q].step = act[q].step /\ act'[q].limit = act[q].limit
          /\ act'[q].user = act[q].user /\ act'[q].to = act[q].to
          /\ act[q].late \/ q \in S => act'[q].late
      <4>1. act[q] \in AccessRequest
        BY DEF AccessTypes
      <4>2. act'[q] = [act[q] EXCEPT !.late = @ \/ q \in S]
        BY <1>2, <2>2
      <4> HIDE DEF S
      <4> QED
        BY <4>1, <4>2 DEF AccessRequest
    <3>2. CASE q \in S
      BY <3>1, <3>2 DEF Counted
    <3>3. CASE q \notin S
      <4>1. act[q].op = "user" /\ act[q].step = "commit" =>
               IF to.active THEN u \in A!Active ELSE act[q].user # u
        BY <3>3 DEF A!Outnumbered, A!At
      <4>2. act[q].op = "user" /\ act[q].step = "commit" =>
               /\ act[q].user \in A!Active => act[q].user \in A!Active'
               /\ Cardinality(A!Active') <= Cardinality(A!Active)
        <5>1. act[q].op = "user" /\ act[q].step = "commit" => A!Active' \subseteq A!Active
          BY <1>3, <4>1
        <5>2. IsFiniteSet(A!Active)
          BY ActiveUsers
        <5> QED
          BY <1>3, <4>1, <5>1, <5>2, FS_Subset
      <4>3. Counted(q)
        BY DEF SeatsInv
      <4>4. Cardinality(A!Active) \in Nat /\ (A!Active' \subseteq A!Active => Cardinality(A!Active') \in Nat)
        BY ActiveUsers
      <4>5. act[q].op = "user" /\ act[q].step = "commit" => A!Active' \subseteq A!Active
        BY <1>3, <4>1
      <4>6. ASSUME act[q].op = "user", ~act[q].late, act[q].step = "commit", act[q].to.active,
                   act[q].user \notin A!Active'
            PROVE  \/ act[q].limit = None /\ maxUsers = None
                   \/ /\ act[q].limit \in Nat /\ Cardinality(A!Active') < act[q].limit
                      /\ maxUsers # None => act[q].limit <= maxUsers
        <5>1. act[q].user \notin A!Active
          BY <4>2, <4>6
        <5>2. \/ act[q].limit = None /\ maxUsers = None
              \/ /\ act[q].limit \in Nat /\ Cardinality(A!Active) < act[q].limit
                 /\ maxUsers # None => act[q].limit <= maxUsers
          BY <4>3, <4>6, <5>1 DEF Counted
        <5> QED
          BY <4>2, <4>4, <4>5, <4>6, <5>2
      <4>7. ASSUME act[q].op = "user", ~act[q].late, act[q].step = "count"
            PROVE  act[q].limit \in Nat /\ (maxUsers # None => act[q].limit <= maxUsers)
        BY <4>3, <4>7 DEF Counted
      <4> QED
        BY <1>2, <3>1, <4>6, <4>7 DEF Counted
    <3> QED
      BY <3>2, <3>3
  <2> QED
    BY <2>1, <2>2
<1> QED
  BY <1>4, <1>5 DEF SeatsInv

\* A changed limit: those above it are overtaken, and so are the requests that have
\* read a higher one.
LEMMA SeatsSubscribed ==
    ASSUME A!Assumptions, AccessTypes, SeatsInv, NEW n \in Limits, A!SetSubscription(n)
    PROVE  SeatsInv'
<1>1. /\ maxUsers' = n /\ UNCHANGED user
      /\ overtaken' = IF n # None /\ n < Cardinality(A!Active) THEN overtaken \cup A!Active ELSE overtaken
      /\ act' = [q \in Requests |-> [act[q] EXCEPT !.late = @ \/ q \in A!Unlimited(n)]]
  BY SeatsCounted DEF A!SetSubscription
<1>2. UNCHANGED A!Active
  BY <1>1 DEF A!Active, A!Known
<1>3. /\ n # None => n \in Nat
      /\ \A T \in SUBSET Users : IsFiniteSet(T) /\ Cardinality(T) \in Nat
      /\ A!Active \subseteq Users
  BY ActiveUsers DEF A!Assumptions
<1>4. A!SeatsKept'
  <2> SUFFICES ASSUME n # None PROVE Cardinality(A!Active \ overtaken') <= n
    BY SeatsCounted, <1>1, <1>2 DEF A!SeatsKept
  <2>1. CASE n < Cardinality(A!Active)
    <3>1. A!Active \ overtaken' = {}
      BY <1>1, <2>1
    <3> QED
      BY <1>3, <3>1, FS_EmptySet
  <2>2. CASE ~(n < Cardinality(A!Active))
    <3>1. Cardinality(A!Active \ overtaken') <= Cardinality(A!Active)
      BY <1>3, FS_Subset
    <3>2. Cardinality(A!Active \ overtaken') \in Nat /\ Cardinality(A!Active) \in Nat
      BY <1>3
    <3> QED
      BY <1>3, <2>2, <3>1, <3>2
  <2> QED
    BY <2>1, <2>2
<1>5. ASSUME NEW q \in Requests PROVE Counted(q)'
  <2>1. /\ act'[q].op = act[q].op /\ act'[q].step = act[q].step /\ act'[q].limit = act[q].limit
        /\ act'[q].user = act[q].user /\ act'[q].to = act[q].to
        /\ act[q].late \/ q \in A!Unlimited(n) => act'[q].late
    BY <1>1 DEF AccessTypes, AccessRequest
  <2>2. Counted(q)
    BY DEF SeatsInv
  <2>3. q \notin A!Unlimited(n) /\ act[q].op = "user" /\ act[q].step \in {"count", "commit"} =>
           n = None \/ (act[q].limit # None /\ ~(n < act[q].limit))
    BY DEF A!Unlimited
  <2>4. Cardinality(A!Active) \in Nat
    BY <1>3
  <2>5. ASSUME act[q].op = "user", ~act'[q].late, act[q].step = "count"
        PROVE  act[q].limit \in Nat /\ (n # None => act[q].limit <= n)
    <3>1. ~act[q].late /\ q \notin A!Unlimited(n)
      BY <2>1, <2>5
    <3>2. act[q].limit \in Nat
      BY <2>2, <2>5, <3>1 DEF Counted
    <3> QED
      BY <1>3, <2>3, <2>5, <3>1, <3>2
  <2>6. ASSUME act[q].op = "user", ~act'[q].late, act[q].step = "commit", act[q].to.active,
               act[q].user \notin A!Active
        PROVE  \/ act[q].limit = None /\ n = None
               \/ /\ act[q].limit \in Nat /\ Cardinality(A!Active) < act[q].limit
                  /\ n # None => act[q].limit <= n
    <3>1. ~act[q].late /\ q \notin A!Unlimited(n)
      BY <2>1, <2>6
    <3>2. \/ act[q].limit = None
          \/ act[q].limit \in Nat /\ Cardinality(A!Active) < act[q].limit
      BY <2>2, <2>6, <3>1 DEF Counted
    <3>3. n = None \/ (act[q].limit # None /\ ~(n < act[q].limit))
      BY <2>3, <2>6, <3>1
    <3> QED
      BY <1>3, <2>4, <3>2, <3>3
  <2> QED
    BY <1>1, <1>2, <2>1, <2>5, <2>6 DEF Counted
<1> QED
  BY <1>4, <1>5 DEF SeatsInv

\* No more users are active than the plan has seats, whatever requests and changes of
\* the plan overlap, but for those who were when it was lowered and those whose request
\* had counted before another made one active or the plan was lowered.
THEOREM SeatsAreKept == CompanySpec => []SeatsKept
<1> A!Assumptions
  BY CompanyAssumption
<1>1. A!Init => SeatsInv
  <2> SUFFICES ASSUME A!Init PROVE SeatsInv
    OBVIOUS
  <2>1. A!Active = {}
    BY DEF A!Init, A!Active, A!Known
  <2>2. A!SeatsKept
    BY SeatsCounted, <2>1, FS_EmptySet DEF A!Init, A!SeatsKept, A!Assumptions
  <2>3. \A r \in Requests : Counted(r)
    BY DEF A!Init, A!Idle, Counted
  <2> QED
    BY <2>2, <2>3 DEF SeatsInv
<1>2. A!Assumptions /\ AccessTypes /\ SeatsInv /\ [A!Next]_A!vars => SeatsInv'
  <2> SUFFICES ASSUME AccessTypes, SeatsInv, [A!Next]_A!vars PROVE SeatsInv'
    OBVIOUS
  <2>r. \A q \in Requests : act[q] \in AccessRequest /\ About(act[q])
    BY DEF AccessTypes
  <2>i. \A q \in Requests : act'[q] = A!Idle => Counted(q)'
    BY DEF Counted, A!Idle
  <2>1. ASSUME NEW r \in Requests, A!Check(r) PROVE SeatsInv'
    <3>1. UNCHANGED A!rows /\ \A q \in Requests \ {r} : act'[q] = act[q]
      BY <2>1, <2>r DEF A!Check, A!BeginCheck, A!ReadUser, A!ReadRoles, A!CachedModules, A!ReadModules,
         A!StoreModules, A!Begin, A!End, AccessTypes
    <3>a. act \in [Requests -> AccessRequest]
      BY DEF AccessTypes
    <3>b. ASSUME NEW u \in Users, A!BeginCheck(r, u) PROVE act'[r].op = "check"
      BY <3>a, <3>b DEF A!BeginCheck, A!Begin, A!Idle
    <3>c. ASSUME A!ReadUser(r) \/ A!ReadRoles(r) \/ A!ReadModules(r) PROVE act'[r].op = "check"
      BY <3>a, <3>c DEF A!ReadUser, A!ReadRoles, A!ReadModules, A!At, AccessRequest
    <3>d. ASSUME A!CachedModules(r) \/ A!StoreModules(r) PROVE act'[r] = A!Idle
      BY <3>a, <3>d DEF A!CachedModules, A!StoreModules, A!End
    <3>2. act'[r] = A!Idle \/ act'[r].op = "check"
      BY <2>1, <3>b, <3>c, <3>d DEF A!Check
    <3>3. Counted(r)'
      BY <2>i, <3>2 DEF Counted
    <3> QED
      BY <3>1, <3>3, SeatsMove
  <2>2. ASSUME NEW r \in Requests, NEW u \in Users, NEW to \in A!User, A!BeginUser(r, u, to)
        PROVE  SeatsInv'
    <3>1. /\ UNCHANGED A!rows /\ act' = [act EXCEPT ![r] = [A!Idle EXCEPT !.op = "user", !.user = u, !.to = to,
                             !.step = IF to.active /\ u \notin A!Active THEN "limit" ELSE "commit"]]
      BY <2>2 DEF A!BeginUser, A!Begin
    <3>2. Counted(r)'
      BY <3>1 DEF Counted, A!Idle, AccessTypes, A!rows, A!Active, A!Known
    <3> QED
      BY <3>1, <3>2, SeatsMove DEF AccessTypes
  <2>3. ASSUME NEW r \in Requests, A!ReadLimit(r) PROVE SeatsInv'
    <3>1. /\ UNCHANGED A!rows
          /\ act' = [act EXCEPT ![r].step = IF maxUsers = None THEN "commit" ELSE "count",
                                ![r].limit = maxUsers]
      BY <2>3 DEF A!ReadLimit
    <3>2. Counted(r)'
      BY <2>r, <3>1, ActiveUsers DEF Counted, AccessTypes, AccessRequest, A!rows
    <3> QED
      BY <3>1, <3>2, SeatsMove DEF AccessTypes
  <2>4. ASSUME NEW r \in Requests, A!CountSeats(r) PROVE SeatsInv'
    <3>1. /\ UNCHANGED A!rows /\ act[r].op = "user" /\ act[r].step = "count"
          /\ \/ A!Seat(act[r].limit) /\ act' = [act EXCEPT ![r].step = "commit"]
             \/ act' = [act EXCEPT ![r] = A!Idle]
      BY <2>4 DEF A!CountSeats, A!At, A!End
    <3>2. UNCHANGED A!Active /\ UNCHANGED maxUsers
      BY <3>1 DEF A!rows, A!Active, A!Known
    <3>3. Counted(r)
      BY DEF SeatsInv
    <3>4. Counted(r)'
      <4>1. CASE act' = [act EXCEPT ![r] = A!Idle]
        BY <2>i, <4>1 DEF AccessTypes
      <4>2. CASE A!Seat(act[r].limit) /\ act' = [act EXCEPT ![r].step = "commit"]
        <5>1. Cardinality(A!Active) < act[r].limit
          BY SeatsCounted, <4>2 DEF A!Seat
        <5>2. /\ act'[r].step = "commit" /\ act'[r].limit = act[r].limit /\ act'[r].late = act[r].late
              /\ act'[r].op = act[r].op
          BY <2>r, <4>2 DEF AccessTypes, AccessRequest
        <5> QED
          BY <3>1, <3>2, <3>3, <5>1, <5>2 DEF Counted
      <4> QED
        BY <3>1, <4>1, <4>2
    <3> QED
      BY <3>1, <3>4, SeatsMove DEF AccessTypes
  <2>5. ASSUME NEW r \in Requests, NEW o \in Roles, NEW to \in SUBSET Permissions, A!BeginRole(r, o, to)
        PROVE  SeatsInv'
    <3>1. /\ UNCHANGED A!rows
          /\ act' = [act EXCEPT ![r] = [A!Idle EXCEPT !.op = "role", !.step = "commit", !.role = o, !.to = to]]
      BY <2>5 DEF A!BeginRole, A!Begin
    <3>2. Counted(r)'
      BY <3>1 DEF Counted, A!Idle, AccessTypes
    <3> QED
      BY <3>1, <3>2, SeatsMove DEF AccessTypes
  <2>6. ASSUME NEW r \in Requests, NEW to \in SUBSET Modules, A!BeginModules(r, to) PROVE SeatsInv'
    <3>1. /\ UNCHANGED A!rows
          /\ act' = [act EXCEPT ![r] = [A!Idle EXCEPT !.op = "modules", !.step = "commit", !.to = to, !.modules = Modules]]
      BY <2>6 DEF A!BeginModules, A!Begin
    <3>2. Counted(r)'
      BY <3>1 DEF Counted, A!Idle, AccessTypes
    <3> QED
      BY <3>1, <3>2, SeatsMove DEF AccessTypes
  <2>8. ASSUME NEW r \in Requests, A!CommitRole(r) PROVE SeatsInv'
    <3> DEFINE x == [act[r] EXCEPT !.step = "invalidate"]
    <3>1. PICK S : /\ act' = [q \in Requests |-> IF q = r THEN x ELSE [act[q] EXCEPT !.late = @ \/ q \in S]]
                   /\ UNCHANGED <<user, maxUsers, overtaken>> /\ act[r].op = "role"
      BY <2>8 DEF A!CommitRole, A!Committed, A!At
    <3>2. /\ act'[r].op = act[r].op
          /\ \A q \in Requests \ {r} :
                /\ act'[q].op = act[q].op /\ act'[q].step = act[q].step /\ act'[q].limit = act[q].limit
                /\ act'[q].user = act[q].user /\ act'[q].to = act[q].to
                /\ act[q].late => act'[q].late
      BY <2>r, <3>1 DEF AccessRequest
    <3>3. Counted(r)'
      BY <3>1, <3>2 DEF Counted
    <3> QED
      BY <3>1, <3>2, <3>3, SeatsTold
  <2>9. ASSUME NEW r \in Requests, NEW m \in Modules, A!WriteModule(r, m) PROVE SeatsInv'
    <3> DEFINE left == act[r].modules \ {m}
               x == [act[r] EXCEPT !.modules = left, !.step = IF left = {} THEN "invalidate" ELSE "commit"]
    <3>1. PICK S : /\ act' = [q \in Requests |-> IF q = r THEN x ELSE [act[q] EXCEPT !.late = @ \/ q \in S]]
                   /\ UNCHANGED <<user, maxUsers, overtaken>> /\ act[r].op = "modules"
      BY <2>9 DEF A!WriteModule, A!At
    <3>2. /\ act'[r].op = act[r].op
          /\ \A q \in Requests \ {r} :
                /\ act'[q].op = act[q].op /\ act'[q].step = act[q].step /\ act'[q].limit = act[q].limit
                /\ act'[q].user = act[q].user /\ act'[q].to = act[q].to
                /\ act[q].late => act'[q].late
      BY <2>r, <3>1 DEF AccessRequest
    <3>3. Counted(r)'
      BY <3>1, <3>2 DEF Counted
    <3> QED
      BY <3>1, <3>2, <3>3, SeatsTold
  <2>10. ASSUME NEW r \in Requests, A!Invalidate(r) \/ A!Fail(r) PROVE SeatsInv'
    <3>1. UNCHANGED A!rows /\ act' = [act EXCEPT ![r] = A!Idle]
      BY <2>10 DEF A!Invalidate, A!Fail, A!End
    <3>2. act'[r] = A!Idle /\ \A q \in Requests \ {r} : act'[q] = act[q]
      BY <3>1 DEF AccessTypes
    <3> QED
      BY <2>i, <3>1, <3>2, SeatsMove
  <2>11. CASE A!Tick
    <3>1. UNCHANGED <<user, maxUsers, overtaken>>
          /\ act' = [q \in Requests |-> IF act[q] = A!Idle THEN A!Idle ELSE [act[q] EXCEPT !.waited = 1]]
      BY <2>11 DEF A!Tick, A!rows
    <3>2. UNCHANGED A!Active
      BY <3>1 DEF A!Active, A!Known
    <3>3. \A q \in Requests :
             /\ act'[q].op = act[q].op /\ act'[q].step = act[q].step /\ act'[q].limit = act[q].limit
             /\ act'[q].user = act[q].user /\ act'[q].to = act[q].to /\ act'[q].late = act[q].late
      BY <3>1, <2>r DEF AccessRequest
    <3>4. \A q \in Requests : Counted(q)'
      BY <3>1, <3>2, <3>3 DEF SeatsInv, Counted
    <3> QED
      BY SeatsCounted, <3>1, <3>2, <3>4 DEF SeatsInv, A!SeatsKept
  <2>12. CASE A!Restart
    <3>1. UNCHANGED A!rows /\ \A q \in Requests : act'[q] = A!Idle
      BY <2>12 DEF A!Restart
    <3>2. \A q \in Requests : Counted(q)'
      BY <2>i, <3>1
    <3> QED
      BY SeatsCounted, <3>1, <3>2 DEF SeatsInv, A!SeatsKept, A!rows, A!Active, A!Known
  <2>13. CASE UNCHANGED A!vars
    BY SeatsCounted, <2>13 DEF A!vars, A!rows, SeatsInv, Counted, A!SeatsKept, A!Active, A!Known
  <2> QED
    BY <2>1, <2>2, <2>3, <2>4, <2>5, <2>6, <2>8, <2>9, <2>10, <2>11, <2>12, <2>13, SeatsCommit,
       SeatsSubscribed DEF A!Next, A!Write
<1>3. SeatsInv => SeatsKept
  BY DEF SeatsInv, SeatsKept
<1>4. A!Spec => []AccessTypes
  BY AccessTypesHold
<1> QED
  BY <1>1, <1>2, <1>3, <1>4, PartsOfCompany, PTL DEF A!Spec

(* What is refused in time                                                 *)

\* What a user has is not counted as lost.
HeldIsNotLost ==
    \A u \in Users, p \in Permissions : \A c \in A!Causes \ A!Missing(u, p) : lost[u][p][c] = 0

\* What a check has read was so no longer ago than its queries have taken.
ReadInTime(r) ==
    act[r].op = "check" =>
        /\ act[r].step \in {"roles", "modules", "store"} /\ act[r].active =>
              \A p \in Permissions : lost[act[r].user][p]["inactive"] <= act[r].waited
        /\ act[r].step \in {"modules", "store"} =>
              \A p \in act[r].keys : lost[act[r].user][p]["role"] <= act[r].waited
        /\ act[r].step = "store" =>
              \A u \in Users, p \in A!Licensed(Permissions, act[r].modules) :
                  lost[u][p]["module"] <= act[r].waited

\* The modules in their cache were licensed a tick before they were stored at the latest, ...
ModulesInTime ==
    A!Fresh(mods, ModuleTTL) =>
        \A u \in Users, p \in A!Licensed(Permissions, mods.modules) : lost[u][p]["module"] <= 1 + mods.age

\* ... and what is cached of a user was so when the modules were stored.
PermissionsInTime ==
    \A u \in Users :
        A!Fresh(perms[u], PermTTL) /\ perms[u].active =>
            \A p \in perms[u].keys, c \in A!Causes : lost[u][p][c] <= ModuleTTL + perms[u].age

InTimeInv ==
    /\ HeldIsNotLost
    /\ \A r \in Requests : ReadInTime(r)
    /\ ModulesInTime
    /\ PermissionsInTime

(* What is told to those that have read it                                 *)

\* r has changed the modules and is still to drop the caches.
Written(r) == act[r].op = "modules" /\ act[r].modules # Modules

\* What a check has read of the user still holds, or it is late.
Abreast(r) ==
    act[r].op = "check" /\ ~act[r].late =>
        /\ act[r].step \in {"roles", "modules", "store"} /\ act[r].active => act[r].user \in A!Active
        /\ act[r].step \in {"modules", "store"} => act[r].keys \subseteq A!Granted(act[r].user)
        /\ act[r].step = "store" => act[r].modules = enabled

\* The cached modules are those licensed, or late, or about to be dropped, ...
ModulesTold == mods # None /\ ~mods.late => mods.modules = enabled \/ \E r \in Requests : Written(r)

\* ... and so is what is cached of a user.
ToldOf(u) ==
    perms[u] # None /\ perms[u].active /\ ~perms[u].late =>
        \/ /\ u \in A!Active
           /\ perms[u].keys \subseteq A!Granted(u)
           /\ perms[u].keys \subseteq A!Licensed(Permissions, enabled)
        \/ \E r \in Requests : Written(r) \/ (act[r].step = "invalidate" /\ u \in A!Dropped(r))

ToldInv ==
    /\ \A r \in Requests : Abreast(r)
    /\ \A r \in Requests : act[r].op = "modules" /\ act[r].step = "invalidate" => Written(r)
    /\ ModulesTold
    /\ \A u \in Users : ToldOf(u)

\* Lost adds nothing to what is lost, and what a user has again is no more.
LEMMA LostLess ==
    ASSUME AccessTypes, A!Lost
    PROVE  \A u \in Users, p \in Permissions, c \in A!Causes :
              /\ lost'[u][p][c] \in Nat /\ lost[u][p][c] \in Nat
              /\ lost'[u][p][c] <= lost[u][p][c]
              /\ c \notin A!Missing(u, p)' => lost'[u][p][c] = 0
<1> SUFFICES ASSUME NEW u \in Users, NEW p \in Permissions, NEW c \in A!Causes
             PROVE  /\ lost'[u][p][c] \in Nat /\ lost[u][p][c] \in Nat
                    /\ lost'[u][p][c] <= lost[u][p][c]
                    /\ c \notin A!Missing(u, p)' => lost'[u][p][c] = 0
  OBVIOUS
<1>1. lost[u][p][c] \in Nat
  BY DEF AccessTypes
<1>2. lost'[u][p][c] = IF c \in A!Missing(u, p)' THEN lost[u][p][c] ELSE 0
  BY DEF A!Lost
<1> QED
  BY <1>1, <1>2

\* A step of one request that leaves the rows and the caches alone.
LEMMA InTimeMove ==
    ASSUME InTimeInv, NEW r \in Requests, UNCHANGED <<A!rows, lost, perms, mods>>, ReadInTime(r)',
           \A q \in Requests \ {r} : act'[q] = act[q]
    PROVE  InTimeInv'
<1>1. HeldIsNotLost'
  BY DEF InTimeInv, HeldIsNotLost, A!Missing, A!Granted, A!Licensed, A!Active, A!Known, A!rows
<1>2. \A q \in Requests : ReadInTime(q)'
  BY DEF InTimeInv, ReadInTime, A!Licensed
<1>3. ModulesInTime' /\ PermissionsInTime'
  BY DEF InTimeInv, ModulesInTime, PermissionsInTime, A!Licensed, A!Fresh
<1> QED
  BY <1>1, <1>2, <1>3 DEF InTimeInv

\* A commit: what a user loses has only just been lost.
LEMMA InTimeCommit ==
    ASSUME A!TimesAssumption, AccessTypes, InTimeInv, NEW r \in Requests, A!Lost, UNCHANGED <<perms, mods>>,
           act'[r].op # "check",
           \A q \in Requests \ {r} :
              /\ act'[q].op = act[q].op /\ act'[q].step = act[q].step /\ act'[q].user = act[q].user
              /\ act'[q].active = act[q].active /\ act'[q].keys = act[q].keys
              /\ act'[q].modules = act[q].modules /\ act'[q].waited = act[q].waited
    PROVE  InTimeInv'
<1>l. \A u \in Users, p \in Permissions, c \in A!Causes :
         /\ lost'[u][p][c] \in Nat /\ lost[u][p][c] \in Nat
         /\ lost'[u][p][c] <= lost[u][p][c]
         /\ c \notin A!Missing(u, p)' => lost'[u][p][c] = 0
  BY LostLess
<1>c. {"inactive", "role", "module"} = A!Causes
  BY DEF A!Causes
<1>1. HeldIsNotLost'
  BY <1>l DEF HeldIsNotLost
<1>2. ASSUME NEW q \in Requests PROVE ReadInTime(q)'
  <2>1. CASE q = r
    BY <2>1 DEF ReadInTime
  <2>2. CASE q # r
    <3> SUFFICES ASSUME act[q].op = "check" PROVE ReadInTime(q)'
      BY <2>2 DEF ReadInTime
    <3>1. /\ act'[q].op = act[q].op /\ act'[q].step = act[q].step /\ act'[q].user = act[q].user
          /\ act'[q].active = act[q].active /\ act'[q].keys = act[q].keys
          /\ act'[q].modules = act[q].modules /\ act'[q].waited = act[q].waited
      BY <2>2
    <3>2. act[q].user \in Users /\ act[q].keys \subseteq Permissions /\ act[q].waited \in Nat
      <4>1. act[q] \in AccessRequest /\ About(act[q])
        BY DEF AccessTypes
      <4>2. act[q].user \in Users
        BY <4>1 DEF About, A!Known
      <4>3. act[q].keys \subseteq Permissions /\ act[q].waited \in Nat
        BY <4>1 DEF AccessRequest, KeySets
      <4> QED
        BY <4>2, <4>3
    <3>3. ReadInTime(q)
      BY DEF InTimeInv
    <3>4. act[q].step \in {"roles", "modules", "store"} /\ act[q].active =>
              \A p \in Permissions : lost'[act[q].user][p]["inactive"] <= act[q].waited
      BY <1>l, <1>c, <3>2, <3>3 DEF ReadInTime
    <3>5. act[q].step \in {"modules", "store"} =>
              \A p \in act[q].keys : lost'[act[q].user][p]["role"] <= act[q].waited
      BY <1>l, <1>c, <3>2, <3>3 DEF ReadInTime
    <3>6. act[q].step = "store" =>
              \A u \in Users, p \in A!Licensed(Permissions, act[q].modules) :
                  lost'[u][p]["module"] <= act[q].waited
      BY <1>l, <1>c, <3>2, <3>3 DEF ReadInTime, A!Licensed
    <3> QED
      BY <3>1, <3>4, <3>5, <3>6 DEF ReadInTime, A!Licensed
  <2> QED
    BY <2>1, <2>2
<1>3. ModulesInTime'
  <2>1. mods # None => mods.age \in Nat
    BY DEF AccessTypes, CachedModules
  <2> QED
    BY <1>l, <1>c, <2>1 DEF InTimeInv, ModulesInTime, A!Fresh, A!Licensed
<1>4. PermissionsInTime'
  <2> SUFFICES ASSUME NEW u \in Users, A!Fresh(perms[u], PermTTL), perms[u].active,
                      NEW p \in perms[u].keys, NEW c \in A!Causes
               PROVE  lost'[u][p][c] <= ModuleTTL + perms[u].age
    BY DEF PermissionsInTime, A!Fresh
  <2>1. lost[u][p][c] <= ModuleTTL + perms[u].age
    BY DEF InTimeInv, PermissionsInTime
  <2>2. p \in Permissions /\ perms[u].age \in Nat
    BY DEF AccessTypes, CachedUser, KeySets, A!Fresh
  <2> QED
    BY <1>l, <2>1, <2>2 DEF A!TimesAssumption
<1> QED
  BY <1>1, <1>2, <1>3, <1>4 DEF InTimeInv

\* The modules are read, or found in their cache.
LEMMA InTimeRead ==
    ASSUME A!Assumptions, A!TimesAssumption, AccessTypes, InTimeInv, NEW r \in Requests,
           A!CachedModules(r) \/ A!StoreModules(r)
    PROVE  InTimeInv'
<1> DEFINE x == act[r]
           u == x.user
<1>1. /\ x.op = "check" /\ x.step \in {"modules", "store"} /\ UNCHANGED <<A!rows, lost>>
      /\ act' = [act EXCEPT ![r] = A!Idle]
  BY DEF A!CachedModules, A!StoreModules, A!At, A!End
<1>2. /\ act \in [Requests -> AccessRequest] /\ x \in AccessRequest /\ About(x) /\ ReadInTime(r)
      /\ perms \in [Users -> CachedUser \cup {None}] /\ mods \in CachedModules \cup {None}
  BY DEF AccessTypes, InTimeInv
<1>3. /\ u \in Users /\ x.keys \subseteq Permissions /\ x.waited \in {0, 1}
  <2>1. u \in Users
    BY <1>1, <1>2 DEF About, A!Known
  <2>2. x.keys \subseteq Permissions /\ x.waited \in {0, 1}
    BY <1>2 DEF AccessRequest, KeySets
  <2> QED
    BY <2>1, <2>2
<1>n. \A v \in Users, p \in Permissions, c \in A!Causes : lost[v][p][c] \in Nat
  BY DEF AccessTypes
<1>c. A!Causes = {"inactive", "role", "module"}
  BY DEF A!Causes
<1>t. ModuleTTL \in Nat \ {0}
  BY DEF A!TimesAssumption
<1>4. HeldIsNotLost'
  BY <1>1 DEF InTimeInv, HeldIsNotLost, A!Missing, A!Granted, A!Licensed, A!Active, A!Known, A!rows
<1>5. ASSUME NEW q \in Requests PROVE ReadInTime(q)'
  <2>1. CASE q = r
    <3>1. act'[q] = A!Idle
      BY <1>1, <1>2, <2>1
    <3> QED
      BY <3>1 DEF ReadInTime, A!Idle, A!Assumptions, A!Operations
  <2>2. CASE q # r
    <3>1. act'[q] = act[q] /\ UNCHANGED lost
      BY <1>1, <1>2, <2>2
    <3> QED
      BY <3>1 DEF ReadInTime, InTimeInv, A!Licensed
  <2> QED
    BY <2>1, <2>2
\* What is stored with the modules M, n ticks old.
<1>6. ASSUME NEW M, NEW late \in BOOLEAN, perms' = A!Entry(r, M, late),
             \A v \in Users, p \in A!Licensed(Permissions, M) : lost[v][p]["module"] <= ModuleTTL
      PROVE  PermissionsInTime'
  <2> SUFFICES ASSUME NEW v \in Users, A!Fresh(perms'[v], PermTTL), perms'[v].active,
                      NEW p \in perms'[v].keys, NEW c \in A!Causes
               PROVE  lost[v][p][c] <= ModuleTTL + perms'[v].age
    BY <1>1 DEF PermissionsInTime, A!Fresh
  <2>1. CASE v = u
    <3>1. /\ perms'[v].keys = A!Licensed(x.keys, M) /\ perms'[v].active = x.active
          /\ perms'[v].age = 0
      BY <1>2, <1>3, <1>6, <2>1 DEF A!Entry
    <3>2. p \in x.keys /\ p \in Permissions /\ p \in A!Licensed(Permissions, M) /\ x.active
      BY <1>3, <3>1 DEF A!Licensed
    <3>3. lost[v][p]["inactive"] <= x.waited /\ lost[v][p]["role"] <= x.waited
      BY <1>1, <1>2, <2>1, <3>2 DEF ReadInTime
    <3>4. lost[v][p]["module"] <= ModuleTTL
      BY <1>6, <3>2
    <3>5. lost[v][p][c] \in Nat /\ lost[v][p][c] <= ModuleTTL
      <4>1. lost[v][p]["inactive"] \in Nat /\ lost[v][p]["role"] \in Nat
        BY <1>n, <1>c, <3>2
      <4>2. lost[v][p]["inactive"] <= ModuleTTL /\ lost[v][p]["role"] <= ModuleTTL
        BY <1>3, <1>t, <3>3, <4>1
      <4> QED
        BY <1>n, <1>c, <3>2, <3>4, <4>2
    <3> QED
      BY <1>t, <3>1, <3>5
  <2>2. CASE v # u
    <3>1. perms'[v] = perms[v]
      BY <1>2, <1>6, <2>2 DEF A!Entry
    <3> QED
      BY <3>1 DEF InTimeInv, PermissionsInTime, A!Fresh
  <2> QED
    BY <2>1, <2>2
<1>7. CASE A!CachedModules(r)
  <2>1. /\ A!Fresh(mods, ModuleTTL) /\ UNCHANGED mods
        /\ perms' = A!Entry(r, mods.modules, mods.late)
    BY <1>7 DEF A!CachedModules
  <2>2. mods.late \in BOOLEAN /\ mods.age \in Nat /\ mods.age < ModuleTTL
    BY <1>2, <2>1 DEF A!Fresh, CachedModules
  <2>3. ASSUME NEW v \in Users, NEW p \in A!Licensed(Permissions, mods.modules)
        PROVE  lost[v][p]["module"] <= ModuleTTL
    <3>1. lost[v][p]["module"] <= 1 + mods.age
      BY <2>1 DEF InTimeInv, ModulesInTime
    <3>2. lost[v][p]["module"] \in Nat
      BY <1>n, <1>c DEF A!Licensed
    <3> QED
      BY <1>t, <2>2, <3>1, <3>2
  <2>4. ModulesInTime'
    BY <1>1, <2>1 DEF InTimeInv, ModulesInTime, A!Fresh, A!Licensed
  <2>5. PermissionsInTime'
    BY <1>6, <2>1, <2>2, <2>3
  <2> QED
    BY <1>4, <1>5, <2>4, <2>5 DEF InTimeInv
<1>8. CASE A!StoreModules(r)
  <2>1. /\ x.step = "store" /\ mods' = [modules |-> x.modules, age |-> 0, late |-> x.late]
        /\ perms' = A!Entry(r, x.modules, FALSE)
    BY <1>8 DEF A!StoreModules, A!At
  <2>2. ASSUME NEW v \in Users, NEW p \in A!Licensed(Permissions, x.modules)
        PROVE  lost[v][p]["module"] <= 1 /\ lost[v][p]["module"] <= ModuleTTL
    <3>1. lost[v][p]["module"] <= x.waited
      BY <1>1, <1>2, <2>1 DEF ReadInTime
    <3>2. lost[v][p]["module"] \in Nat
      BY <1>n, <1>c DEF A!Licensed
    <3> QED
      BY <1>3, <1>t, <3>1, <3>2
  <2>3. ModulesInTime'
    BY <1>1, <2>1, <2>2 DEF ModulesInTime, A!Fresh, A!Licensed
  <2>4. PermissionsInTime'
    BY <1>6, <2>1, <2>2
  <2> QED
    BY <1>4, <1>5, <2>3, <2>4 DEF InTimeInv
<1> QED
  BY <1>7, <1>8

\* A tick: the requests of the last one have been answered, and all entries are a tick older.
LEMMA InTimeTick ==
    ASSUME A!Assumptions, A!TimesAssumption, AccessTypes, InTimeInv, A!Tick
    PROVE  InTimeInv'
<1>n. \A v \in Users, p \in Permissions, c \in A!Causes : lost[v][p][c] \in Nat
  BY DEF AccessTypes
<1>c. {"inactive", "role", "module"} = A!Causes
  BY DEF A!Causes
<1>t. ModuleTTL \in Nat \ {0}
  BY DEF A!TimesAssumption
<1>r. UNCHANGED A!rows /\ \A q \in Requests : act[q] \in AccessRequest /\ About(act[q]) /\ act[q].waited = 0
  BY DEF A!Tick, AccessTypes
<1>1. \A v \in Users, p \in Permissions, c \in A!Causes :
         /\ lost'[v][p][c] \in Nat /\ lost'[v][p][c] <= lost[v][p][c] + 1
         /\ c \notin A!Missing(v, p) => lost'[v][p][c] = lost[v][p][c]
  <2> SUFFICES ASSUME NEW v \in Users, NEW p \in Permissions, NEW c \in A!Causes
               PROVE  /\ lost'[v][p][c] \in Nat /\ lost'[v][p][c] <= lost[v][p][c] + 1
                      /\ c \notin A!Missing(v, p) => lost'[v][p][c] = lost[v][p][c]
    OBVIOUS
  <2>1. lost'[v][p][c] = (IF c \in A!Missing(v, p) /\ lost[v][p][c] <= A!Bound
                          THEN lost[v][p][c] + 1 ELSE lost[v][p][c])
    BY DEF A!Tick
  <2> QED
    BY <1>n, <2>1
<1>2. HeldIsNotLost'
  <2>1. \A v \in Users, p \in Permissions : A!Missing(v, p)' = A!Missing(v, p)
    BY <1>r DEF A!Missing, A!Granted, A!Licensed, A!Active, A!Known, A!rows
  <2> QED
    BY <1>1, <2>1 DEF InTimeInv, HeldIsNotLost
<1>3. ASSUME NEW q \in Requests PROVE ReadInTime(q)'
  <2>1. act' = [s \in Requests |-> IF act[s] = A!Idle THEN A!Idle ELSE [act[s] EXCEPT !.waited = 1]]
    BY DEF A!Tick
  <2>2. CASE act[q] = A!Idle
    BY <2>1, <2>2 DEF ReadInTime, A!Idle, A!Assumptions, A!Operations
  <2>3. CASE act[q] # A!Idle
    <3> SUFFICES ASSUME act'[q].op = "check" PROVE ReadInTime(q)'
      BY DEF ReadInTime
    <3>1. /\ act'[q].op = act[q].op /\ act'[q].step = act[q].step /\ act'[q].user = act[q].user
          /\ act'[q].active = act[q].active /\ act'[q].keys = act[q].keys
          /\ act'[q].modules = act[q].modules /\ act'[q].waited = 1
      BY <1>r, <2>1, <2>3 DEF AccessRequest
    <3>2. act[q].user \in Users
      BY <1>r, <3>1 DEF About, A!Known
    <3>3. act[q].keys \subseteq Permissions
      BY <1>r DEF AccessRequest, KeySets
    <3>4. ReadInTime(q) /\ act[q].waited = 0
      BY <1>r DEF InTimeInv
    <3>m. \A v \in Users, p \in Permissions, c \in A!Causes : lost[v][p][c] <= 0 => lost'[v][p][c] <= 1
      BY <1>1, <1>n
    <3>5. act[q].step \in {"roles", "modules", "store"} /\ act[q].active =>
              \A p \in Permissions : lost'[act[q].user][p]["inactive"] <= 1
      BY <3>m, <1>c, <3>1, <3>2, <3>4 DEF ReadInTime
    <3>6. act[q].step \in {"modules", "store"} =>
              \A p \in act[q].keys : lost'[act[q].user][p]["role"] <= 1
      BY <3>m, <1>c, <3>1, <3>2, <3>3, <3>4 DEF ReadInTime
    <3>7. act[q].step = "store" =>
              \A u \in Users, p \in A!Licensed(Permissions, act[q].modules) : lost'[u][p]["module"] <= 1
      BY <3>m, <1>c, <3>1, <3>4 DEF ReadInTime, A!Licensed
    <3> QED
      BY <3>1, <3>5, <3>6, <3>7 DEF ReadInTime, A!Licensed
  <2> QED
    BY <2>2, <2>3
<1>4. ModulesInTime'
  <2> SUFFICES ASSUME A!Fresh(mods, ModuleTTL)', NEW u \in Users,
                      NEW p \in Permissions, p \in A!Licensed(Permissions, mods.modules)'
               PROVE  lost'[u][p]["module"] <= 1 + mods'.age
    BY DEF ModulesInTime, A!Licensed
  <2>1. mods' = A!Older(mods, ModuleTTL) /\ mods \in CachedModules \cup {None}
    BY DEF A!Tick, AccessTypes
  <2>2. A!Fresh(mods, ModuleTTL)
    BY <2>1 DEF A!Fresh, A!Older
  <2>3. mods.age \in Nat /\ mods'.age = mods.age + 1 /\ mods'.modules = mods.modules
    BY <2>1, <2>2 DEF A!Fresh, A!Older, CachedModules
  <2>4. lost[u][p]["module"] <= 1 + mods.age
    BY <2>2, <2>3 DEF InTimeInv, ModulesInTime, A!Licensed
  <2> QED
    BY <1>1, <1>n, <1>c, <2>3, <2>4
<1>5. PermissionsInTime'
  <2> SUFFICES ASSUME NEW u \in Users, A!Fresh(perms[u], PermTTL)', perms'[u].active,
                      NEW p \in perms'[u].keys, NEW c \in A!Causes
               PROVE  lost'[u][p][c] <= ModuleTTL + perms'[u].age
    BY DEF PermissionsInTime
  <2>1. perms'[u] = A!Older(perms[u], PermTTL) /\ perms[u] \in CachedUser \cup {None}
    BY DEF A!Tick, AccessTypes
  <2>2. A!Fresh(perms[u], PermTTL)
    BY <2>1 DEF A!Fresh, A!Older
  <2>3. /\ perms[u].age \in Nat /\ perms'[u].age = perms[u].age + 1 /\ perms'[u].keys = perms[u].keys
        /\ perms'[u].active = perms[u].active /\ perms[u].keys \subseteq Permissions
    BY <2>1, <2>2 DEF A!Fresh, A!Older, CachedUser, KeySets
  <2>4. lost[u][p][c] <= ModuleTTL + perms[u].age
    BY <2>2, <2>3 DEF InTimeInv, PermissionsInTime
  <2> QED
    BY <1>1, <1>n, <1>t, <2>3, <2>4
<1> QED
  BY <1>2, <1>3, <1>4, <1>5 DEF InTimeInv

\* A step that drops entries of the caches, or has them known as late.
LEMMA InTimeDrop ==
    ASSUME AccessTypes, InTimeInv, UNCHANGED <<A!rows, lost>>, \A q \in Requests : ReadInTime(q)',
           \A u \in Users : perms'[u] \in {None, perms[u], A!Late(perms[u])},
           mods' \in {None, mods, A!Late(mods)}
    PROVE  InTimeInv'
<1>1. HeldIsNotLost'
  BY DEF InTimeInv, HeldIsNotLost, A!Missing, A!Granted, A!Licensed, A!Active, A!Known, A!rows
<1>2. ModulesInTime'
  <2> SUFFICES ASSUME A!Fresh(mods, ModuleTTL)' PROVE ModulesInTime'
    BY DEF ModulesInTime
  <2>1. A!Fresh(mods, ModuleTTL) /\ mods'.modules = mods.modules /\ mods'.age = mods.age
    BY DEF A!Fresh, A!Late, AccessTypes, CachedModules
  <2> QED
    BY <2>1 DEF InTimeInv, ModulesInTime, A!Licensed
<1>3. PermissionsInTime'
  <2> SUFFICES ASSUME NEW u \in Users, A!Fresh(perms[u], PermTTL)', perms'[u].active
               PROVE  \A p \in perms'[u].keys, c \in A!Causes : lost[u][p][c] <= ModuleTTL + perms'[u].age
    BY DEF PermissionsInTime
  <2>1. perms[u] \in CachedUser \cup {None}
    BY DEF AccessTypes
  <2>2. /\ A!Fresh(perms[u], PermTTL) /\ perms'[u].keys = perms[u].keys /\ perms'[u].age = perms[u].age
        /\ perms[u].active
    BY <2>1 DEF A!Fresh, A!Late, CachedUser
  <2> QED
    BY <2>2 DEF InTimeInv, PermissionsInTime
<1> QED
  BY <1>1, <1>2, <1>3 DEF InTimeInv

\* What has been read and what is cached was so as lately as the times of the caches say.
LEMMA InTimeHolds ==
    ASSUME A!Assumptions, A!TimesAssumption PROVE A!Spec => []InTimeInv
<1>1. A!Init => InTimeInv
  <2> SUFFICES ASSUME A!Init PROVE InTimeInv
    OBVIOUS
  <2>1. HeldIsNotLost
    BY DEF A!Init, HeldIsNotLost
  <2>2. \A r \in Requests : ReadInTime(r)
    BY DEF A!Init, A!Idle, ReadInTime, A!Assumptions, A!Operations
  <2>3. ModulesInTime /\ PermissionsInTime
    BY DEF A!Init, ModulesInTime, PermissionsInTime, A!Fresh
  <2> QED
    BY <2>1, <2>2, <2>3 DEF InTimeInv
<1>2. A!Assumptions /\ A!TimesAssumption /\ AccessTypes /\ InTimeInv /\ [A!Next]_A!vars => InTimeInv'
  <2> SUFFICES ASSUME AccessTypes, InTimeInv, [A!Next]_A!vars PROVE InTimeInv'
    OBVIOUS
  <2>r. /\ act \in [Requests -> AccessRequest]
        /\ \A q \in Requests : act[q] \in AccessRequest /\ About(act[q])
        /\ None \notin A!Operations
    BY DEF AccessTypes, A!Assumptions
  <2>i. \A q \in Requests : act'[q] = A!Idle => ReadInTime(q)'
    BY <2>r DEF ReadInTime, A!Idle, A!Operations
  <2>1. ASSUME NEW r \in Requests, NEW u \in Users, A!BeginCheck(r, u) PROVE InTimeInv'
    <3>1. /\ act' = [act EXCEPT ![r] = [A!Idle EXCEPT !.op = "check", !.step = "user", !.user = u]]
          /\ UNCHANGED <<A!rows, perms, mods, lost>>
      BY <2>1 DEF A!BeginCheck, A!Begin
    <3>2. ReadInTime(r)'
      BY <2>r, <3>1 DEF ReadInTime, A!Idle
    <3> QED
      BY <2>r, <3>1, <3>2, InTimeMove
  <2>2. ASSUME NEW r \in Requests, A!ReadUser(r) PROVE InTimeInv'
    <3>1. /\ act' = [act EXCEPT ![r].step = "roles", ![r].active = user[act[r].user].active]
          /\ UNCHANGED <<A!rows, perms, mods, lost>> /\ act[r].op = "check"
      BY <2>2 DEF A!ReadUser, A!At
    <3>2. /\ act'[r].step = "roles" /\ act'[r].active = user[act[r].user].active
          /\ act'[r].user = act[r].user /\ act'[r].waited = act[r].waited /\ act[r].waited \in {0, 1}
      BY <2>r, <3>1 DEF AccessRequest
    <3>3. act'[r].active => act[r].user \in A!Active
      BY <2>r, <3>1, <3>2 DEF About, A!Active
    <3>4. act'[r].active => \A p \in Permissions : lost[act[r].user][p]["inactive"] = 0
      BY <3>3 DEF InTimeInv, HeldIsNotLost, A!Missing, A!Causes, A!Active, A!Known
    <3>5. ReadInTime(r)'
      <4>1. UNCHANGED lost
        BY <3>1
      <4>2. act'[r].active => \A p \in Permissions : lost'[act'[r].user][p]["inactive"] <= act'[r].waited
        BY <3>2, <3>4, <4>1
      <4> QED
        BY <3>2, <4>2 DEF ReadInTime
    <3> QED
      BY <2>r, <3>1, <3>5, InTimeMove
  <2>3. ASSUME NEW r \in Requests, A!ReadRoles(r) PROVE InTimeInv'
    <3> DEFINE keys == A!Granted(act[r].user)
    <3>1. /\ act' = [act EXCEPT ![r].step = "modules", ![r].keys = keys]
          /\ UNCHANGED <<A!rows, perms, mods, lost>> /\ act[r].op = "check" /\ act[r].step = "roles"
      BY <2>3 DEF A!ReadRoles, A!At
    <3>2. /\ act'[r].step = "modules" /\ act'[r].keys = keys /\ act'[r].active = act[r].active
          /\ act'[r].user = act[r].user /\ act'[r].waited = act[r].waited /\ act[r].waited \in {0, 1}
      BY <2>r, <3>1 DEF AccessRequest
    <3>3. act[r].user \in A!Known /\ keys \subseteq Permissions
      BY <2>r, <3>1 DEF About, AccessTypes, A!Granted, A!Known, A!User, KeySets
    <3>4. \A p \in keys : lost[act[r].user][p]["role"] = 0
      BY <3>3 DEF InTimeInv, HeldIsNotLost, A!Missing, A!Causes, A!Known
    <3>5. ReadInTime(r)
      BY DEF InTimeInv
    <3>6. ReadInTime(r)'
      <4> HIDE DEF keys
      <4>1. UNCHANGED lost
        BY <3>1
      <4>2. \A p \in act'[r].keys : lost'[act'[r].user][p]["role"] <= act'[r].waited
        BY <3>2, <3>4, <4>1
      <4>3. act'[r].active =>
               \A p \in Permissions : lost'[act'[r].user][p]["inactive"] <= act'[r].waited
        BY <3>1, <3>2, <3>5, <4>1 DEF ReadInTime
      <4> QED
        BY <3>2, <4>2, <4>3 DEF ReadInTime
    <3> QED
      BY <2>r, <3>1, <3>6, InTimeMove
  <2>4. ASSUME NEW r \in Requests, A!ReadModules(r) PROVE InTimeInv'
    <3>1. /\ act' = [act EXCEPT ![r].step = "store", ![r].modules = enabled]
          /\ UNCHANGED <<A!rows, perms, mods, lost>> /\ act[r].op = "check" /\ act[r].step = "modules"
      BY <2>4 DEF A!ReadModules, A!At
    <3>2. /\ act'[r].step = "store" /\ act'[r].modules = enabled /\ act'[r].active = act[r].active
          /\ act'[r].keys = act[r].keys
          /\ act'[r].user = act[r].user /\ act'[r].waited = act[r].waited /\ act[r].waited \in {0, 1}
      BY <2>r, <3>1 DEF AccessRequest
    <3>4. \A u \in Users, p \in A!Licensed(Permissions, enabled) : lost[u][p]["module"] = 0
      BY DEF InTimeInv, HeldIsNotLost, A!Missing, A!Causes, A!Licensed
    <3>5. ReadInTime(r)
      BY DEF InTimeInv
    <3>6. ReadInTime(r)'
      <4>1. UNCHANGED lost
        BY <3>1
      <4>2. /\ act'[r].active =>
                  \A p \in Permissions : lost'[act'[r].user][p]["inactive"] <= act'[r].waited
            /\ \A p \in act'[r].keys : lost'[act'[r].user][p]["role"] <= act'[r].waited
        BY <3>1, <3>2, <3>5, <4>1 DEF ReadInTime
      <4>3. \A u \in Users, p \in A!Licensed(Permissions, act'[r].modules) :
               lost'[u][p]["module"] <= act'[r].waited
        BY <3>2, <3>4, <4>1
      <4> QED
        BY <3>2, <4>2, <4>3 DEF ReadInTime, A!Licensed
    <3> QED
      BY <2>r, <3>1, <3>6, InTimeMove
  <2>5. ASSUME NEW r \in Requests, A!CachedModules(r) \/ A!StoreModules(r) PROVE InTimeInv'
    BY <2>5, InTimeRead
  <2>6. ASSUME NEW r \in Requests,
               \/ \E u \in Users, to \in A!User : A!BeginUser(r, u, to)
               \/ \E o \in Roles, to \in SUBSET Permissions : A!BeginRole(r, o, to)
               \/ \E to \in SUBSET Modules : A!BeginModules(r, to)
               \/ A!ReadLimit(r) \/ A!CountSeats(r)
        PROVE  InTimeInv'
    <3>1. UNCHANGED <<A!rows, perms, mods, lost>> /\ \A q \in Requests \ {r} : act'[q] = act[q]
      BY <2>6, <2>r DEF A!BeginUser, A!BeginRole, A!BeginModules, A!ReadLimit, A!CountSeats, A!Begin, A!End
    <3>a. ASSUME NEW u \in Users, NEW to \in A!User, A!BeginUser(r, u, to) PROVE act'[r].op # "check"
      BY <2>r, <3>a DEF A!BeginUser, A!Begin, A!Idle
    <3>b. ASSUME NEW o \in Roles, NEW to \in SUBSET Permissions, A!BeginRole(r, o, to) PROVE act'[r].op # "check"
      BY <2>r, <3>b DEF A!BeginRole, A!Begin, A!Idle
    <3>c. ASSUME NEW to \in SUBSET Modules, A!BeginModules(r, to) PROVE act'[r].op # "check"
      BY <2>r, <3>c DEF A!BeginModules, A!Begin, A!Idle
    <3>d. ASSUME A!ReadLimit(r) PROVE act'[r].op # "check"
      BY <2>r, <3>d DEF A!ReadLimit, A!At, AccessRequest
    <3>e. ASSUME A!CountSeats(r) PROVE ReadInTime(r)'
      <4>1. CASE act' = [act EXCEPT ![r] = A!Idle]
        BY <2>i, <2>r, <4>1
      <4>2. CASE act' = [act EXCEPT ![r].step = "commit"]
        BY <2>r, <3>e, <4>2 DEF ReadInTime, A!CountSeats, A!At, AccessRequest
      <4> QED
        BY <3>e, <4>1, <4>2 DEF A!CountSeats, A!End
    <3>2. ReadInTime(r)'
      BY <2>6, <3>a, <3>b, <3>c, <3>d, <3>e DEF ReadInTime
    <3> QED
      BY <3>1, <3>2, InTimeMove
  <2>7. ASSUME NEW r \in Requests, A!CommitUser(r) \/ A!CommitRole(r) PROVE InTimeInv'
    <3>1. PICK S : /\ act' = [q \in Requests |-> IF q = r THEN [act[q] EXCEPT !.step = "invalidate"]
                                   ELSE [act[q] EXCEPT !.late = @ \/ q \in S]]
                   /\ A!Lost /\ UNCHANGED <<perms, mods>> /\ act[r].op # "check"
      BY <2>7 DEF A!CommitUser, A!CommitRole, A!Committed, A!At
    <3>2. /\ act'[r].op # "check"
          /\ \A q \in Requests \ {r} :
              /\ act'[q].op = act[q].op /\ act'[q].step = act[q].step /\ act'[q].user = act[q].user
              /\ act'[q].active = act[q].active /\ act'[q].keys = act[q].keys
              /\ act'[q].modules = act[q].modules /\ act'[q].waited = act[q].waited
      BY <2>r, <3>1 DEF AccessRequest
    <3> QED
      BY <3>1, <3>2, InTimeCommit
  <2>8. ASSUME NEW r \in Requests, NEW m \in Modules, A!WriteModule(r, m) PROVE InTimeInv'
    <3> DEFINE left == act[r].modules \ {m}
    <3>1. PICK S : /\ act' = [q \in Requests |->
                                IF q = r THEN [act[q] EXCEPT !.modules = left,
                                                  !.step = IF left = {} THEN "invalidate" ELSE "commit"]
                                ELSE [act[q] EXCEPT !.late = @ \/ q \in S]]
                   /\ A!Lost /\ UNCHANGED <<perms, mods>> /\ act[r].op # "check"
      BY <2>8 DEF A!WriteModule, A!At
    <3> HIDE DEF left
    <3>2. /\ act'[r].op # "check"
          /\ \A q \in Requests \ {r} :
              /\ act'[q].op = act[q].op /\ act'[q].step = act[q].step /\ act'[q].user = act[q].user
              /\ act'[q].active = act[q].active /\ act'[q].keys = act[q].keys
              /\ act'[q].modules = act[q].modules /\ act'[q].waited = act[q].waited
      <4>1. act[r] \in AccessRequest /\ act'[r].op = act[r].op
        BY <2>r, <3>1 DEF AccessRequest
      <4>2. \A q \in Requests \ {r} : /\ act[q] \in AccessRequest
                                     /\ act'[q] = [act[q] EXCEPT !.late = @ \/ q \in S]
        BY <2>r, <3>1
      <4> QED
        BY <3>1, <4>1, <4>2 DEF AccessRequest
    <3> QED
      BY <3>1, <3>2, InTimeCommit
  <2>9. ASSUME NEW r \in Requests, A!Invalidate(r) \/ A!Fail(r) PROVE InTimeInv'
    <3>1. /\ UNCHANGED <<A!rows, lost>> /\ act' = [act EXCEPT ![r] = A!Idle]
          /\ \A u \in Users : perms'[u] \in {None, perms[u], A!Late(perms[u])}
          /\ mods' \in {None, mods, A!Late(mods)}
      BY <2>9 DEF A!Invalidate, A!Fail, A!End
    <3>2. ASSUME NEW q \in Requests PROVE ReadInTime(q)'
      <4>1. CASE q = r
        BY <2>i, <2>r, <3>1, <4>1
      <4>2. CASE q # r
        <5>1. act'[q] = act[q] /\ UNCHANGED lost
          BY <2>r, <3>1, <4>2
        <5> QED
          BY <5>1 DEF ReadInTime, InTimeInv, A!Licensed
      <4> QED
        BY <4>1, <4>2
    <3> QED
      BY <3>1, <3>2, InTimeDrop
  <2>10. ASSUME NEW n \in Limits, A!SetSubscription(n) PROVE InTimeInv'
    <3>1. PICK S : /\ act' = [q \in Requests |-> [act[q] EXCEPT !.late = @ \/ q \in S]]
                   /\ UNCHANGED <<user, grants, enabled, perms, mods, lost>>
      BY <2>10 DEF A!SetSubscription
    <3>2. \A q \in Requests :
              /\ act'[q].op = act[q].op /\ act'[q].step = act[q].step /\ act'[q].user = act[q].user
              /\ act'[q].active = act[q].active /\ act'[q].keys = act[q].keys
              /\ act'[q].modules = act[q].modules /\ act'[q].waited = act[q].waited
      BY <2>r, <3>1 DEF AccessRequest
    <3>3. HeldIsNotLost'
      BY <3>1 DEF InTimeInv, HeldIsNotLost, A!Missing, A!Granted, A!Licensed, A!Active, A!Known
    <3>4. \A q \in Requests : ReadInTime(q)'
      BY <3>1, <3>2 DEF InTimeInv, ReadInTime, A!Licensed
    <3>5. ModulesInTime' /\ PermissionsInTime'
      BY <3>1 DEF InTimeInv, ModulesInTime, PermissionsInTime, A!Licensed, A!Fresh
    <3> QED
      BY <3>3, <3>4, <3>5 DEF InTimeInv
  <2>11. CASE A!Tick
    BY <2>11, InTimeTick
  <2>12. CASE A!Restart
    <3>1. /\ UNCHANGED <<A!rows, lost>> /\ \A q \in Requests : act'[q] = A!Idle
          /\ \A u \in Users : perms'[u] = None
          /\ mods' = None
      BY <2>12 DEF A!Restart
    <3>2. \A q \in Requests : ReadInTime(q)'
      BY <2>i, <3>1
    <3> QED
      BY <3>1, <3>2, InTimeDrop
  <2>13. CASE UNCHANGED A!vars
    <3>1. UNCHANGED <<A!rows, lost, perms, mods>> /\ UNCHANGED act
      BY <2>13 DEF A!vars
    <3>2. \A q \in Requests : ReadInTime(q)'
      BY <3>1 DEF InTimeInv, ReadInTime, A!Licensed
    <3> QED
      BY <3>1, <3>2, InTimeDrop
  <2> QED
    BY <2>1, <2>2, <2>3, <2>4, <2>5, <2>6, <2>7, <2>8, <2>9, <2>10, <2>11, <2>12, <2>13
       DEF A!Next, A!Check, A!Write
<1>3. A!Spec => []AccessTypes
  BY AccessTypesHold
<1> QED
  BY <1>1, <1>2, <1>3, PTL DEF A!Spec

\* A step of one request before its commit.
LEMMA ToldMove ==
    ASSUME ToldInv, NEW r \in Requests, UNCHANGED <<A!rows, perms, mods>>,
           ~Written(r), act[r].step # "invalidate", act'[r].step # "invalidate", Abreast(r)',
           \A q \in Requests \ {r} : act'[q] = act[q]
    PROVE  ToldInv'
<1>1. ASSUME NEW q \in Requests PROVE Abreast(q)'
  BY DEF ToldInv, Abreast, A!rows, A!Active, A!Known, A!Granted
<1>2. ASSUME NEW q \in Requests PROVE (act[q].op = "modules" /\ act[q].step = "invalidate" => Written(q))'
  BY DEF ToldInv, Written
<1>3. \A q \in Requests : Written(q) => Written(q)'
  BY DEF Written
<1>4. \A q \in Requests, u \in Users :
         act[q].step = "invalidate" /\ u \in A!Dropped(q) => (act[q].step = "invalidate" /\ u \in A!Dropped(q))'
  BY DEF A!Dropped
<1>5. ModulesTold'
  BY <1>3 DEF ToldInv, ModulesTold, A!rows
<1>6. ASSUME NEW u \in Users PROVE ToldOf(u)'
  <2>1. ToldOf(u)
    BY DEF ToldInv
  <2> QED
    BY <1>3, <1>4, <2>1 DEF ToldOf, A!rows, A!Active, A!Known, A!Granted, A!Licensed
<1> QED
  BY <1>1, <1>2, <1>5, <1>6 DEF ToldInv

\* A commit tells the checks that have read what it changes, and drops the rest.
LEMMA ToldCommit ==
    ASSUME ToldInv, NEW r \in Requests, UNCHANGED <<perms, mods>>, act[r].step = "commit",
           act[r].op # "check", act'[r].op = act[r].op, Written(r) => Written(r)',
           \A q \in Requests \ {r} :
              /\ act'[q].op = act[q].op /\ act'[q].step = act[q].step /\ act'[q].user = act[q].user
              /\ act'[q].modules = act[q].modules
              /\ Abreast(q)',
           act'[r].op = "modules" => Written(r)',
           enabled' = enabled \/ Written(r)',
           \A u \in Users :
              \/ Written(r)' \/ (act[r].step = "invalidate" /\ u \in A!Dropped(r))'
              \/ /\ u \in A!Active => u \in A!Active'
                 /\ A!Granted(u) \subseteq A!Granted(u)'
                 /\ enabled' = enabled
    PROVE  ToldInv'
<1>1. ASSUME NEW q \in Requests PROVE Abreast(q)'
  BY DEF Abreast
<1>2. ASSUME NEW q \in Requests PROVE (act[q].op = "modules" /\ act[q].step = "invalidate" => Written(q))'
  BY DEF ToldInv, Written
<1>3. \A q \in Requests : Written(q) => Written(q)'
  BY DEF Written
<1>4. \A q \in Requests, u \in Users :
         act[q].step = "invalidate" /\ u \in A!Dropped(q) => (act[q].step = "invalidate" /\ u \in A!Dropped(q))'
  BY DEF A!Dropped
<1>5. ModulesTold'
  BY <1>3 DEF ToldInv, ModulesTold
<1>6. ASSUME NEW u \in Users PROVE ToldOf(u)'
  <2>1. ToldOf(u)
    BY DEF ToldInv
  <2>2. CASE Written(r)' \/ (act[r].step = "invalidate" /\ u \in A!Dropped(r))'
    BY <2>2 DEF ToldOf
  <2>3. CASE /\ u \in A!Active => u \in A!Active'
             /\ A!Granted(u) \subseteq A!Granted(u)'
             /\ enabled' = enabled
    <3>1. A!Licensed(Permissions, enabled)' = A!Licensed(Permissions, enabled)
      BY <2>3 DEF A!Licensed
    <3> QED
      BY <1>3, <1>4, <2>1, <2>3, <3>1 DEF ToldOf
  <2> QED
    BY <2>2, <2>3
<1> QED
  BY <1>1, <1>2, <1>5, <1>6 DEF ToldInv

\* A commit of a user.
LEMMA ToldUser ==
    ASSUME A!Assumptions, AccessTypes, ToldInv, NEW r \in Requests, A!CommitUser(r) PROVE ToldInv'
<1> DEFINE u == act[r].user
           to == act[r].to
           S == A!Checking({u}, {"roles", "modules", "store"}) \cup A!Outnumbered(u, to)
<1>1. /\ act[r].op = "user" /\ act[r].step = "commit" /\ u \in Users /\ to \in A!User /\ to # None
      /\ user \in [Users -> A!User \cup {None}]
      /\ \A q \in Requests : act[q] \in AccessRequest /\ About(act[q])
  BY DEF A!CommitUser, A!At, AccessTypes, About, A!Assumptions
<1>2. /\ user' = [user EXCEPT ![u] = to]
      /\ act' = [q \in Requests |-> IF q = r THEN [act[q] EXCEPT !.step = "invalidate"]
                                    ELSE [act[q] EXCEPT !.late = @ \/ q \in S]]
      /\ UNCHANGED <<grants, enabled, perms, mods>>
  BY DEF A!CommitUser, A!Committed
<1>3. \A v \in Users \ {u} : /\ v \in A!Active <=> v \in A!Active'
                             /\ A!Granted(v)' = A!Granted(v)
  BY <1>1, <1>2 DEF A!Active, A!Known, A!Granted
<1>4. /\ act'[r].op = act[r].op /\ act'[r].user = u /\ act'[r].step = "invalidate"
      /\ act'[r].modules = act[r].modules
      /\ \A q \in Requests \ {r} :
            /\ act'[q].op = act[q].op /\ act'[q].step = act[q].step /\ act'[q].user = act[q].user
            /\ act'[q].modules = act[q].modules
            /\ act'[q].active = act[q].active /\ act'[q].keys = act[q].keys
            /\ act[q].late \/ q \in S => act'[q].late
  <2> HIDE DEF S
  <2> QED
    BY <1>1, <1>2 DEF AccessRequest
<1>5. ASSUME NEW q \in Requests \ {r} PROVE Abreast(q)'
  <2> SUFFICES ASSUME act'[q].op = "check", ~act'[q].late,
                      act'[q].step \in {"roles", "modules", "store"}
               PROVE  Abreast(q)'
    BY DEF Abreast
  <2>1. act[q].op = "check" /\ ~act[q].late /\ act[q].step \in {"roles", "modules", "store"} /\ q \notin S
    BY <1>4
  <2>2. act[q].user \in Users \ {u}
    <3>1. act[q].user \in Users
      BY <1>1, <2>1 DEF About, A!Known
    <3>2. act[q].user # u
      BY <2>1 DEF A!Checking
    <3> QED
      BY <3>1, <3>2
  <2>3. Abreast(q)
    BY DEF ToldInv
  <2> HIDE DEF S, u
  <2> QED
    <3>1. /\ act'[q].step = act[q].step /\ act'[q].user = act[q].user /\ enabled' = enabled
          /\ act'[q].modules = act[q].modules
          /\ act'[q].active = act[q].active /\ act'[q].keys = act[q].keys
      BY <1>2, <1>4
    <3>2. PICK v \in Users \ {u} : v = act[q].user
      BY <2>2
    <3>3. (v \in A!Active <=> v \in A!Active') /\ A!Granted(v)' = A!Granted(v)
      BY <1>3
    <3> QED
      BY <2>1, <2>3, <3>1, <3>2, <3>3 DEF Abreast
<1>6. ASSUME NEW v \in Users
      PROVE  \/ (act[r].step = "invalidate" /\ v \in A!Dropped(r))'
             \/ /\ v \in A!Active => v \in A!Active'
                /\ A!Granted(v) \subseteq A!Granted(v)'
                /\ enabled' = enabled
  <2>1. CASE v = u
    BY <1>1, <1>4, <2>1 DEF A!Dropped
  <2>2. CASE v # u
    BY <1>2, <1>3, <2>2
  <2> QED
    BY <2>1, <2>2
<1> HIDE DEF u, S
<1> QED
  BY <1>1, <1>2, <1>4, <1>5, <1>6, ToldCommit DEF Written

\* A commit of a role.
LEMMA ToldRole ==
    ASSUME AccessTypes, ToldInv, NEW r \in Requests, A!CommitRole(r) PROVE ToldInv'
<1> DEFINE o == act[r].role
           S == A!Checking({u \in A!Known : o \in user[u].roles}, {"modules", "store"})
<1>1. /\ act[r].op = "role" /\ act[r].step = "commit" /\ o \in Roles
      /\ user \in [Users -> A!User \cup {None}] /\ grants \in [Roles -> KeySets]
      /\ \A q \in Requests : act[q] \in AccessRequest /\ About(act[q])
  BY DEF A!CommitRole, A!At, AccessTypes, About
<1>2. /\ grants' = [grants EXCEPT ![o] = act[r].to]
      /\ act' = [q \in Requests |-> IF q = r THEN [act[q] EXCEPT !.step = "invalidate"]
                                    ELSE [act[q] EXCEPT !.late = @ \/ q \in S]]
      /\ UNCHANGED <<user, enabled, perms, mods>>
  BY DEF A!CommitRole, A!Committed
<1>3. \A v \in A!Known : o \notin user[v].roles => A!Granted(v) \subseteq A!Granted(v)'
  BY <1>1, <1>2 DEF A!Known, A!Granted, A!User
<1>4. /\ act'[r].op = act[r].op /\ act'[r].step = "invalidate"
      /\ act'[r].modules = act[r].modules
      /\ \A q \in Requests \ {r} :
            /\ act'[q].op = act[q].op /\ act'[q].step = act[q].step /\ act'[q].user = act[q].user
            /\ act'[q].modules = act[q].modules
            /\ act'[q].active = act[q].active /\ act'[q].keys = act[q].keys
            /\ act[q].late \/ q \in S => act'[q].late
  <2> HIDE DEF S
  <2> QED
    BY <1>1, <1>2 DEF AccessRequest
<1>5. ASSUME NEW q \in Requests \ {r} PROVE Abreast(q)'
  <2> SUFFICES ASSUME act'[q].op = "check", ~act'[q].late PROVE Abreast(q)'
    BY DEF Abreast
  <2>1. act[q].op = "check" /\ ~act[q].late /\ q \notin S
    BY <1>4
  <2>2. act[q].user \in A!Known /\ Abreast(q)
    BY <1>1, <2>1 DEF ToldInv, About
  <2>3. UNCHANGED A!Active
    BY <1>2 DEF A!Active, A!Known
  <2>4. PICK v : v = act[q].user
    OBVIOUS
  <2>5. act[q].step \in {"modules", "store"} => act[q].keys \subseteq A!Granted(v)'
    <3> SUFFICES ASSUME act[q].step \in {"modules", "store"}
                 PROVE  act[q].keys \subseteq A!Granted(v)'
      OBVIOUS
    <3>1. o \notin user[v].roles
      BY <2>1, <2>2, <2>4 DEF A!Checking
    <3>2. act[q].keys \subseteq A!Granted(v)
      BY <2>1, <2>2, <2>4 DEF Abreast
    <3> QED
      BY <1>3, <2>2, <2>4, <3>1, <3>2
  <2> HIDE DEF S, o
  <2> QED
    <3>1. /\ act'[q].step = act[q].step /\ act'[q].user = act[q].user /\ enabled' = enabled
          /\ act'[q].modules = act[q].modules
          /\ act'[q].active = act[q].active /\ act'[q].keys = act[q].keys
      BY <1>2, <1>4
    <3> QED
      BY <2>1, <2>2, <2>3, <2>4, <2>5, <3>1 DEF Abreast
<1>6. \A v \in Users : (act[r].step = "invalidate" /\ v \in A!Dropped(r))'
  BY <1>1, <1>4 DEF A!Dropped
<1> HIDE DEF o, S
<1> QED
  BY <1>1, <1>2, <1>4, <1>5, <1>6, ToldCommit DEF Written

\* One module written.
LEMMA ToldModule ==
    ASSUME AccessTypes, ToldInv, NEW r \in Requests, NEW m \in Modules, A!WriteModule(r, m) PROVE ToldInv'
<1> DEFINE left == act[r].modules \ {m}
           S == A!Checking(Users, {"store"})
<1>1. /\ act[r].op = "modules" /\ act[r].step = "commit"
      /\ \A q \in Requests : act[q] \in AccessRequest /\ About(act[q])
  BY DEF A!WriteModule, A!At, AccessTypes
<1>2. /\ act' = [q \in Requests |->
                    IF q = r THEN [act[q] EXCEPT !.modules = left,
                                       !.step = IF left = {} THEN "invalidate" ELSE "commit"]
                    ELSE [act[q] EXCEPT !.late = @ \/ q \in S]]
      /\ UNCHANGED <<user, grants, perms, mods>>
  BY DEF A!WriteModule
<1>3. left # Modules
  OBVIOUS
<1>4. /\ act'[r].op = act[r].op /\ act'[r].modules = left
      /\ \A q \in Requests \ {r} :
            /\ act'[q].op = act[q].op /\ act'[q].step = act[q].step /\ act'[q].user = act[q].user
            /\ act'[q].modules = act[q].modules
            /\ act'[q].active = act[q].active /\ act'[q].keys = act[q].keys
            /\ act[q].late \/ q \in S => act'[q].late
  <2> HIDE DEF S, left
  <2> QED
    BY <1>1, <1>2 DEF AccessRequest
<1>5. ASSUME NEW q \in Requests \ {r} PROVE Abreast(q)'
  <2> SUFFICES ASSUME act'[q].op = "check", ~act'[q].late PROVE Abreast(q)'
    BY DEF Abreast
  <2>1. act[q].op = "check" /\ ~act[q].late /\ q \notin S
    BY <1>4
  <2>2. act[q].user \in Users /\ Abreast(q)
    BY <1>1, <2>1 DEF ToldInv, About, A!Known
  <2>3. UNCHANGED A!Active /\ \A v : A!Granted(v)' = A!Granted(v)
    BY <1>2 DEF A!Active, A!Known, A!Granted
  <2>4. act[q].step # "store"
    BY <2>1, <2>2 DEF A!Checking
  <2> HIDE DEF S, left
  <2>5. act'[q].active /\ act'[q].step \in {"roles", "modules", "store"} => act'[q].user \in A!Active'
    BY <1>4, <2>1, <2>2, <2>3 DEF Abreast
  <2>6. act'[q].step \in {"modules", "store"} => act'[q].keys \subseteq A!Granted(act[q].user)
    BY <1>4, <2>1, <2>2 DEF Abreast
  <2> QED
    BY <1>4, <2>3, <2>4, <2>5, <2>6 DEF Abreast
<1>6. Written(r)'
  BY <1>1, <1>3, <1>4 DEF Written
<1> HIDE DEF left, S
<1> QED
  BY <1>1, <1>2, <1>4, <1>5, <1>6, ToldCommit

\* Nothing told and nothing changed that would have to be.
LEMMA ToldSame ==
    ASSUME ToldInv, UNCHANGED <<user, grants, enabled>>,
           \A q \in Requests :
              /\ act'[q].op = act[q].op /\ act'[q].step = act[q].step /\ act'[q].user = act[q].user
              /\ act'[q].modules = act[q].modules
              /\ act'[q].active = act[q].active /\ act'[q].keys = act[q].keys
              /\ act[q].late => act'[q].late,
           \A u \in Users : perms'[u] # None =>
              /\ perms[u] # None /\ perms'[u].keys = perms[u].keys
              /\ perms'[u].active = perms[u].active /\ perms'[u].late = perms[u].late,
           mods' # None => mods # None /\ mods'.modules = mods.modules /\ mods'.late = mods.late
    PROVE  ToldInv'
<1>0. /\ UNCHANGED A!Active /\ \A v : A!Granted(v)' = A!Granted(v)
      /\ UNCHANGED A!Licensed(Permissions, enabled)
  BY DEF A!Active, A!Known, A!Granted, A!Licensed
<1>1. ASSUME NEW q \in Requests PROVE Abreast(q)'
  BY <1>0 DEF ToldInv, Abreast
<1>2. ASSUME NEW q \in Requests PROVE (act[q].op = "modules" /\ act[q].step = "invalidate" => Written(q))'
  BY DEF ToldInv, Written
<1>3. \A q \in Requests : Written(q) => Written(q)'
  BY DEF Written
<1>4. \A q \in Requests, u \in Users :
         act[q].step = "invalidate" /\ u \in A!Dropped(q) => (act[q].step = "invalidate" /\ u \in A!Dropped(q))'
  BY DEF A!Dropped
<1>5. ModulesTold'
  BY <1>3 DEF ToldInv, ModulesTold
<1>6. ASSUME NEW u \in Users PROVE ToldOf(u)'
  <2>1. ToldOf(u)
    BY DEF ToldInv
  <2> QED
    BY <1>0, <1>3, <1>4, <2>1 DEF ToldOf
<1> QED
  BY <1>1, <1>2, <1>5, <1>6 DEF ToldInv

\* A request that ends drops what it has changed, or leaves it known as late.
LEMMA ToldDrop ==
    ASSUME A!Assumptions, AccessTypes, ToldInv, NEW r \in Requests, A!Invalidate(r) \/ A!Fail(r)
    PROVE  ToldInv'
<1>1. /\ UNCHANGED A!rows /\ act' = [act EXCEPT ![r] = A!Idle] /\ act \in [Requests -> AccessRequest]
      /\ perms \in [Users -> CachedUser \cup {None}] /\ mods \in CachedModules \cup {None}
  BY DEF A!Invalidate, A!Fail, A!End, AccessTypes
<1>2. /\ UNCHANGED <<user, grants, enabled>> /\ UNCHANGED A!Active /\ \A v : A!Granted(v)' = A!Granted(v)
      /\ UNCHANGED A!Licensed(Permissions, enabled)
  BY <1>1 DEF A!rows, A!Active, A!Known, A!Granted, A!Licensed
<1>3. act'[r] = A!Idle /\ \A q \in Requests \ {r} : act'[q] = act[q]
  BY <1>1
<1>4. ASSUME NEW q \in Requests PROVE Abreast(q)'
  <2>1. CASE q = r
    BY <1>3, <2>1 DEF Abreast, A!Idle, A!Assumptions, A!Operations
  <2>2. CASE q # r
    BY <1>2, <1>3, <2>2 DEF ToldInv, Abreast
  <2> QED
    BY <2>1, <2>2
<1>5. ASSUME NEW q \in Requests PROVE (act[q].op = "modules" /\ act[q].step = "invalidate" => Written(q))'
  <2>1. CASE q = r
    BY <1>3, <2>1 DEF A!Idle
  <2>2. CASE q # r
    BY <1>3, <2>2 DEF ToldInv, Written
  <2> QED
    BY <2>1, <2>2
\* What r drops or marks is what it stood for.
<1>6. /\ Written(r) => mods' = None \/ mods'.late
      /\ ~Written(r) => mods' = mods
      /\ \A u \in Users : Written(r) => perms'[u] = None \/ perms'[u].late
      /\ \A u \in Users : act[r].step = "invalidate" /\ u \in A!Dropped(r) => perms'[u] = None
      /\ \A u \in Users : ~Written(r) => perms'[u] = None \/ perms'[u] = perms[u]
  <2>1. CASE A!Invalidate(r)
    <3>1. /\ act[r].step = "invalidate"
          /\ perms' = [u \in Users |-> IF u \in A!Dropped(r) THEN None ELSE perms[u]]
          /\ mods' = IF act[r].op = "modules" THEN None ELSE mods
      BY <2>1 DEF A!Invalidate
    <3>2. act[r].op = "modules" => Written(r)
      BY <3>1 DEF ToldInv
    <3>3. Written(r) => act[r].op = "modules" /\ A!Dropped(r) = Users
      BY DEF Written, A!Dropped
    <3> QED
      BY <3>1, <3>2, <3>3
  <2>2. CASE A!Fail(r)
    <3>1. /\ act[r].step # "invalidate"
          /\ perms' = [u \in Users |-> IF Written(r) THEN A!Late(perms[u]) ELSE perms[u]]
          /\ mods' = IF Written(r) THEN A!Late(mods) ELSE mods
      BY <2>2 DEF A!Fail, Written
    <3>2. \A u \in Users : A!Late(perms[u]) = None \/ A!Late(perms[u]).late
      BY <1>1 DEF A!Late, CachedUser
    <3>3. A!Late(mods) = None \/ A!Late(mods).late
      BY <1>1 DEF A!Late, CachedModules
    <3> QED
      BY <3>1, <3>2, <3>3
  <2> QED
    BY <2>1, <2>2
<1>7. ModulesTold'
  <2>1. CASE Written(r)
    BY <1>6, <2>1 DEF ModulesTold
  <2>2. CASE ~Written(r)
    <3>1. \A q \in Requests : Written(q) => Written(q)'
      BY <1>3, <2>2 DEF Written
    <3> QED
      BY <1>2, <1>6, <2>2, <3>1 DEF ToldInv, ModulesTold
  <2> QED
    BY <2>1, <2>2
<1>8. ASSUME NEW u \in Users PROVE ToldOf(u)'
  <2>1. CASE Written(r) \/ (act[r].step = "invalidate" /\ u \in A!Dropped(r))
    BY <1>6, <2>1 DEF ToldOf
  <2>2. CASE ~Written(r) /\ ~(act[r].step = "invalidate" /\ u \in A!Dropped(r))
    <3>1. \A q \in Requests : Written(q) => Written(q)'
      BY <1>3, <2>2 DEF Written
    <3>2. \A q \in Requests :
             act[q].step = "invalidate" /\ u \in A!Dropped(q) => (act[q].step = "invalidate" /\ u \in A!Dropped(q))'
      BY <1>3, <2>2 DEF A!Dropped
    <3>3. perms'[u] = None \/ perms'[u] = perms[u]
      BY <1>6, <2>2
    <3>4. ToldOf(u)
      BY DEF ToldInv
    <3> QED
      BY <1>2, <3>1, <3>2, <3>3, <3>4 DEF ToldOf
  <2> QED
    BY <2>1, <2>2
<1> QED
  BY <1>4, <1>5, <1>7, <1>8 DEF ToldInv

\* What a check stores is what it has read.
LEMMA ToldRead ==
    ASSUME A!Assumptions, AccessTypes, ToldInv, NEW r \in Requests, A!CachedModules(r) \/ A!StoreModules(r)
    PROVE  ToldInv'
<1> DEFINE x == act[r]
           u == x.user
<1>1. /\ x.op = "check" /\ x.step \in {"modules", "store"} /\ UNCHANGED <<A!rows, lost>>
      /\ act' = [act EXCEPT ![r] = A!Idle]
  BY DEF A!CachedModules, A!StoreModules, A!At, A!End
<1>2. /\ act \in [Requests -> AccessRequest] /\ x \in AccessRequest /\ About(x) /\ Abreast(r)
      /\ perms \in [Users -> CachedUser \cup {None}] /\ mods \in CachedModules \cup {None}
  BY DEF AccessTypes, ToldInv
<1>3. u \in Users
  BY <1>1, <1>2 DEF About, A!Known
<1>k. x.keys \subseteq Permissions /\ x.late \in BOOLEAN
  BY <1>2 DEF AccessRequest, KeySets
<1>4. /\ UNCHANGED <<user, grants, enabled>> /\ UNCHANGED A!Active /\ \A v : A!Granted(v)' = A!Granted(v)
      /\ UNCHANGED A!Licensed(Permissions, enabled)
  BY <1>1 DEF A!rows, A!Active, A!Known, A!Granted, A!Licensed
<1>5. act'[r] = A!Idle /\ \A q \in Requests \ {r} : act'[q] = act[q]
  BY <1>1, <1>2
<1>6. ASSUME NEW q \in Requests PROVE Abreast(q)'
  <2>1. CASE q = r
    BY <1>5, <2>1 DEF Abreast, A!Idle, A!Assumptions, A!Operations
  <2>2. CASE q # r
    BY <1>4, <1>5, <2>2 DEF ToldInv, Abreast
  <2> QED
    BY <2>1, <2>2
<1>7. ASSUME NEW q \in Requests PROVE (act[q].op = "modules" /\ act[q].step = "invalidate" => Written(q))'
  <2>1. CASE q = r
    BY <1>5, <2>1 DEF A!Idle
  <2>2. CASE q # r
    BY <1>5, <2>2 DEF ToldInv, Written
  <2> QED
    BY <2>1, <2>2
<1>8. /\ \A q \in Requests : Written(q) => Written(q)'
      /\ \A q \in Requests, v \in Users :
            act[q].step = "invalidate" /\ v \in A!Dropped(q) => (act[q].step = "invalidate" /\ v \in A!Dropped(q))'
  BY <1>1, <1>5 DEF Written, A!Dropped
\* With the modules M, which are those licensed, or late, or about to be dropped.
<1>9. ASSUME NEW M, NEW late \in BOOLEAN, perms' = A!Entry(r, M, late),
             ~x.late /\ ~late => M = enabled \/ \E q \in Requests : Written(q),
             NEW v \in Users
      PROVE  ToldOf(v)'
  <2>1. CASE v = u
    <3>1. /\ perms'[v].keys = A!Licensed(x.keys, M) /\ perms'[v].active = x.active
          /\ perms'[v].late = (x.late \/ late)
      BY <1>2, <1>3, <1>9, <2>1 DEF A!Entry
    <3> SUFFICES ASSUME x.active, ~x.late, ~late, M = enabled PROVE ToldOf(v)'
      BY <1>8, <1>9, <3>1 DEF ToldOf
    <3>2. u \in A!Active /\ x.keys \subseteq A!Granted(u)
      BY <1>1, <1>2 DEF Abreast
    <3>3. perms'[v].keys \subseteq x.keys /\ perms'[v].keys \subseteq A!Licensed(Permissions, enabled)
      BY <1>k, <3>1 DEF A!Licensed
    <3> HIDE DEF u, x
    <3> QED
      BY <1>4, <2>1, <3>2, <3>3 DEF ToldOf
  <2>2. CASE v # u
    <3>1. perms'[v] = perms[v] /\ ToldOf(v)
      BY <1>2, <1>9, <2>2 DEF A!Entry, ToldInv
    <3> QED
      BY <1>4, <1>8, <3>1 DEF ToldOf
  <2> QED
    BY <2>1, <2>2
<1>10. CASE A!CachedModules(r)
  <2>1. mods # None /\ UNCHANGED mods /\ perms' = A!Entry(r, mods.modules, mods.late)
    BY <1>10 DEF A!CachedModules, A!Fresh
  <2>2. mods.late \in BOOLEAN
    BY <1>2, <2>1 DEF CachedModules
  <2>3. ~mods.late => mods.modules = enabled \/ \E q \in Requests : Written(q)
    BY <2>1 DEF ToldInv, ModulesTold
  <2>4. ModulesTold'
    BY <1>4, <1>8, <2>1 DEF ToldInv, ModulesTold
  <2>5. \A v \in Users : ToldOf(v)'
    BY <1>9, <2>1, <2>2, <2>3
  <2> QED
    BY <1>6, <1>7, <2>4, <2>5 DEF ToldInv
<1>11. CASE A!StoreModules(r)
  <2>1. /\ x.step = "store" /\ mods' = [modules |-> x.modules, age |-> 0, late |-> x.late]
        /\ perms' = A!Entry(r, x.modules, FALSE)
    BY <1>11 DEF A!StoreModules, A!At
  <2>2. ~x.late => x.modules = enabled
    BY <1>1, <1>2, <2>1 DEF Abreast
  <2>3. ModulesTold'
    BY <1>4, <2>1, <2>2 DEF ModulesTold
  <2>4. \A v \in Users : ToldOf(v)'
    BY <1>9, <2>1, <2>2
  <2> QED
    BY <1>6, <1>7, <2>3, <2>4 DEF ToldInv
<1> QED
  BY <1>10, <1>11

\* The steps of a check before it stores anything.
LEMMA ToldCheck ==
    ASSUME A!Assumptions, AccessTypes, ToldInv, NEW r \in Requests,
           \/ \E u \in Users : A!BeginCheck(r, u)
           \/ A!ReadUser(r) \/ A!ReadRoles(r) \/ A!ReadModules(r)
    PROVE  ToldInv'
<1>r. /\ act \in [Requests -> AccessRequest] /\ act[r] \in AccessRequest /\ About(act[r]) /\ Abreast(r)
      /\ None \notin A!Operations
  BY DEF AccessTypes, ToldInv, A!Assumptions
<1>1. ASSUME NEW u \in Users, A!BeginCheck(r, u) PROVE ToldInv'
  <2>1. /\ act' = [act EXCEPT ![r] = [A!Idle EXCEPT !.op = "check", !.step = "user", !.user = u]]
        /\ act[r] = A!Idle /\ UNCHANGED <<A!rows, perms, mods, lost>>
    BY <1>1 DEF A!BeginCheck, A!Begin
  <2>2. ~Written(r) /\ act[r].step # "invalidate" /\ act'[r].step = "user"
    BY <1>r, <2>1 DEF A!Idle, Written, A!Operations
  <2>3. Abreast(r)'
    BY <2>2 DEF Abreast
  <2> QED
    BY <1>r, <2>1, <2>2, <2>3, ToldMove
<1>2. ASSUME A!ReadUser(r) PROVE ToldInv'
  <2>1. /\ act' = [act EXCEPT ![r].step = "roles", ![r].active = user[act[r].user].active]
        /\ UNCHANGED <<A!rows, perms, mods, lost>> /\ act[r].op = "check" /\ act[r].step = "user"
    BY <1>2 DEF A!ReadUser, A!At
  <2>2. /\ act'[r].step = "roles" /\ act'[r].active = user[act[r].user].active
        /\ act'[r].user = act[r].user
    BY <1>r, <2>1 DEF AccessRequest
  <2>3. act'[r].active => act'[r].user \in A!Active
    BY <1>r, <2>1, <2>2 DEF About, A!Active
  <2>4. UNCHANGED A!Active
    BY <2>1 DEF A!rows, A!Active, A!Known
  <2>5. Abreast(r)'
    BY <2>2, <2>3, <2>4 DEF Abreast
  <2> QED
    BY <1>r, <2>1, <2>2, <2>5, ToldMove DEF Written
<1>3. ASSUME A!ReadRoles(r) PROVE ToldInv'
  <2>1. /\ act' = [act EXCEPT ![r].step = "modules", ![r].keys = A!Granted(act[r].user)]
        /\ UNCHANGED <<A!rows, perms, mods, lost>> /\ act[r].op = "check" /\ act[r].step = "roles"
    BY <1>3 DEF A!ReadRoles, A!At
  <2>2. /\ act'[r].step = "modules" /\ act'[r].keys = A!Granted(act[r].user) /\ act'[r].active = act[r].active
        /\ act'[r].user = act[r].user /\ act'[r].late = act[r].late
    BY <1>r, <2>1 DEF AccessRequest
  <2>3. UNCHANGED A!Active /\ \A v : A!Granted(v)' = A!Granted(v)
    BY <2>1 DEF A!rows, A!Active, A!Known, A!Granted
  <2>4. Abreast(r)'
    BY <1>r, <2>1, <2>2, <2>3 DEF Abreast
  <2> QED
    BY <1>r, <2>1, <2>2, <2>4, ToldMove DEF Written
<1>4. ASSUME A!ReadModules(r) PROVE ToldInv'
  <2>1. /\ act' = [act EXCEPT ![r].step = "store", ![r].modules = enabled]
        /\ UNCHANGED <<A!rows, perms, mods, lost>> /\ act[r].op = "check" /\ act[r].step = "modules"
    BY <1>4 DEF A!ReadModules, A!At
  <2>2. /\ act'[r].step = "store" /\ act'[r].modules = enabled /\ act'[r].active = act[r].active
        /\ act'[r].keys = act[r].keys
        /\ act'[r].user = act[r].user /\ act'[r].late = act[r].late
    BY <1>r, <2>1 DEF AccessRequest
  <2>3. UNCHANGED A!Active /\ UNCHANGED enabled /\ \A v : A!Granted(v)' = A!Granted(v)
    BY <2>1 DEF A!rows, A!Active, A!Known, A!Granted
  <2>4. Abreast(r)'
    BY <1>r, <2>1, <2>2, <2>3 DEF Abreast
  <2> QED
    BY <1>r, <2>1, <2>2, <2>4, ToldMove DEF Written
<1> QED
  BY <1>1, <1>2, <1>3, <1>4

\* The steps of a change before its commit.
LEMMA ToldBegin ==
    ASSUME A!Assumptions, AccessTypes, ToldInv, NEW r \in Requests,
           \/ \E u \in Users, to \in A!User : A!BeginUser(r, u, to)
           \/ \E o \in Roles, to \in SUBSET Permissions : A!BeginRole(r, o, to)
           \/ \E to \in SUBSET Modules : A!BeginModules(r, to)
           \/ A!ReadLimit(r) \/ A!CountSeats(r)
    PROVE  ToldInv'
<1>r. /\ act \in [Requests -> AccessRequest] /\ act[r] \in AccessRequest /\ None \notin A!Operations
  BY DEF AccessTypes, A!Assumptions
<1>1. UNCHANGED <<A!rows, perms, mods>> /\ \A q \in Requests \ {r} : act'[q] = act[q]
  BY <1>r DEF A!BeginUser, A!BeginRole, A!BeginModules, A!ReadLimit, A!CountSeats, A!Begin, A!End
<1>2. ASSUME act[r] = A!Idle PROVE ~Written(r) /\ act[r].step # "invalidate"
  BY <1>r, <1>2 DEF A!Idle, Written, A!Operations
<1>a. ASSUME NEW u \in Users, NEW to \in A!User, A!BeginUser(r, u, to)
      PROVE  act[r] = A!Idle /\ act'[r].op # "check" /\ act'[r].step # "invalidate"
  BY <1>r, <1>a DEF A!BeginUser, A!Begin, A!Idle
<1>b. ASSUME NEW o \in Roles, NEW to \in SUBSET Permissions, A!BeginRole(r, o, to)
      PROVE  act[r] = A!Idle /\ act'[r].op # "check" /\ act'[r].step # "invalidate"
  BY <1>r, <1>b DEF A!BeginRole, A!Begin, A!Idle
<1>c. ASSUME NEW to \in SUBSET Modules, A!BeginModules(r, to)
      PROVE  act[r] = A!Idle /\ act'[r].op # "check" /\ act'[r].step # "invalidate"
  BY <1>r, <1>c DEF A!BeginModules, A!Begin, A!Idle
<1>d. ASSUME A!ReadLimit(r) \/ A!CountSeats(r)
      PROVE  /\ ~Written(r) /\ act[r].step # "invalidate"
             /\ act'[r].op # "check" /\ act'[r].step # "invalidate"
  <2>1. act[r].op = "user" /\ act[r].step \in {"limit", "count"}
    BY <1>d DEF A!ReadLimit, A!CountSeats, A!At
  <2>2. CASE act' = [act EXCEPT ![r] = A!Idle]
    BY <1>r, <2>1, <2>2 DEF A!Idle, A!Operations, Written
  <2>3. CASE act' # [act EXCEPT ![r] = A!Idle]
    <3>1. act'[r].op = act[r].op /\ act'[r].step \in {"commit", "count"}
      BY <1>r, <1>d, <2>3 DEF A!ReadLimit, A!CountSeats, A!End, AccessRequest
    <3> QED
      BY <2>1, <3>1 DEF Written
  <2> QED
    BY <2>2, <2>3
<1>3. ~Written(r) /\ act[r].step # "invalidate" /\ act'[r].op # "check" /\ act'[r].step # "invalidate"
  BY <1>2, <1>a, <1>b, <1>c, <1>d
<1> QED
  BY <1>1, <1>3, ToldMove DEF Abreast

\* What has been read and what is cached still holds, is late or will be dropped.
LEMMA ToldHolds ==
    ASSUME A!Assumptions PROVE A!Spec => []ToldInv
<1>1. A!Init => ToldInv
  BY DEF A!Init, A!Idle, ToldInv, Abreast, ModulesTold, ToldOf, A!Assumptions, A!Operations
<1>2. A!Assumptions /\ AccessTypes /\ ToldInv /\ [A!Next]_A!vars => ToldInv'
  <2> SUFFICES ASSUME AccessTypes, ToldInv, [A!Next]_A!vars PROVE ToldInv'
    OBVIOUS
  <2>r. \A q \in Requests : act[q] \in AccessRequest
    BY DEF AccessTypes
  <2>1. ASSUME NEW r \in Requests, A!Check(r) PROVE ToldInv'
    BY <2>1, ToldCheck, ToldRead DEF A!Check
  <2>2. ASSUME NEW r \in Requests, A!Write(r) PROVE ToldInv'
    BY <2>2, ToldBegin, ToldUser, ToldRole, ToldModule, ToldDrop DEF A!Write
  <2>3. ASSUME NEW r \in Requests, A!Fail(r) PROVE ToldInv'
    BY <2>3, ToldDrop
  <2>4. ASSUME NEW n \in Limits, A!SetSubscription(n) PROVE ToldInv'
    <3>1. PICK S : /\ act' = [q \in Requests |-> [act[q] EXCEPT !.late = @ \/ q \in S]]
                   /\ UNCHANGED <<user, grants, enabled, perms, mods>>
      BY <2>4 DEF A!SetSubscription
    <3>2. \A q \in Requests :
              /\ act'[q].op = act[q].op /\ act'[q].step = act[q].step /\ act'[q].user = act[q].user
              /\ act'[q].modules = act[q].modules
              /\ act'[q].active = act[q].active /\ act'[q].keys = act[q].keys
              /\ act[q].late => act'[q].late
      BY <2>r, <3>1 DEF AccessRequest
    <3> QED
      BY <3>1, <3>2, ToldSame
  <2>5. CASE A!Tick
    <3>1. /\ act' = [q \in Requests |-> IF act[q] = A!Idle THEN A!Idle ELSE [act[q] EXCEPT !.waited = 1]]
          /\ UNCHANGED <<user, grants, enabled>> /\ mods' = A!Older(mods, ModuleTTL)
          /\ \A u \in Users : perms'[u] = A!Older(perms[u], PermTTL)
          /\ mods \in CachedModules \cup {None} /\ \A u \in Users : perms[u] \in CachedUser \cup {None}
      BY <2>5 DEF A!Tick, A!rows, AccessTypes
    <3>2. \A q \in Requests :
              /\ act'[q].op = act[q].op /\ act'[q].step = act[q].step /\ act'[q].user = act[q].user
              /\ act'[q].modules = act[q].modules
              /\ act'[q].active = act[q].active /\ act'[q].keys = act[q].keys
              /\ act[q].late => act'[q].late
      BY <2>r, <3>1 DEF AccessRequest
    <3>3. \A u \in Users : perms'[u] # None =>
              /\ perms[u] # None /\ perms'[u].keys = perms[u].keys
              /\ perms'[u].active = perms[u].active /\ perms'[u].late = perms[u].late
      BY <3>1 DEF A!Older, CachedUser
    <3>4. mods' # None => mods # None /\ mods'.modules = mods.modules /\ mods'.late = mods.late
      BY <3>1 DEF A!Older, CachedModules
    <3> QED
      BY <3>1, <3>2, <3>3, <3>4, ToldSame
  <2>6. CASE A!Restart
    <3>1. /\ \A q \in Requests : act'[q] = A!Idle
          /\ \A u \in Users : perms'[u] = None
          /\ mods' = None
      BY <2>6 DEF A!Restart
    <3> QED
      BY <3>1 DEF A!Idle, ToldInv, Abreast, ModulesTold, ToldOf, A!Assumptions, A!Operations
  <2>7. CASE UNCHANGED A!vars
    BY <2>7, ToldSame DEF A!vars, A!rows
  <2> QED
    BY <2>1, <2>2, <2>3, <2>4, <2>5, <2>6, <2>7 DEF A!Next
<1>3. A!Spec => []AccessTypes
  BY AccessTypesHold
<1> QED
  BY <1>1, <1>2, <1>3, PTL DEF A!Spec

\* A permission that was taken from a user, a role or the company is refused at once,
\* unless what is cached was being read meanwhile or is about to be dropped, and when
\* both caches have expired even then.
THEOREM RevokedIsRefused == CompanySpec => []RevokedInTime
<1> A!Assumptions /\ A!TimesAssumption
  BY CompanyAssumption
<1>1. A!Assumptions /\ A!TimesAssumption /\ AccessTypes /\ InTimeInv /\ ToldInv => RevokedInTime
  <2> SUFFICES ASSUME AccessTypes, InTimeInv, ToldInv, NEW u \in Users,
                      A!Fresh(perms[u], PermTTL), perms[u].active,
                      NEW p \in perms[u].keys \ A!Effective(u)
               PROVE  /\ perms[u].late \/ A!Invalidating(u)
                      /\ \A c \in A!Missing(u, p) : lost[u][p][c] <= A!Bound
    BY DEF RevokedInTime, A!RevokedInTime
  <2>1. perms[u] # None /\ perms[u].age < PermTTL /\ perms[u] \in CachedUser
    BY DEF A!Fresh, AccessTypes
  <2>2. perms[u].age \in Nat /\ p \in Permissions
    BY <2>1 DEF CachedUser, KeySets
  <2>3. perms[u].late \/ A!Invalidating(u)
    <3> SUFFICES ASSUME ~perms[u].late PROVE A!Invalidating(u)
      OBVIOUS
    <3>1. ToldOf(u)
      BY DEF ToldInv
    <3>2. ~(/\ u \in A!Active /\ perms[u].keys \subseteq A!Granted(u)
            /\ perms[u].keys \subseteq A!Licensed(Permissions, enabled))
      BY DEF A!Effective, A!Licensed
    <3>3. PICK r \in Requests : Written(r) \/ (act[r].step = "invalidate" /\ u \in A!Dropped(r))
      BY <2>1, <3>1, <3>2 DEF ToldOf
    <3>4. Written(r) => act[r].op = "modules" /\ u \in A!Dropped(r)
      BY DEF Written, A!Dropped
    <3> QED
      BY <3>3, <3>4 DEF A!Invalidating
  <2>4. ASSUME NEW c \in A!Missing(u, p) PROVE lost[u][p][c] <= A!Bound
    <3>1. c \in A!Causes
      BY DEF A!Missing, A!Causes
    <3>2. lost[u][p][c] <= ModuleTTL + perms[u].age
      BY <3>1 DEF InTimeInv, PermissionsInTime
    <3>3. lost[u][p][c] \in Nat
      BY <2>2, <3>1 DEF AccessTypes
    <3> QED
      BY <2>1, <2>2, <3>2, <3>3 DEF A!Bound, A!TimesAssumption
  <2> QED
    BY <2>3, <2>4
<1>2. A!Spec => []AccessTypes
  BY AccessTypesHold
<1>3. A!Spec => []InTimeInv
  BY InTimeHolds
<1>4. A!Spec => []ToldInv
  BY ToldHolds
<1> QED
  BY <1>1, <1>2, <1>3, <1>4, PartsOfCompany, PTL

-------------------------------------------------------------------------------
(* The sessions of one user: Sessions, for any tabs, calls and times of the  *)
(* tokens.                                                                   *)

(* Tokens                                                                  *)

\* Access tokens that do not outlive the revocation of their version by more than
\* they were issued for.
Lapsing ==
    {None} \cup
    {k \in W!Tokens : /\ k.left <= AccessTTL /\ k.ver <= version
                      /\ k.ver < version => k.left = 0 \/ k.left + age[k.ver] <= AccessTTL}

\* Refresh tokens of a version there has been, and of one that has been revoked.
Issued == {None} \cup {k \in W!Tokens : k.ver <= version}
Stale  == {None} \cup {k \in W!Tokens : k.ver < version}

CallRecord ==
    [step : {"idle", "sent", "served", "denied", "wait", "refresh", "verified", "renewed", "refused"},
     op : W!Ops \cup {None}, tab : Tabs \cup {None},
     token : W!Tokens \cup {None}, cookie : W!Tokens \cup {None},
     retry : BOOLEAN, heard : BOOLEAN, early : BOOLEAN]

\* What a call holds.
Proper(x) ==
    /\ x \in CallRecord
    /\ x.token \in Lapsing /\ x.cookie \in Issued
    /\ x.step # "idle" => x.tab \in Tabs
    /\ x.step = "verified" => x.cookie # None /\ x.cookie.ver \in W!Recent

SessionTypes ==
    /\ version \in Nat /\ version <= MaxVersion
    /\ age \in [0 .. MaxVersion -> Nat]
    /\ cookie \in Issued /\ storage \in Lapsing
    /\ memory \in [Tabs -> Lapsing]
    /\ call \in [Calls -> CallRecord]
    /\ \A c \in Calls : Proper(call[c])
    /\ signedOut \in [Tabs -> {"no", "heard", "unheard"}]

\* Calls and the browser exchange the tokens they have.
LEMMA SessionMove ==
    ASSUME SessionTypes, UNCHANGED <<version, age>>, cookie' \in Issued, storage' \in Lapsing,
           memory' \in [Tabs -> Lapsing], call' \in [Calls -> CallRecord],
           \A c \in Calls : Proper(call'[c]), signedOut' \in [Tabs -> {"no", "heard", "unheard"}]
    PROVE  SessionTypes'
<1>1. Lapsing' = Lapsing /\ Issued' = Issued /\ W!Recent' = W!Recent
  BY DEF Lapsing, Issued, W!Recent
<1>2. \A c \in Calls : Proper(call[c])'
  BY <1>1 DEF Proper
<1> QED
  BY <1>1, <1>2 DEF SessionTypes

\* A session that is read or written has a token of its own.
LEMMA SessionSet ==
    ASSUME SessionTypes, NEW t \in Tabs
    PROVE  /\ W!Session(t) \in Lapsing
           /\ W!Loaded(t) => memory' \in [Tabs -> Lapsing]
           /\ \A k \in Lapsing : W!SetSession(t, k) => storage' \in Lapsing /\ memory' \in [Tabs -> Lapsing]
<1>1. memory \in [Tabs -> Lapsing] /\ storage \in Lapsing
  BY DEF SessionTypes
<1>2. W!Session(t) \in Lapsing
  BY <1>1 DEF W!Session
<1> QED
  BY <1>1, <1>2 DEF W!Loaded, W!SetSession

\* Calls that end.
LEMMA SessionEnds ==
    ASSUME SessionTypes, NEW t \in Tabs, NEW C, NEW dropped \in BOOLEAN, W!Ended(t, C, dropped),
           W!Idle \in CallRecord, Proper(W!Idle)
    PROVE  /\ call' \in [Calls -> CallRecord] /\ \A c \in Calls : Proper(call'[c])
           /\ storage' \in Lapsing /\ memory' \in [Tabs -> Lapsing]
           /\ signedOut' \in [Tabs -> {"no", "heard", "unheard"}]
<1>1. /\ memory \in [Tabs -> Lapsing] /\ storage \in Lapsing /\ None \in Lapsing
      /\ signedOut \in [Tabs -> {"no", "heard", "unheard"}]
      /\ \A c \in Calls : call[c] \in CallRecord /\ Proper(call[c])
  BY DEF SessionTypes, Lapsing
<1>2. \A c \in Calls : call'[c] \in {W!Idle, call[c], [call[c] EXCEPT !.early = TRUE]}
  BY DEF W!Ended
<1>3. \A c \in Calls : /\ [call[c] EXCEPT !.early = TRUE] \in CallRecord
                       /\ Proper([call[c] EXCEPT !.early = TRUE])
  BY <1>1 DEF CallRecord, Proper
<1>4. \A c \in Calls : call'[c] \in CallRecord /\ Proper(call'[c])
  BY <1>1, <1>2, <1>3
<1>5. call' \in [Calls -> CallRecord]
  <2>1. call' = [c \in Calls |-> call'[c]]
    BY DEF W!Ended
  <2> QED
    BY <1>4, <2>1
<1>6. storage' \in Lapsing /\ memory' \in [Tabs -> Lapsing]
  BY <1>1 DEF W!Ended, W!SetSession
<1>7. signedOut' \in [Tabs -> {"no", "heard", "unheard"}]
  <2>1. \/ signedOut' = signedOut \/ signedOut' = [signedOut EXCEPT ![t] = "heard"]
        \/ signedOut' = [signedOut EXCEPT ![t] = "unheard"]
    BY DEF W!Ended
  <2> QED
    BY <1>1, <2>1
<1> QED
  BY <1>4, <1>5, <1>6, <1>7

\* Revoked tokens: each has at most its time left.
LEMMA SessionRevoke ==
    ASSUME W!Assumptions, SessionTypes, W!Revoke
    PROVE  /\ version' \in Nat /\ version' <= MaxVersion /\ age' \in [0 .. MaxVersion -> Nat]
           /\ Lapsing \subseteq Lapsing' /\ Issued \subseteq Stale' /\ Stale \subseteq Stale'
           /\ Stale' \subseteq Issued' /\ W!Recent \subseteq W!Recent'
<1>1. /\ version \in Nat /\ version < MaxVersion /\ version' = version + 1 /\ MaxVersion \in Nat
      /\ age' = [age EXCEPT ![version] = 0] /\ age \in [0 .. MaxVersion -> Nat] /\ AccessTTL \in Nat
  BY DEF W!Revoke, SessionTypes, W!Assumptions
<1>2. version' \in Nat /\ version' <= MaxVersion /\ age' \in [0 .. MaxVersion -> Nat]
  BY <1>1
<1>3. ASSUME NEW k \in Lapsing PROVE k \in Lapsing'
  <2>1. CASE k = None
    BY <2>1 DEF Lapsing
  <2>2. CASE k # None
    <3>1. /\ k \in W!Tokens /\ k.left <= AccessTTL /\ k.ver <= version
          /\ k.ver < version => k.left = 0 \/ k.left + age[k.ver] <= AccessTTL
      BY <1>3, <2>2 DEF Lapsing
    <3>2. k.left \in Nat /\ k.ver \in Nat
      BY <3>1 DEF W!Tokens
    <3>3. k.ver < version => age'[k.ver] = age[k.ver]
      BY <1>1, <3>2
    <3>4. k.ver = version => age'[k.ver] = 0
      BY <1>1, <3>2
    <3>5. k.left = 0 \/ k.left + age'[k.ver] <= AccessTTL
      BY <1>1, <3>1, <3>2, <3>3, <3>4
    <3> QED
      BY <1>1, <3>1, <3>2, <3>5 DEF Lapsing
  <2> QED
    BY <2>1, <2>2
<1>4. Issued \subseteq Stale' /\ Stale \subseteq Stale' /\ Stale' \subseteq Issued'
  BY <1>1 DEF Issued, Stale, W!Tokens
<1>5. W!Recent \subseteq W!Recent'
  BY <1>1 DEF W!Recent
<1> QED
  BY <1>2, <1>3, <1>4, <1>5

\* Time: a token has as much less to live as its revocation is longer ago.
LEMMA SessionTick ==
    ASSUME W!Assumptions, SessionTypes, W!Tick PROVE SessionTypes'
<1>1. /\ version \in Nat /\ version <= MaxVersion /\ UNCHANGED <<version, signedOut>>
      /\ age \in [0 .. MaxVersion -> Nat] /\ AccessTTL \in Nat /\ MaxVersion \in Nat
      /\ \A c \in Calls : call[c] \in CallRecord /\ Proper(call[c])
      /\ None \notin W!Tokens /\ \A c \in Calls : call[c].step # "verified"
  BY DEF W!Tick, SessionTypes, W!Assumptions
<1>2. age' = [v \in 0 .. MaxVersion |-> IF v < version /\ age[v] < AccessTTL THEN age[v] + 1 ELSE age[v]]
  BY <1>1 DEF W!Tick
<1>3. age' \in [0 .. MaxVersion -> Nat]
  <2>1. \A v \in 0 .. MaxVersion : (IF v < version /\ age[v] < AccessTTL THEN age[v] + 1 ELSE age[v]) \in Nat
    BY <1>1
  <2> QED
    BY <1>2, <2>1
<1>4. ASSUME NEW k \in W!Tokens, k.left > 0
      PROVE  /\ W!Older(k) \in W!Tokens /\ W!Older(k).left = k.left - 1 /\ W!Older(k).ver = k.ver
             /\ k.left \in Nat /\ k.ver \in Nat /\ W!Older(k) # None
  BY <1>1, <1>4 DEF W!Older, W!Tokens
<1>5. ASSUME NEW k \in Lapsing PROVE W!Older(k) \in Lapsing'
  <2>1. CASE k = None
    BY <2>1 DEF W!Older, Lapsing
  <2>2. CASE k # None /\ k.left = 0
    <3>1. k \in W!Tokens /\ k.left <= AccessTTL /\ k.ver <= version /\ W!Older(k) = k
      BY <1>5, <2>2 DEF Lapsing, W!Older
    <3> QED
      BY <1>1, <2>2, <3>1 DEF Lapsing
  <2>3. CASE k # None /\ k.left # 0
    <3>1. /\ k \in W!Tokens /\ k.left <= AccessTTL /\ k.ver <= version
          /\ k.ver < version => k.left + age[k.ver] <= AccessTTL
      BY <1>5, <2>3 DEF Lapsing
    <3>2. k.left > 0
      BY <2>3, <3>1 DEF W!Tokens
    <3>3. PICK o : o = W!Older(k)
      OBVIOUS
    <3>4. o \in W!Tokens /\ o.left = k.left - 1 /\ o.ver = k.ver /\ k.left \in Nat /\ k.ver \in Nat
      BY <1>4, <3>1, <3>2, <3>3
    <3>5. ASSUME k.ver < version PROVE o.left + age'[k.ver] <= AccessTTL
      <4>1. k.ver \in 0 .. MaxVersion /\ age[k.ver] \in Nat
        BY <1>1, <3>4, <3>5, <1>3
      <4>2. age'[k.ver] \in {age[k.ver], age[k.ver] + 1}
        BY <1>2, <4>1
      <4>3. k.left + age[k.ver] <= AccessTTL
        BY <3>1, <3>5
      <4>4. PICK a \in Nat : a = age[k.ver]
        BY <4>1
      <4>5. PICK b \in {a, a + 1} : b = age'[k.ver]
        BY <4>2, <4>4
      <4>6. k.left + a <= AccessTTL
        BY <4>3, <4>4
      <4>7. (k.left - 1) + b <= AccessTTL
        BY <1>1, <3>4, <4>6
      <4> QED
        BY <3>4, <4>5, <4>7
    <3>6. o.left <= AccessTTL
      BY <1>1, <3>1, <3>4
    <3>7. o \in Lapsing'
      BY <1>1, <3>1, <3>4, <3>5, <3>6 DEF Lapsing
    <3> QED
      BY <3>3, <3>7
  <2> QED
    BY <2>1, <2>2, <2>3
<1>6. ASSUME NEW k \in Issued PROVE W!Older(k) \in Issued'
  <2>1. CASE k = None \/ k.left = 0
    BY <1>1, <2>1, <1>6 DEF W!Older, Issued
  <2>2. CASE ~(k = None \/ k.left = 0)
    <3>1. k \in W!Tokens /\ k.ver <= version /\ k.left > 0
      BY <1>6, <2>2 DEF Issued, W!Tokens
    <3> QED
      BY <1>1, <1>4, <3>1 DEF Issued
  <2> QED
    BY <2>1, <2>2
<1>7. cookie' \in Issued' /\ storage' \in Lapsing' /\ memory' \in [Tabs -> Lapsing']
  <2>1. cookie \in Issued /\ storage \in Lapsing /\ memory \in [Tabs -> Lapsing]
    BY DEF SessionTypes
  <2> QED
    BY <1>5, <1>6, <2>1 DEF W!Tick
<1>8. ASSUME NEW c \in Calls PROVE call'[c] \in CallRecord /\ Proper(call[c])'
  <2>1. call'[c] = [call[c] EXCEPT !.token = W!Older(@), !.cookie = W!Older(@)]
    BY DEF W!Tick
  <2>2. call[c].token \in Lapsing /\ call[c].cookie \in Issued
    BY <1>1 DEF Proper
  <2>3. W!Older(call[c].token) \in Lapsing' /\ W!Older(call[c].cookie) \in Issued'
    BY <1>5, <1>6, <2>2
  <2>4. Lapsing' \subseteq W!Tokens \cup {None} /\ Issued' \subseteq W!Tokens \cup {None}
    BY DEF Lapsing, Issued
  <2>5. /\ call'[c].token = W!Older(call[c].token) /\ call'[c].cookie = W!Older(call[c].cookie)
        /\ call'[c].step = call[c].step /\ call'[c].tab = call[c].tab
    BY <1>1, <2>1 DEF CallRecord
  <2>6. call'[c] \in CallRecord
    <3>1. PICK k \in W!Tokens \cup {None} : k = W!Older(call[c].token)
      BY <2>3, <2>4
    <3>2. PICK n \in W!Tokens \cup {None} : n = W!Older(call[c].cookie)
      BY <2>3, <2>4
    <3>3. call'[c] = [call[c] EXCEPT !.token = k, !.cookie = n]
      BY <1>1, <2>1, <3>1, <3>2 DEF CallRecord
    <3> QED
      BY <1>1, <3>3 DEF CallRecord
  <2> QED
    BY <1>1, <2>3, <2>5, <2>6 DEF Proper
<1>9. call' \in [Calls -> CallRecord]
  <2>1. call' = [c \in Calls |-> call'[c]]
    BY DEF W!Tick
  <2> QED
    BY <1>8, <2>1
<1> QED
  BY <1>1, <1>3, <1>7, <1>8, <1>9 DEF SessionTypes

\* Signing out revokes the tokens before it is answered, a changed password too.
LEMMA SessionRevoked ==
    ASSUME W!Assumptions, SessionTypes, W!Revoke, UNCHANGED <<cookie, storage, memory, signedOut>>,
           call' \in [Calls -> CallRecord], \A c \in Calls : Proper(call'[c])
    PROVE  SessionTypes'
<1>1. /\ version' \in Nat /\ version' <= MaxVersion /\ age' \in [0 .. MaxVersion -> Nat]
      /\ Lapsing \subseteq Lapsing' /\ Issued \subseteq Issued' /\ W!Recent \subseteq W!Recent'
  BY SessionRevoke
<1>2. \A c \in Calls : Proper(call[c])'
  BY <1>1 DEF Proper
<1>3. cookie' \in Issued' /\ storage' \in Lapsing' /\ memory' \in [Tabs -> Lapsing']
  <2>1. memory \in [Tabs -> Lapsing] /\ cookie \in Issued /\ storage \in Lapsing
    BY DEF SessionTypes
  <2>2. \A f : f \in [Tabs -> Lapsing] => f \in [Tabs -> Lapsing']
    BY <1>1
  <2> QED
    BY <1>1, <2>1, <2>2
<1> QED
  BY <1>1, <1>2, <1>3 DEF SessionTypes

\* Tokens, sessions and calls are of their kind, and no token outlives its revocation.
LEMMA SessionTypesHold ==
    ASSUME W!Assumptions PROVE W!Spec => []SessionTypes
<1>k. \A n \in Nat : [left |-> n, ver |-> 0] \in W!Tokens
  BY DEF W!Tokens
<1>i. W!Idle \in CallRecord /\ (None \in Lapsing /\ None \in Issued => Proper(W!Idle))
  BY DEF W!Idle, CallRecord, Proper
<1>1. W!Init => SessionTypes
  <2> SUFFICES ASSUME W!Init PROVE SessionTypes
    OBVIOUS
  <2>1. None \in Lapsing /\ None \in Issued
    BY DEF Lapsing, Issued
  <2>2. Proper(W!Idle)
    BY <1>i, <2>1
  <2> QED
    BY <1>i, <2>1, <2>2 DEF W!Init, SessionTypes, W!Assumptions
<1>2. W!Assumptions /\ SessionTypes /\ [W!Next]_W!vars => SessionTypes'
  <2> SUFFICES ASSUME SessionTypes, [W!Next]_W!vars PROVE SessionTypes'
    OBVIOUS
  <2>0. None \in Lapsing /\ None \in Issued
    BY DEF Lapsing, Issued
  <2>i. W!Idle \in CallRecord /\ Proper(W!Idle)
    BY <1>i, <2>0
  <2>r. /\ cookie \in Issued /\ storage \in Lapsing /\ memory \in [Tabs -> Lapsing]
        /\ signedOut \in [Tabs -> {"no", "heard", "unheard"}]
        /\ call \in [Calls -> CallRecord]
        /\ \A c \in Calls : call[c] \in CallRecord /\ Proper(call[c])
    BY DEF SessionTypes
  \* A token issued now.
  <2>n. ASSUME NEW v \in W!Recent
        PROVE  /\ W!Token(AccessTTL, v) \in Lapsing /\ W!Token(RefreshTTL, v) \in Issued
               /\ W!Token(AccessTTL, v) \in W!Tokens /\ W!Token(RefreshTTL, v) \in W!Tokens
    BY DEF W!Token, W!Recent, Lapsing, Issued, W!Tokens, SessionTypes, W!Assumptions
  \* A step of one call.
  <2>c. ASSUME NEW c \in Calls, NEW x \in CallRecord, Proper(x), call' = [call EXCEPT ![c] = x]
        PROVE  call' \in [Calls -> CallRecord] /\ \A d \in Calls : Proper(call'[d])
    BY <2>r, <2>c
  <2>1. ASSUME NEW t \in Tabs, NEW v \in W!Recent, W!SignIn(t, v) PROVE SessionTypes'
    <3>1. /\ cookie' = W!Token(RefreshTTL, v) /\ W!SetSession(t, W!Token(AccessTTL, v))
          /\ signedOut' = [s \in Tabs |-> "no"] /\ UNCHANGED <<version, age>>
          /\ call' = [c \in Calls |-> [call[c] EXCEPT !.heard = FALSE]]
      BY <2>1 DEF W!SignIn
    <3>2. \A c \in Calls : /\ [call[c] EXCEPT !.heard = FALSE] \in CallRecord
                           /\ Proper([call[c] EXCEPT !.heard = FALSE])
      <4> SUFFICES ASSUME NEW c \in Calls
                   PROVE  /\ [call[c] EXCEPT !.heard = FALSE] \in CallRecord
                          /\ Proper([call[c] EXCEPT !.heard = FALSE])
        OBVIOUS
      <4>1. call[c] \in CallRecord /\ Proper(call[c])
        BY <2>r
      <4>2. [call[c] EXCEPT !.heard = FALSE] \in CallRecord
        BY <4>1 DEF CallRecord
      <4> QED
        BY <4>1, <4>2 DEF CallRecord, Proper
    <3> QED
      BY <2>n, <3>1, <3>2, SessionSet, SessionMove
  <2>2. ASSUME NEW t \in Tabs, W!Reload(t) PROVE SessionTypes'
    <3>1. /\ \A c \in Calls : call'[c] \in {W!Idle, call[c]}
          /\ memory' \in [Tabs -> Lapsing] /\ UNCHANGED <<version, age, cookie, storage, signedOut>>
          /\ call' \in [Calls -> CallRecord]
      BY <2>2, <2>0, <2>i, <2>r DEF W!Reload
    <3> QED
      BY <2>i, <2>r, <3>1, SessionMove
  <2>3. ASSUME NEW c \in Calls, NEW t \in Tabs, NEW op \in W!Ops, W!Start(c, t, op) PROVE SessionTypes'
    <3> DEFINE x == [W!Idle EXCEPT !.step = "sent", !.op = op, !.tab = t, !.token = W!Session(t)]
    <3>0. W!Session(t) \in Lapsing /\ W!Session(t) \in W!Tokens \cup {None}
      BY SessionSet DEF Lapsing
    <3>1. x \in CallRecord /\ Proper(x)
      BY <2>0, <3>0 DEF W!Idle, CallRecord, Proper
    <3>2. /\ call' = [call EXCEPT ![c] = x] /\ W!Loaded(t)
          /\ UNCHANGED <<version, cookie, storage, age, signedOut>>
      BY <2>3 DEF W!Start
    <3> HIDE DEF x
    <3> QED
      BY <2>c, <2>r, <3>1, <3>2, SessionSet, SessionMove
  <2>4. ASSUME NEW c \in Calls, W!Serve(c) PROVE SessionTypes'
    <3> DEFINE x == [call[c] EXCEPT !.step = "served", !.token = None, !.heard = TRUE]
    <3>0. call[c].step # "idle" /\ UNCHANGED <<cookie, storage, memory, signedOut>>
      BY <2>4 DEF W!Serve, W!browser
    <3>1. x \in CallRecord /\ Proper(x)
      BY <2>0, <2>r, <3>0 DEF CallRecord, Proper
    <3>2. CASE W!Revoke /\ call' = [call EXCEPT ![c] = x]
      <4> HIDE DEF x
      <4> QED
        BY <2>c, <3>0, <3>1, <3>2, SessionRevoked
    <3>3. CASE call' = [call EXCEPT ![c] = W!Idle] /\ UNCHANGED <<version, age>>
      BY <2>c, <2>i, <2>r, <3>0, <3>3, SessionMove
    <3> QED
      BY <2>4, <3>2, <3>3 DEF W!Serve
  <2>5. ASSUME NEW c \in Calls, W!SignedOut(c) \/ W!GiveUp(c) \/ W!Refused(c) \/ W!Lose(c)
        PROVE  SessionTypes'
    <3>1. \E C : \E dropped \in BOOLEAN : W!Ended(call[c].tab, C, dropped)
      <4>1. CASE W!SignedOut(c)
        BY <4>1 DEF W!SignedOut
      <4>2. CASE W!GiveUp(c)
        <5>1. W!Ended(call[c].tab, {c}, call[c].retry /\ call[c].op # "download")
          BY <4>2 DEF W!GiveUp
        <5>2. (call[c].retry /\ call[c].op # "download") \in BOOLEAN
          OBVIOUS
        <5> QED
          BY <5>1, <5>2
      <4>3. CASE W!Refused(c)
        <5>1. W!Ended(call[c].tab, W!Sharing(c), call[c].op # "download")
          BY <4>3 DEF W!Refused
        <5>2. (call[c].op # "download") \in BOOLEAN
          OBVIOUS
        <5> QED
          BY <5>1, <5>2
      <4>4. CASE W!Lose(c)
        BY <4>4 DEF W!Lose
      <4> QED
        BY <2>5, <4>1, <4>2, <4>3, <4>4
    <3>2. /\ call[c].step # "idle" /\ cookie' \in {None, cookie} /\ UNCHANGED <<version, age>>
      BY <2>5 DEF W!SignedOut, W!GiveUp, W!Refused, W!Lose
    <3>3. call[c].tab \in Tabs
      BY <2>r, <3>2 DEF Proper
    <3> QED
      BY <2>0, <2>i, <2>r, <3>1, <3>2, <3>3, SessionEnds, SessionMove
  <2>6. ASSUME NEW c \in Calls, W!Deny(c) \/ W!Wait(c) PROVE SessionTypes'
    <3> DEFINE x == [call[c] EXCEPT !.step = "denied", !.token = None]
               y == [call[c] EXCEPT !.step = "wait"]
    <3>1. /\ call[c].step # "idle" /\ UNCHANGED <<version, cookie, storage, memory, age, signedOut>>
          /\ call' = [call EXCEPT ![c] = x] \/ call' = [call EXCEPT ![c] = y]
      BY <2>6 DEF W!Deny, W!Wait, W!browser
    <3>2. x \in CallRecord /\ Proper(x) /\ y \in CallRecord /\ Proper(y)
      BY <2>0, <2>r, <3>1 DEF CallRecord, Proper
    <3> HIDE DEF x, y
    <3> QED
      BY <2>c, <2>r, <3>1, <3>2, SessionMove
  <2>7. ASSUME NEW c \in Calls, W!Refresh(c) PROVE SessionTypes'
    <3> DEFINE x == [call[c] EXCEPT !.step = "refresh", !.cookie = cookie]
    <3>1. /\ call[c].step # "idle" /\ UNCHANGED <<version, cookie, storage, age, signedOut>>
          /\ call' = [call EXCEPT ![c] = x] /\ W!Loaded(call[c].tab)
      BY <2>7 DEF W!Refresh
    <3>2. cookie \in W!Tokens \cup {None}
      BY <2>r DEF Issued
    <3>3. x \in CallRecord /\ Proper(x) /\ call[c].tab \in Tabs
      BY <2>r, <3>1, <3>2 DEF CallRecord, Proper
    <3> HIDE DEF x
    <3> QED
      BY <2>c, <2>r, <3>1, <3>3, SessionSet, SessionMove
  <2>8. ASSUME NEW c \in Calls, W!Verify(c) PROVE SessionTypes'
    <3> DEFINE x == [call[c] EXCEPT !.step = "verified"]
               y == [call[c] EXCEPT !.step = "refused", !.cookie = None]
    <3>1. /\ call[c].step # "idle" /\ UNCHANGED <<version, cookie, storage, memory, age, signedOut>>
          /\ \/ call' = [call EXCEPT ![c] = x] /\ call[c].cookie # None /\ W!Current(call[c].cookie)
             \/ call' = [call EXCEPT ![c] = y]
      BY <2>8 DEF W!Verify, W!browser
    <3>2. Proper(y) /\ y \in CallRecord
      BY <2>0, <2>r, <3>1 DEF CallRecord, Proper
    <3>3. ASSUME call[c].cookie # None, W!Current(call[c].cookie) PROVE Proper(x) /\ x \in CallRecord
      <4>1. call[c].cookie.ver \in W!Recent
        BY <3>3 DEF W!Current, W!Recent, SessionTypes
      <4> QED
        BY <2>r, <3>1, <3>3, <4>1 DEF CallRecord, Proper
    <3> HIDE DEF x, y
    <3> QED
      BY <2>c, <2>r, <3>1, <3>2, <3>3, SessionMove
  <2>14. ASSUME NEW c \in Calls, W!Issue(c) PROVE SessionTypes'
    <3>1. PICK v \in W!Recent : v = call[c].cookie.ver
      BY <2>14, <2>r DEF W!Issue, Proper
    <3> DEFINE x == [call[c] EXCEPT !.step = "renewed", !.token = W!Token(AccessTTL, v),
                                    !.cookie = W!Token(RefreshTTL, v)]
    <3>2. /\ call[c].step # "idle" /\ UNCHANGED <<version, cookie, storage, memory, age, signedOut>>
          /\ call' = [call EXCEPT ![c] = x]
      BY <2>14, <3>1 DEF W!Issue, W!browser
    <3>3. PICK k \in W!Tokens : k = W!Token(AccessTTL, v) /\ k \in Lapsing
      BY <2>n
    <3>4. PICK n \in W!Tokens : n = W!Token(RefreshTTL, v) /\ n \in Issued
      BY <2>n
    <3>5. x = [call[c] EXCEPT !.step = "renewed", !.token = k, !.cookie = n]
      BY <2>r, <3>3, <3>4 DEF CallRecord
    <3> HIDE DEF x
    <3>6. Proper(x) /\ x \in CallRecord
      <4>1. call[c] \in CallRecord /\ call[c].tab \in Tabs
        BY <2>r, <3>2 DEF Proper
      <4>2. /\ x \in CallRecord /\ x.token = k /\ x.cookie = n /\ x.tab = call[c].tab
            /\ x.step = "renewed"
        BY <4>1, <3>5 DEF CallRecord
      <4> QED
        BY <4>1, <4>2, <3>3, <3>4 DEF Proper
    <3> QED
      BY <2>c, <2>r, <3>2, <3>6, SessionMove
  <2>9. ASSUME NEW c \in Calls, W!Renewed(c) PROVE SessionTypes'
    <3> DEFINE y(d) == [W!Idle EXCEPT !.step = "sent", !.op = call[d].op, !.tab = call[d].tab,
                                      !.token = call[c].token, !.retry = FALSE]
    <3>1. /\ call[c].step = "renewed" /\ cookie' = call[c].cookie
          /\ W!SetSession(call[c].tab, call[c].token) /\ UNCHANGED <<version, age>>
          /\ call' = [d \in Calls |-> IF d \in W!Sharing(c) THEN y(d) ELSE call[d]]
          /\ signedOut' \in [Tabs -> {"no", "heard", "unheard"}]
      BY <2>9, <2>r DEF W!Renewed
    <3>2. call[c].token \in Lapsing /\ call[c].cookie \in Issued /\ call[c].tab \in Tabs
      BY <2>r, <3>1 DEF Proper
    <3>3. ASSUME NEW d \in W!Sharing(c) \cap Calls PROVE y(d) \in CallRecord /\ Proper(y(d))
      <4>1. call[d].step # "idle"
        BY <3>1 DEF W!Sharing
      <4>2. call[d].tab \in Tabs /\ call[d].op \in W!Ops \cup {None}
            /\ call[c].token \in W!Tokens \cup {None}
        BY <2>r, <4>1 DEF Proper, CallRecord
      <4> QED
        BY <2>0, <3>2, <4>2 DEF W!Idle, CallRecord, Proper
    <3> HIDE DEF y
    <3>4. call' \in [Calls -> CallRecord] /\ \A d \in Calls : Proper(call'[d])
      BY <2>r, <3>1, <3>3
    <3> QED
      BY <3>1, <3>2, <3>4, SessionSet, SessionMove
  <2>10. CASE W!ChangePassword
    BY <2>10, <2>r, SessionRevoked DEF W!ChangePassword, W!browser
  <2>11. CASE W!SetActive
    BY <2>11, <2>r, SessionMove DEF W!SetActive, W!browser
  <2>12. CASE W!Tick
    BY <2>12, SessionTick
  <2>13. CASE UNCHANGED W!vars
    BY <2>13, <2>r, SessionMove DEF W!vars, W!browser
  <2> QED
    BY <2>1, <2>2, <2>3, <2>4, <2>5, <2>6, <2>7, <2>8, <2>9, <2>10, <2>11, <2>12, <2>13, <2>14 DEF W!Next
<1>3. QED
  BY <1>1, <1>2, PTL DEF W!Spec

(* What has been signed out                                                *)

\* The API has heard of a sign-out, and nobody has signed in since.
Heard == (\E c \in Calls : call[c].heard) \/ (\E t \in Tabs : signedOut[t] = "heard")

\* A refresh that was not under way when a tab signed out is of a tab that has not,
\* and is granted when no sign-out was heard.
EarlyOf(x) ==
    x.step \in {"refresh", "verified", "renewed"} /\ ~x.early =>
        /\ signedOut[x.tab] = "no"
        /\ x.step # "refresh" => \A t \in Tabs : signedOut[t] # "heard"

\* No refresh token is of use any more.
AllStale == cookie \in Stale /\ \A c \in Calls : call[c].cookie \in Stale

SignedOutInv ==
    /\ Heard => AllStale
    /\ \A c \in Calls : EarlyOf(call[c])
    /\ W!SignedOutStays

\* Reading the session does not change it.
LEMMA SessionLoaded ==
    ASSUME SessionTypes, NEW s \in Tabs, UNCHANGED storage, UNCHANGED memory \/ W!Loaded(s)
    PROVE  \A t \in Tabs : W!Session(t)' = W!Session(t)
<1>1. memory \in [Tabs -> Lapsing]
  BY DEF SessionTypes
<1>2. CASE UNCHANGED memory
  BY <1>2 DEF W!Session
<1>3. CASE W!Loaded(s)
  BY <1>1, <1>3 DEF W!Session, W!Loaded
<1> QED
  BY <1>2, <1>3

\* A step of one call that signs nobody in or out.
LEMMA StaysMove ==
    ASSUME SessionTypes, SignedOutInv, NEW c \in Calls, NEW x, call' = [call EXCEPT ![c] = x],
           UNCHANGED <<version, cookie, storage, signedOut>>, NEW s \in Tabs, UNCHANGED memory \/ W!Loaded(s),
           ~x.heard, Heard => x.cookie \in Stale, EarlyOf(x)
    PROVE  SignedOutInv'
<1>1. call'[c] = x /\ \A d \in Calls \ {c} : call'[d] = call[d]
  BY DEF SessionTypes
<1>2. \A d \in Calls : EarlyOf(call[d])'
  BY <1>1 DEF SignedOutInv, EarlyOf
<1>3. Stale' = Stale
  BY DEF Stale
<1>4. Heard' => Heard
  BY <1>1 DEF Heard
<1>5. Heard' => AllStale'
  BY <1>1, <1>3, <1>4 DEF SignedOutInv, AllStale
<1>6. W!SignedOutStays'
  <2>1. \A t \in Tabs : W!Session(t)' = W!Session(t)
    BY SessionLoaded
  <2> QED
    BY <2>1 DEF SignedOutInv, W!SignedOutStays
<1> QED
  BY <1>2, <1>5, <1>6 DEF SignedOutInv

\* Calls that end: with a sign-out the session is gone, and the refreshes under way are
\* known to have been.
LEMMA StaysEnded ==
    ASSUME SessionTypes, SignedOutInv, NEW t \in Tabs, NEW C \in SUBSET Calls, NEW dropped \in BOOLEAN,
           W!Ended(t, C, dropped), cookie' \in {None, cookie}, UNCHANGED version
    PROVE  SignedOutInv'
<1>1. /\ memory \in [Tabs -> Lapsing] /\ call \in [Calls -> CallRecord]
      /\ signedOut \in [Tabs -> {"no", "heard", "unheard"}]
      /\ \A c \in Calls : call[c] \in CallRecord
  BY DEF SessionTypes
<1>2. call' = [c \in Calls |->
                   IF c \in C THEN W!Idle
                   ELSE IF W!SignsOut(C) /\ call[c].step \in W!UnderWay
                        THEN [call[c] EXCEPT !.early = TRUE] ELSE call[c]]
  BY DEF W!Ended
<1>3. \A c \in Calls : c \in C => call'[c] = W!Idle
  BY <1>2
<1>4. \A c \in Calls : c \notin C =>
         /\ call'[c].heard = call[c].heard /\ call'[c].cookie = call[c].cookie
         /\ call'[c].step = call[c].step /\ call'[c].tab = call[c].tab
         /\ call[c].early => call'[c].early
         /\ W!SignsOut(C) /\ call[c].step \in W!UnderWay => call'[c].early
  BY <1>1, <1>2 DEF CallRecord
<1>5. CASE W!SignsOut(C)
  <2>1. /\ signedOut' = [signedOut EXCEPT ![t] = IF \E c \in C : call[c].heard THEN "heard" ELSE "unheard"]
        /\ memory' = [memory EXCEPT ![t] = None] /\ storage' = None
    BY <1>5 DEF W!Ended, W!SetSession
  <2>2. Heard' => Heard
    <3>1. \A c \in Calls : call'[c].heard => call[c].heard
      BY <1>3, <1>4 DEF W!Idle
    <3>2. \A s \in Tabs : signedOut'[s] = "heard" => signedOut[s] = "heard" \/ \E c \in C : call[c].heard
      BY <1>1, <2>1
    <3> QED
      BY <3>1, <3>2 DEF Heard
  <2>3. AllStale => AllStale'
    <3>1. Stale' = Stale /\ None \in Stale
      BY DEF Stale
    <3> QED
      BY <1>3, <1>4, <3>1 DEF AllStale, W!Idle
  <2>4. \A c \in Calls : EarlyOf(call[c])'
    BY <1>3, <1>4, <1>5 DEF EarlyOf, W!Idle, W!UnderWay
  <2>5. W!SignedOutStays'
    BY <1>1, <2>1 DEF SignedOutInv, W!SignedOutStays, W!Session
  <2> QED
    BY <2>2, <2>3, <2>4, <2>5 DEF SignedOutInv
<1>6. CASE ~W!SignsOut(C)
  <2>1. /\ UNCHANGED signedOut
        /\ \/ memory' = [memory EXCEPT ![t] = None] /\ storage' = None
           \/ UNCHANGED <<memory, storage>>
    BY <1>6 DEF W!Ended, W!SetSession
  <2>2. Heard' => Heard
    BY <1>3, <1>4, <2>1 DEF Heard, W!Idle
  <2>3. AllStale => AllStale'
    <3>1. Stale' = Stale /\ None \in Stale
      BY DEF Stale
    <3> QED
      BY <1>3, <1>4, <3>1 DEF AllStale, W!Idle
  <2>4. ASSUME NEW c \in Calls PROVE EarlyOf(call[c])'
    <3>1. CASE c \in C
      BY <1>3, <3>1 DEF EarlyOf, W!Idle
    <3>2. CASE c \notin C
      <4>1. call'[c] = call[c]
        BY <1>2, <1>6, <3>2
      <4> QED
        BY <2>1, <4>1 DEF SignedOutInv, EarlyOf
    <3> QED
      BY <3>1, <3>2
  <2>5. W!SignedOutStays'
    BY <1>1, <2>1 DEF SignedOutInv, W!SignedOutStays, W!Session
  <2> QED
    BY <2>2, <2>3, <2>4, <2>5 DEF SignedOutInv
<1> QED
  BY <1>5, <1>6

\* A refresh that is granted is written back: nobody counts as signed out any more.
LEMMA StaysRenewed ==
    ASSUME SessionTypes, SignedOutInv, NEW c \in Calls, W!Renewed(c) PROVE SignedOutInv'
<1>1. /\ call[c].step = "renewed" /\ cookie' = call[c].cookie /\ UNCHANGED version
      /\ call' = [d \in Calls |->
                     IF d \in W!Sharing(c)
                     THEN [W!Idle EXCEPT !.step = "sent", !.op = call[d].op, !.tab = call[d].tab,
                                         !.token = call[c].token, !.retry = FALSE]
                     ELSE call[d]]
      /\ signedOut' = [t \in Tabs |->
            IF call[c].early \/ (signedOut[t] = "unheard" /\ t # call[c].tab) THEN "no" ELSE signedOut[t]]
  BY DEF W!Renewed
<1>2. EarlyOf(call[c]) /\ signedOut \in [Tabs -> {"no", "heard", "unheard"}]
  BY DEF SignedOutInv, SessionTypes
<1>3. \A t \in Tabs : signedOut'[t] = "no"
  BY <1>1, <1>2 DEF EarlyOf
<1>4. \A d \in Calls :
         \/ call'[d] = call[d]
         \/ /\ call'[d].step = "sent" /\ call'[d].cookie = None /\ ~call'[d].heard
  BY <1>1 DEF W!Idle
<1>5. Heard' => AllStale'
  <2>1. Stale' = Stale /\ None \in Stale
    BY <1>1 DEF Stale
  <2>2. Heard' => Heard
    BY <1>3, <1>4 DEF Heard
  <2>3. AllStale => AllStale'
    <3>1. cookie' = call[c].cookie
      BY <1>1
    <3> QED
      BY <1>4, <2>1, <3>1 DEF AllStale
  <2> QED
    BY <2>2, <2>3 DEF SignedOutInv
<1>6. ASSUME NEW d \in Calls PROVE EarlyOf(call[d])'
  <2>1. call'[d].step \in {"refresh", "verified", "renewed"} => call'[d].tab \in Tabs
    <3>1. Proper(call[d])
      BY DEF SessionTypes
    <3> QED
      BY <1>4, <3>1 DEF Proper
  <2> QED
    BY <1>3, <2>1 DEF EarlyOf
<1>7. W!SignedOutStays'
  BY <1>3 DEF W!SignedOutStays
<1> QED
  BY <1>5, <1>6, <1>7 DEF SignedOutInv

\* When the user's tokens have been revoked no session outlives the access token it then
\* had; and a tab that has signed out has no session until someone signs in, unless a
\* refresh that was under way writes one back, or the API has not heard of the sign-out
\* and another tab refreshes.
THEOREM SessionsDoEnd == CompanySpec => []SessionsEnd
<1> W!Assumptions
  BY CompanyAssumption
<1>1. W!Init => SignedOutInv
  BY DEF W!Init, W!Idle, SignedOutInv, Heard, EarlyOf, W!SignedOutStays
<1>2. W!Assumptions /\ SessionTypes /\ SignedOutInv /\ [W!Next]_W!vars => SignedOutInv'
  <2> SUFFICES ASSUME SessionTypes, SignedOutInv, [W!Next]_W!vars PROVE SignedOutInv'
    OBVIOUS
  <2>r. /\ cookie \in Issued /\ storage \in Lapsing /\ memory \in [Tabs -> Lapsing]
        /\ signedOut \in [Tabs -> {"no", "heard", "unheard"}]
        /\ call \in [Calls -> CallRecord]
        /\ \A c \in Calls : call[c] \in CallRecord /\ Proper(call[c])
    BY DEF SessionTypes
  <2>0. None \in Stale
    BY DEF Stale
  <2>1. ASSUME NEW t \in Tabs, NEW v \in W!Recent, W!SignIn(t, v) PROVE SignedOutInv'
    <3>1. /\ signedOut' = [s \in Tabs |-> "no"]
          /\ call' = [c \in Calls |-> [call[c] EXCEPT !.heard = FALSE]]
      BY <2>1 DEF W!SignIn
    <3>2. /\ \A s \in Tabs : signedOut'[s] = "no"
          /\ \A c \in Calls : ~call'[c].heard /\ call'[c].step = call[c].step /\ call'[c].tab = call[c].tab
      BY <2>r, <3>1 DEF CallRecord
    <3>3. ~Heard'
      BY <3>2 DEF Heard
    <3>4. \A c \in Calls : EarlyOf(call[c])'
      BY <2>r, <3>2 DEF EarlyOf, Proper
    <3> QED
      BY <3>2, <3>3, <3>4 DEF SignedOutInv, W!SignedOutStays
  <2>2. ASSUME NEW t \in Tabs, W!Reload(t) PROVE SignedOutInv'
    <3>1. /\ memory' = [memory EXCEPT ![t] = None] /\ UNCHANGED <<version, cookie, storage, signedOut>>
          /\ \A c \in Calls : call'[c] \in {W!Idle, call[c]}
      BY <2>2 DEF W!Reload
    <3>2. Heard' => Heard
      BY <3>1 DEF Heard, W!Idle
    <3>3. AllStale => AllStale'
      <4>1. Stale' = Stale
        BY <3>1 DEF Stale
      <4> QED
        BY <2>0, <3>1, <4>1 DEF AllStale, W!Idle
    <3>4. \A c \in Calls : EarlyOf(call[c])'
      BY <3>1 DEF SignedOutInv, EarlyOf, W!Idle
    <3>5. W!SignedOutStays'
      BY <2>r, <3>1 DEF SignedOutInv, W!SignedOutStays, W!Session
    <3> QED
      BY <3>2, <3>3, <3>4, <3>5 DEF SignedOutInv
  <2>3. ASSUME NEW c \in Calls, NEW t \in Tabs, NEW op \in W!Ops, W!Start(c, t, op) PROVE SignedOutInv'
    <3> DEFINE x == [W!Idle EXCEPT !.step = "sent", !.op = op, !.tab = t, !.token = W!Session(t)]
    <3>1. x.step = "sent" /\ ~x.heard /\ x.cookie = None
      BY DEF W!Idle
    <3>2. /\ call' = [call EXCEPT ![c] = x] /\ W!Loaded(t)
          /\ UNCHANGED <<version, cookie, storage, signedOut>>
      BY <2>3 DEF W!Start
    <3>3. EarlyOf(x)
      BY <3>1 DEF EarlyOf
    <3> HIDE DEF x
    <3> QED
      BY <2>0, <3>1, <3>2, <3>3, StaysMove
  <2>4. ASSUME NEW c \in Calls, W!Serve(c) PROVE SignedOutInv'
    <3> DEFINE x == [call[c] EXCEPT !.step = "served", !.token = None, !.heard = TRUE]
    <3>0. call[c].step = "sent" /\ UNCHANGED <<cookie, storage, memory, signedOut>>
      BY <2>4 DEF W!Serve, W!browser
    <3>s. W!SignedOutStays'
      BY <3>0 DEF SignedOutInv, W!SignedOutStays, W!Session
    <3>1. CASE W!Revoke /\ call' = [call EXCEPT ![c] = x]
      <4>1. x.step = "served" /\ x.cookie = call[c].cookie
        BY <2>r DEF CallRecord
      <4> HIDE DEF x
      <4>2. call'[c] = x /\ \A d \in Calls \ {c} : call'[d] = call[d]
        BY <2>r, <3>1
      <4>3. \A d \in Calls : EarlyOf(call[d])'
        BY <3>0, <4>1, <4>2 DEF SignedOutInv, EarlyOf
      <4>4. Issued \subseteq Stale'
        BY <3>1, SessionRevoke
      <4>5. AllStale'
        BY <2>r, <3>0, <4>1, <4>2, <4>4 DEF AllStale, Proper
      <4> QED
        BY <3>s, <4>3, <4>5 DEF SignedOutInv
    <3>2. CASE call' = [call EXCEPT ![c] = W!Idle] /\ UNCHANGED <<version, age>>
      <4>1. call'[c] = W!Idle /\ \A d \in Calls \ {c} : call'[d] = call[d]
        BY <2>r, <3>2
      <4>2. \A d \in Calls : EarlyOf(call[d])'
        BY <3>0, <4>1 DEF SignedOutInv, EarlyOf, W!Idle
      <4>3. Heard' => Heard
        BY <3>0, <4>1 DEF Heard, W!Idle
      <4>4. AllStale => AllStale'
        BY <2>0, <3>0, <3>2, <4>1 DEF AllStale, Stale, W!Idle
      <4> QED
        BY <3>s, <4>2, <4>3, <4>4 DEF SignedOutInv
    <3> QED
      BY <2>4, <3>1, <3>2 DEF W!Serve
  <2>5. ASSUME NEW c \in Calls, W!SignedOut(c) \/ W!GiveUp(c) \/ W!Refused(c) \/ W!Lose(c)
        PROVE  SignedOutInv'
    <3>0. W!Sharing(c) \in SUBSET Calls /\ {c} \in SUBSET Calls
      BY DEF W!Sharing
    <3>1. \E C \in SUBSET Calls : \E dropped \in BOOLEAN : W!Ended(call[c].tab, C, dropped)
      <4>1. CASE W!SignedOut(c)
        BY <3>0, <4>1 DEF W!SignedOut
      <4>2. CASE W!GiveUp(c)
        <5>1. W!Ended(call[c].tab, {c}, call[c].retry /\ call[c].op # "download")
          BY <4>2 DEF W!GiveUp
        <5>2. (call[c].retry /\ call[c].op # "download") \in BOOLEAN
          OBVIOUS
        <5> QED
          BY <3>0, <5>1, <5>2
      <4>3. CASE W!Refused(c)
        <5>1. W!Ended(call[c].tab, W!Sharing(c), call[c].op # "download")
          BY <4>3 DEF W!Refused
        <5>2. (call[c].op # "download") \in BOOLEAN
          OBVIOUS
        <5> QED
          BY <3>0, <5>1, <5>2
      <4>4. CASE W!Lose(c)
        BY <3>0, <4>4 DEF W!Lose
      <4> QED
        BY <2>5, <4>1, <4>2, <4>3, <4>4
    <3>2. /\ call[c].step # "idle" /\ cookie' \in {None, cookie} /\ UNCHANGED version
      BY <2>5 DEF W!SignedOut, W!GiveUp, W!Refused, W!Lose
    <3>3. call[c].tab \in Tabs
      BY <2>r, <3>2 DEF Proper
    <3> QED
      BY <3>1, <3>2, <3>3, StaysEnded
  <2>6. ASSUME NEW c \in Calls, W!Deny(c) \/ W!Wait(c) PROVE SignedOutInv'
    <3>1. /\ call[c].step \in {"sent", "denied"} /\ UNCHANGED <<version, cookie, storage, memory, signedOut>>
          /\ \/ call' = [call EXCEPT ![c] = [call[c] EXCEPT !.step = "denied", !.token = None]]
             \/ call' = [call EXCEPT ![c] = [call[c] EXCEPT !.step = "wait"]]
      BY <2>6 DEF W!Deny, W!Wait, W!browser
    <3>2. /\ call'[c].step \in {"denied", "wait"} /\ call'[c].heard = call[c].heard
          /\ call'[c].cookie = call[c].cookie
          /\ \A d \in Calls \ {c} : call'[d] = call[d]
      <4>1. CASE call' = [call EXCEPT ![c] = [call[c] EXCEPT !.step = "denied", !.token = None]]
        BY <2>r, <4>1 DEF CallRecord
      <4>2. CASE call' = [call EXCEPT ![c] = [call[c] EXCEPT !.step = "wait"]]
        BY <2>r, <4>2 DEF CallRecord
      <4> QED
        BY <3>1, <4>1, <4>2
    <3>3. \A d \in Calls : EarlyOf(call[d])'
      BY <3>1, <3>2 DEF SignedOutInv, EarlyOf
    <3>4. Heard' => Heard
      BY <3>1, <3>2 DEF Heard
    <3>5. AllStale => AllStale'
      <4>1. Stale' = Stale
        BY <3>1 DEF Stale
      <4> QED
        BY <3>1, <3>2, <4>1 DEF AllStale
    <3>6. W!SignedOutStays'
      BY <3>1 DEF SignedOutInv, W!SignedOutStays, W!Session
    <3> QED
      BY <3>3, <3>4, <3>5, <3>6 DEF SignedOutInv
  <2>7. ASSUME NEW c \in Calls, W!Refresh(c) PROVE SignedOutInv'
    <3>1. /\ call[c].step = "denied" /\ UNCHANGED <<version, cookie, storage, signedOut>>
          /\ call' = [call EXCEPT ![c] = [call[c] EXCEPT !.step = "refresh", !.cookie = cookie]]
          /\ W!Loaded(call[c].tab) /\ W!Session(call[c].tab) # None
      BY <2>7 DEF W!Refresh
    <3>2. /\ call'[c].step = "refresh" /\ call'[c].heard = call[c].heard
          /\ call'[c].cookie = cookie /\ call'[c].tab = call[c].tab
          /\ \A d \in Calls \ {c} : call'[d] = call[d]
      BY <2>r, <3>1 DEF CallRecord
    <3>3. call[c].tab \in Tabs
      BY <2>r, <3>1 DEF Proper
    <3>4. signedOut[call[c].tab] = "no"
      BY <3>1, <3>3 DEF SignedOutInv, W!SignedOutStays
    <3>5. \A d \in Calls : EarlyOf(call[d])'
      BY <3>1, <3>2, <3>4 DEF SignedOutInv, EarlyOf
    <3>6. Heard' => Heard
      BY <3>1, <3>2 DEF Heard
    <3>7. AllStale => AllStale'
      <4>1. Stale' = Stale
        BY <3>1 DEF Stale
      <4> QED
        BY <3>1, <3>2, <4>1 DEF AllStale
    <3>8. W!SignedOutStays'
      <4>1. \A t \in Tabs : W!Session(t)' = W!Session(t)
        BY <3>1, <3>3, SessionLoaded
      <4> QED
        BY <3>1, <4>1 DEF SignedOutInv, W!SignedOutStays
    <3> QED
      BY <3>5, <3>6, <3>7, <3>8 DEF SignedOutInv
  <2>8. ASSUME NEW c \in Calls, W!Verify(c) PROVE SignedOutInv'
    <3>1. /\ call[c].step = "refresh" /\ UNCHANGED <<version, cookie, storage, memory, signedOut>>
      BY <2>8 DEF W!Verify, W!browser
    <3>s. W!SignedOutStays'
      BY <3>1 DEF SignedOutInv, W!SignedOutStays, W!Session
    <3>t. Stale' = Stale
      BY <3>1 DEF Stale
    <3>2. CASE /\ call[c].cookie # None /\ W!Current(call[c].cookie)
               /\ call' = [call EXCEPT ![c].step = "verified"]
      <4>1. /\ call'[c].step = "verified" /\ call'[c].heard = call[c].heard
            /\ call'[c].tab = call[c].tab /\ call'[c].early = call[c].early
            /\ \A d \in Calls \ {c} : call'[d] = call[d]
        BY <2>r, <3>2 DEF CallRecord
      <4>2. call[c].cookie \notin Stale
        BY <2>r, <3>2 DEF Stale, W!Current, W!Tokens, SessionTypes
      <4>3. ~Heard
        BY <4>2 DEF SignedOutInv, AllStale
      <4>4. ~Heard'
        BY <3>1, <4>1, <4>3 DEF Heard
      <4>5. \A d \in Calls : EarlyOf(call[d])'
        BY <3>1, <4>1, <4>3 DEF SignedOutInv, EarlyOf, Heard
      <4> QED
        BY <3>s, <4>4, <4>5 DEF SignedOutInv
    <3>3. CASE call' = [call EXCEPT ![c].step = "refused", ![c].cookie = None]
      <4>1. /\ call'[c].step = "refused" /\ call'[c].heard = call[c].heard /\ call'[c].cookie = None
            /\ \A d \in Calls \ {c} : call'[d] = call[d]
        BY <2>r, <3>3 DEF CallRecord
      <4>2. \A d \in Calls : EarlyOf(call[d])'
        BY <3>1, <4>1 DEF SignedOutInv, EarlyOf
      <4>3. Heard' => Heard
        BY <3>1, <4>1 DEF Heard
      <4>4. AllStale => AllStale'
        BY <2>0, <3>1, <3>t, <4>1 DEF AllStale
      <4> QED
        BY <3>s, <4>2, <4>3, <4>4 DEF SignedOutInv
    <3> QED
      BY <2>8, <3>2, <3>3 DEF W!Verify
  <2>13. ASSUME NEW c \in Calls, W!Issue(c) PROVE SignedOutInv'
    <3>0. PICK v : v = call[c].cookie.ver
      OBVIOUS
    <3> DEFINE k == W!Token(AccessTTL, v)
               n == W!Token(RefreshTTL, v)
    <3>1. /\ call[c].step = "verified" /\ UNCHANGED <<version, cookie, storage, memory, signedOut>>
          /\ call' = [call EXCEPT ![c] = [call[c] EXCEPT !.step = "renewed", !.token = k, !.cookie = n]]
      BY <2>13, <3>0 DEF W!Issue, W!browser
    <3>2. call[c].cookie \in Stale => n \in Stale
      BY <2>r, <3>0, <3>1 DEF Stale, W!Token, W!Tokens, Proper, W!Assumptions
    <3> HIDE DEF k, n
    <3>3. /\ call'[c].step = "renewed" /\ call'[c].heard = call[c].heard /\ call'[c].cookie = n
          /\ call'[c].tab = call[c].tab /\ call'[c].early = call[c].early
          /\ \A d \in Calls \ {c} : call'[d] = call[d]
      BY <2>r, <3>1 DEF CallRecord
    <3>4. \A d \in Calls : EarlyOf(call[d])'
      BY <3>1, <3>3 DEF SignedOutInv, EarlyOf
    <3>5. Heard' => Heard
      BY <3>1, <3>3 DEF Heard
    <3>6. AllStale => AllStale'
      <4>1. Stale' = Stale
        BY <3>1 DEF Stale
      <4> QED
        BY <3>1, <3>2, <3>3, <4>1 DEF AllStale
    <3>7. W!SignedOutStays'
      BY <3>1 DEF SignedOutInv, W!SignedOutStays, W!Session
    <3> QED
      BY <3>4, <3>5, <3>6, <3>7 DEF SignedOutInv
  <2>9. ASSUME NEW c \in Calls, W!Renewed(c) PROVE SignedOutInv'
    BY <2>9, StaysRenewed
  <2>10. CASE W!ChangePassword
    <3>1. W!Revoke /\ UNCHANGED <<cookie, storage, memory, call, signedOut>>
      BY <2>10 DEF W!ChangePassword, W!browser
    <3>2. Stale \subseteq Stale'
      BY <3>1, SessionRevoke
    <3>3. AllStale => AllStale'
      BY <3>1, <3>2 DEF AllStale
    <3>4. Heard' = Heard /\ \A c \in Calls : EarlyOf(call[c])'
      BY <3>1 DEF SignedOutInv, Heard, EarlyOf
    <3> QED
      BY <3>1, <3>3, <3>4 DEF SignedOutInv, W!SignedOutStays, W!Session
  <2>11. CASE W!SetActive \/ UNCHANGED W!vars
    <3>1. UNCHANGED <<version, cookie, storage, memory, call, signedOut>>
      BY <2>11 DEF W!SetActive, W!browser, W!vars
    <3> QED
      BY <3>1 DEF SignedOutInv, Heard, AllStale, Stale, EarlyOf, W!SignedOutStays, W!Session
  <2>12. CASE W!Tick
    <3>1. /\ UNCHANGED <<version, signedOut>> /\ cookie' = W!Older(cookie) /\ storage' = W!Older(storage)
          /\ memory' = [t \in Tabs |-> W!Older(memory[t])]
          /\ call' = [c \in Calls |-> [call[c] EXCEPT !.token = W!Older(@), !.cookie = W!Older(@)]]
      BY <2>12 DEF W!Tick
    <3>2. ASSUME NEW k \in Stale PROVE W!Older(k) \in Stale'
      <4>1. CASE k = None \/ k.left = 0
        BY <3>1, <4>1, <3>2 DEF W!Older, Stale
      <4>2. CASE ~(k = None \/ k.left = 0)
        <5>1. k \in W!Tokens /\ k.ver < version
          BY <3>2, <4>2 DEF Stale
        <5>2. PICK o : o = W!Older(k)
          OBVIOUS
        <5>3. o \in W!Tokens /\ o.ver = k.ver
          BY <4>2, <5>1, <5>2 DEF W!Older, W!Tokens
        <5>4. o \in Stale'
          BY <3>1, <5>1, <5>3 DEF Stale
        <5> QED
          BY <5>2, <5>4
      <4> QED
        BY <4>1, <4>2
    <3>3. \A c \in Calls :
             /\ call'[c].step = call[c].step /\ call'[c].tab = call[c].tab
             /\ call'[c].heard = call[c].heard /\ call'[c].early = call[c].early
             /\ call'[c].cookie = W!Older(call[c].cookie)
      BY <2>r, <3>1 DEF CallRecord
    <3>4. AllStale => AllStale'
      BY <3>1, <3>2, <3>3 DEF AllStale
    <3>5. Heard' => Heard
      BY <3>1, <3>3 DEF Heard
    <3>6. \A c \in Calls : EarlyOf(call[c])'
      BY <3>1, <3>3 DEF SignedOutInv, EarlyOf
    <3>7. W!Older(None) = None
      BY DEF W!Older
    <3>8. W!SignedOutStays'
      BY <2>r, <3>1, <3>7 DEF SignedOutInv, W!SignedOutStays, W!Session
    <3> QED
      BY <3>4, <3>5, <3>6, <3>8 DEF SignedOutInv
  <2> QED
    BY <2>1, <2>2, <2>3, <2>4, <2>5, <2>6, <2>7, <2>8, <2>9, <2>10, <2>11, <2>12, <2>13 DEF W!Next
<1>3. W!Assumptions /\ SessionTypes /\ SignedOutInv => SessionsEnd
  <2> SUFFICES ASSUME SessionTypes, SignedOutInv PROVE W!RevokedEnd
    BY DEF SessionsEnd, W!SessionsEnd, SignedOutInv
  <2> SUFFICES ASSUME NEW k \in W!Held, k.ver < version, k.left > 0
               PROVE  k.left + age[k.ver] <= AccessTTL
    BY DEF W!RevokedEnd
  <2>1. k \in Lapsing /\ k # None
    BY DEF W!Held, SessionTypes, Proper
  <2> QED
    BY <2>1 DEF Lapsing, W!Tokens
<1>4. W!Spec => []SessionTypes
  BY SessionTypesHold
<1> QED
  BY <1>1, <1>2, <1>3, <1>4, PartsOfCompany, PTL DEF W!Spec

================================================================================
