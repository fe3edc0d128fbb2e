-------------------------------- MODULE Tenancy --------------------------------
(***************************************************************************)
(* How a request finds the database of its company: the cached status of a *)
(* tenant and the pools of connections of one API process                  *)
(* (tenancy/tenant-connection.service.ts, tenant.middleware.ts), while     *)
(* companies are created and provisioned (db/src/provision.ts), suspended  *)
(* and reactivated (platform/platform.service.ts).                         *)
(*                                                                         *)
(* The process runs one callback at a time: what it does between two       *)
(* awaits is one action, and a query reads the control database in an      *)
(* action of its own.  Time passes in ticks of 30 seconds; a query is      *)
(* answered within a tick, which is the only assumption on time.           *)
(*                                                                         *)
(* An operator Mut... is a defective variant of the definition after it,   *)
(* which a run must tell from the real one; no other definition uses it.   *)
(***************************************************************************)
EXTENDS Naturals, FiniteSets, Sequences, SequencesExt

CONSTANTS Tenants,
          Existing,  \* tenants that are active from the start
          PoolMax,   \* config.tenantPoolMax
          TTL,       \* META_TTL_MS in ticks
          Requests,  \* HTTP requests in progress
          None       \* no value

ASSUME TenancyAssumption == Existing \subseteq Tenants /\ PoolMax \in Nat \ {0} /\ TTL \in Nat \ {0}

VARIABLES status,  \* status[t] of the tenant's row
          setup,   \* setup[t]: how many steps of its provisioning are done
          prov,    \* prov[t]: what the process does to provision t
          meta,    \* meta[t]: None or the cached status of t and its age
          pools,   \* the tenants whose pool is in the map, the least recently used first
          alive,   \* alive[t]: pools of t that have not been ended (a history variable)
          pending, \* pending[t]: whether a pool of t is being opened
          out,     \* out[t]: ticks since t stopped being active (a history variable)
          req      \* req[r]: what request r is doing

rows   == <<status, setup, prov, out>>
caches == <<meta, pools, alive, pending>>
vars   == <<rows, caches, req>>

-------------------------------------------------------------------------------
(* Requests                                                                *)

\* seen: the status a request has read; late: it has changed since (history);
\* waited: ticks its query has taken (history).
Idle == [step |-> "idle", op |-> None, tenant |-> None, to |-> None, seen |-> None,
         late |-> FALSE, waited |-> 0]

MaxOut == TTL + 1

Goto(r, step) == req' = [req EXCEPT ![r].step = step, ![r].waited = 0]
End(r) == req' = [req EXCEPT ![r] = Idle]

\* The other writers: q's lookup of t has read the status before it changes to s.
Outdated(t, s) ==
    [q \in Requests |->
        IF req[q].tenant = t /\ req[q].step = "store" /\ req[q].seen # s
        THEN [req[q] EXCEPT !.late = TRUE] ELSE req[q]]

\* A query of the tenant's row sets its status.
SetRow(t, s) ==
    /\ status' = [status EXCEPT ![t] = s]
    /\ out' = [out EXCEPT ![t] = 0]

\* The map without t, which is a key of one pool at most.
Without(t) ==
    IF t \in Range(pools) THEN RemoveAt(pools, CHOOSE i \in DOMAIN pools : pools[i] = t) ELSE pools

Ended(t) == [alive EXCEPT ![t] = IF t \in Range(pools) THEN @ - 1 ELSE @]

MutInvalidated(t) ==
    /\ pools' = Without(t)
    /\ alive' = Ended(t)
    /\ UNCHANGED <<meta, pending>>

\* invalidate.
Invalidated(t) ==
    /\ meta' = [meta EXCEPT ![t] = None]
    /\ pools' = Without(t)
    /\ alive' = Ended(t)
    /\ UNCHANGED pending

-------------------------------------------------------------------------------
(* A tenant's request on its way to the database                           *)

Fresh(t) == meta[t] # None /\ meta[t].age < TTL

MutRoute(t) == IF t \in Range(pools) THEN "serve" ELSE "open"

\* get, from its check of the status on: use the pool, wait for it, or open it.
Route(t) == CASE t \in Range(pools) -> "serve" [] pending[t] -> "wait" [] OTHER -> "open"

\* The middleware admits r by status s of its tenant, or answers 403 or 404.
Admit(r, t, s) ==
    IF s # "active" THEN End(r) /\ UNCHANGED <<pools, pending>>
    ELSE /\ req' = [req EXCEPT ![r] = [Idle EXCEPT !.step = Route(t), !.op = "use", !.tenant = t]]
         /\ pools' = IF Route(t) = "serve" THEN Append(Without(t), t)
                     ELSE pools
         /\ pending' = [pending EXCEPT ![t] = (@ \/ Route(t) = "open")]

\* lookup answers from the cache ...
BeginCached(r, t) ==
    /\ req[r] = Idle
    /\ Fresh(t)
    /\ Admit(r, t, meta[t].status)
    /\ UNCHANGED <<rows, meta, alive>>

\* ... or sends a query, ...
BeginLookup(r, t) ==
    /\ req[r] = Idle
    /\ ~Fresh(t)
    /\ req' = [req EXCEPT ![r] = [Idle EXCEPT !.step = "select", !.op = "use", !.tenant = t]]
    /\ UNCHANGED <<rows, caches>>

Select(r) ==
    /\ req[r].step = "select"
    /\ req' = [req EXCEPT ![r].step = "store", ![r].seen = status[req[r].tenant]]
    /\ UNCHANGED <<rows, caches>>

\* ... whose answer is cached, an unknown tenant too.
Store(r) ==
    LET t == req[r].tenant IN
    /\ req[r].step = "store"
    /\ meta' = [meta EXCEPT ![t] = [status |-> req[r].seen, age |-> 0, late |-> req[r].late]]
    /\ Admit(r, t, req[r].seen)
    /\ UNCHANGED <<rows, alive>>

\* The request that opens a pool of t and those that wait for it.
Together(r) == {r} \cup {q \in Requests : req[q].step = "wait" /\ req[q].tenant = req[r].tenant}

\* open reads the credentials ...
ReadCredentials(r) ==
    /\ req[r].step = "open"
    /\ setup[req[r].tenant] >= 2
    /\ Goto(r, "insert")
    /\ UNCHANGED <<rows, caches>>

\* ... or fails, and with it every request that waits.
OpenFails(r) ==
    /\ req[r].step = "open"
    /\ pending' = [pending EXCEPT ![req[r].tenant] = FALSE]
    /\ req' = [q \in Requests |-> IF q \in Together(r) THEN Idle ELSE req[q]]
    /\ UNCHANGED <<rows, meta, pools, alive>>

\* evictIfNeeded takes the least recently used pools of the map.
Excess(order) == SubSeq(order, 1, Len(order) - PoolMax)

Settled(r) == [q \in Requests |-> IF q \in Together(r) THEN [req[q] EXCEPT !.step = "serve"] ELSE req[q]]

\* The new pool is put into the map and others are evicted; the requests wait for
\* their connections to end.
InsertPool(r) ==
    LET t      == req[r].tenant
        order  == Append(Without(t), t)
        excess == Excess(order) IN
    /\ req[r].step = "insert"
    /\ pools' = SubSeq(order, Len(excess) + 1, Len(order))
    /\ alive' = [u \in Tenants |-> alive[u] + (IF u = t THEN 1 ELSE 0)
                                            - (IF u \in Range(excess) THEN 1 ELSE 0)]
    /\ IF excess = <<>> THEN /\ req' = Settled(r)
                            /\ pending' = [pending EXCEPT ![t] = FALSE]
       ELSE Goto(r, "settle") /\ UNCHANGED pending
    /\ UNCHANGED <<rows, meta>>

Settle(r) ==
    /\ req[r].step = "settle"
    /\ pending' = [pending EXCEPT ![req[r].tenant] = FALSE]
    /\ req' = Settled(r)
    /\ UNCHANGED <<rows, meta, pools, alive>>

\* The handler ends.
Serve(r) ==
    /\ req[r].step = "serve"
    /\ End(r)
    /\ UNCHANGED <<rows, caches>>

-------------------------------------------------------------------------------
(* The platform console                                                    *)

\* setStatus reads the row ...
BeginSetStatus(r, t, to) ==
    /\ req[r] = Idle
    /\ status[t] = IF to = "active" THEN "suspended" ELSE "active"
    /\ req' = [req EXCEPT ![r] = [Idle EXCEPT !.step = "update", !.op = "setStatus",
                                              !.tenant = t, !.to = to]]
    /\ UNCHANGED <<rows, caches>>

\* ... updates it whatever it is by then ...
UpdateStatus(r) ==
    LET t == req[r].tenant IN
    /\ req[r].step = "update"
    /\ SetRow(t, req[r].to)
    /\ req' = [Outdated(t, req[r].to) EXCEPT ![r].step = "invalidate", ![r].waited = 0]
    /\ UNCHANGED <<setup, prov, caches>>

\* ... and drops what the process has cached.
Invalidate(r) ==
    /\ req[r].step = "invalidate"
    /\ Invalidated(req[r].tenant)
    /\ End(r)
    /\ UNCHANGED rows

-------------------------------------------------------------------------------
(* Provisioning                                                            *)

Steps == <<"database", "credentials", "migrations", "defaults">>

\* create inserts the row and leaves provisioning to the background.
CreateTenant(t) ==
    /\ status[t] = "none"
    /\ status' = [status EXCEPT ![t] = "provisioning"]
    /\ req' = Outdated(t, "provisioning")
    /\ prov' = [prov EXCEPT ![t] = "running"]
    /\ UNCHANGED <<setup, out, caches>>

ProvisionStep(t) ==
    /\ prov[t] = "running"
    /\ setup[t] < Len(Steps)
    /\ setup' = [setup EXCEPT ![t] = @ + 1]
    /\ UNCHANGED <<status, prov, out, caches, req>>

MutReady(t) == setup[t] >= 3

Ready(t) == setup[t] = Len(Steps)

Activate(t) ==
    /\ prov[t] = "running"
    /\ Ready(t)
    /\ SetRow(t, "active")
    /\ req' = Outdated(t, "active")
    /\ prov' = [prov EXCEPT ![t] = "activated"]
    /\ UNCHANGED <<setup, caches>>

\* The job has succeeded: provisionTenant's caller invalidates the tenant.
Announce(t) ==
    /\ prov[t] = "activated"
    /\ prov' = [prov EXCEPT ![t] = "none"]
    /\ Invalidated(t)
    /\ UNCHANGED <<status, setup, out, req>>

\* A step throws, or the job's record cannot be written, even of a tenant that is
\* active already; writing the failure may fail too.  Nothing is undone and nothing
\* is invalidated.
ProvisioningFails(t) ==
    /\ prov[t] \in {"running", "activated"}
    /\ prov' = [prov EXCEPT ![t] = "none"]
    /\ \/ SetRow(t, "failed") /\ req' = Outdated(t, "failed")
       \/ UNCHANGED <<status, out, req>>
    /\ UNCHANGED <<setup, caches>>

-------------------------------------------------------------------------------
(* Time and failure                                                        *)

\* A query that has taken a tick is answered before the next.
Querying(r) == req[r].step \in {"select", "store", "update", "invalidate"}

Aged(entry) == IF entry = None THEN None ELSE [entry EXCEPT !.age = IF @ < TTL THEN @ + 1 ELSE @]

Tick ==
    /\ \A r \in Requests : Querying(r) => req[r].waited = 0
    /\ meta' = [t \in Tenants |-> Aged(meta[t])]
    /\ out' = [t \in Tenants |-> IF status[t] \in {"suspended", "failed"} /\ out[t] < MaxOut
                                 THEN out[t] + 1 ELSE out[t]]
    /\ req' = [r \in Requests |-> IF Querying(r) THEN [req[r] EXCEPT !.waited = 1] ELSE req[r]]
    /\ UNCHANGED <<status, setup, prov, pools, alive, pending>>

\* A query of a request fails.
Fail(r) ==
    /\ req[r].step \in {"select", "update"}
    /\ End(r)
    /\ UNCHANGED <<rows, caches>>

\* The process ends and starts again: only rows and databases are left.
Restart ==
    /\ req' = [r \in Requests |-> Idle]
    /\ meta' = [t \in Tenants |-> None]
    /\ pools' = <<>>
    /\ alive' = [t \in Tenants |-> 0]
    /\ pending' = [t \in Tenants |-> FALSE]
    /\ prov' = [t \in Tenants |-> "none"]
    /\ UNCHANGED <<status, setup, out>>

-------------------------------------------------------------------------------
(* The specification                                                       *)

InitTenants ==
    /\ status = [t \in Tenants |-> IF t \in Existing THEN "active" ELSE "none"]
    /\ setup = [t \in Tenants |-> IF t \in Existing THEN Len(Steps) ELSE 0]
    /\ prov = [t \in Tenants |-> "none"]
    /\ meta = [t \in Tenants |-> None]
    /\ pools = <<>>
    /\ alive = [t \in Tenants |-> 0]
    /\ pending = [t \in Tenants |-> FALSE]
    /\ out = [t \in Tenants |-> 0]

Init == InitTenants /\ req = [r \in Requests |-> Idle]

Use(r) ==
    \/ \E t \in Tenants : BeginCached(r, t) \/ BeginLookup(r, t)
    \/ Select(r) \/ Store(r) \/ ReadCredentials(r) \/ OpenFails(r) \/ InsertPool(r) \/ Settle(r) \/ Serve(r)

Administer(r) ==
    \/ \E t \in Tenants, to \in {"active", "suspended"} : BeginSetStatus(r, t, to)
    \/ UpdateStatus(r) \/ Invalidate(r)

Provision(t) ==
    CreateTenant(t) \/ ProvisionStep(t) \/ Activate(t) \/ Announce(t) \/ ProvisioningFails(t)

Next ==
    \/ \E r \in Requests : Use(r) \/ Administer(r) \/ Fail(r)
    \/ \E t \in Tenants : Provision(t)
    \/ Tick
    \/ Restart

Spec == Init /\ [][Next]_vars

-------------------------------------------------------------------------------
(* Properties                                                              *)

\* No connection pool is lost or opened twice, however openings, evictions and
\* suspensions overlap: a tenant has one pool that has not been ended when it is in
\* the map and none when it is not, and the map keeps to its maximum.
OnePool ==
    /\ \A t \in Tenants : alive[t] = IF t \in Range(pools) THEN 1 ELSE 0
    /\ Len(pools) <= PoolMax

\* The row of t has been updated and what the process has cached not dropped yet.
Invalidating(t) == \E r \in Requests : req[r].step = "invalidate" /\ req[r].tenant = t

\* Suspensions take effect: a status the row no longer has is only cached when its
\* lookup was under way as the row changed, when the invalidation is still to
\* come, or when provisioning failed, which invalidates nothing; and no request will
\* be admitted once the tenant has been out for longer than the cache keeps a status.
SuspendedInTime ==
    /\ \A t \in Tenants :
        Fresh(t) /\ meta[t].status = "active" /\ status[t] = "suspended"
            => meta[t].late \/ Invalidating(t)
    /\ \A t \in Tenants : Fresh(t) /\ meta[t].status = "active" => out[t] <= TTL
    /\ \A r \in Requests : req[r].op = "use" /\ req[r].step = "store" /\ req[r].seen = "active"
                               => out[req[r].tenant] <= TTL

\* A company that is or has been open has a database with its schema and defaults,
\* wherever provisioning failed or the process stopped.
OpenIsReady == \A t \in Tenants : status[t] \in {"active", "suspended"} => setup[t] = Len(Steps)

================================================================================
