--------------------------------- MODULE Access ---------------------------------
(***************************************************************************)
(* What the users of one company may do: users, roles and licensed modules *)
(* (core/users.service.ts, platform/platform.service.ts), the two caches   *)
(* that the guard of every request reads instead of the databases          *)
(* (auth/permission-cache.service.ts, tenancy/tenant-modules.service.ts),  *)
(* and the seats of the plan.                                              *)
(*                                                                         *)
(* As in Tenancy, what the process does between two awaits is one action,  *)
(* a query reads in an action of its own, time passes in ticks, and the    *)
(* queries of one request are answered within a tick.                      *)
(*                                                                         *)
(* An operator Mut... is a defective variant of the definition after it,   *)
(* which a run must tell from the real one; no other definition uses it.   *)
(***************************************************************************)
EXTENDS Naturals, FiniteSets

CONSTANTS Users, Roles, Permissions, Modules,
          ModuleOf,   \* ModuleOf[p]: the module permission p belongs to; None: core
          Admin,      \* the role that cannot be modified or deleted
          Limits,     \* what maxUsers may be set to; None: no subscription
          PermTTL,    \* permission-cache's TTL_MS in ticks
          ModuleTTL,  \* tenant-modules' TTL_MS in ticks
          Requests, None

\* A row of users, as far as access goes.
User       == [active : BOOLEAN, roles : SUBSET Roles]
Operations == {"check", "user", "role", "modules"}

Assumptions ==
    /\ IsFiniteSet(Users)
    /\ Limits \subseteq Nat \cup {None}
    /\ None \notin User \cup Operations

\* A module's permissions are refused a tick after it is at the earliest.
TimesAssumption == PermTTL \in Nat /\ ModuleTTL \in Nat \ {0} /\ DOMAIN ModuleOf = Permissions

VARIABLES user,      \* user[u]: None, or whether u is active and u's roles
          grants,    \* grants[o]: the permissions of role o
          enabled,   \* the modules the company is licensed for
          maxUsers,  \* the seats of the subscription
          perms,     \* perms[u]: None, or what is cached of u's permissions
          mods,      \* None, or what is cached of enabled
          lost,      \* lost[u][p][c]: ticks since u lost p for cause c (a history variable)
          overtaken, \* users left active when the limit was lowered, or activated beyond
                     \* it by a request whose count another had overtaken (history)
          req        \* req[r]: what request r is doing

rows == <<user, grants, enabled, maxUsers, overtaken>>
vars == <<rows, perms, mods, lost, req>>

-------------------------------------------------------------------------------
(* What the databases say                                                  *)

Known  == {u \in Users : user[u] # None}
Active == {u \in Known : user[u].active}

Granted(u) == UNION {grants[o] : o \in user[u].roles}

Licensed(keys, modules) == {p \in keys : ModuleOf[p] = None \/ ModuleOf[p] \in modules}

Effective(u) == IF u \in Active THEN Licensed(Granted(u), enabled) ELSE {}

\* Why u does not have permission p.
Causes == {"inactive", "role", "module"}
Missing(u, p) ==
    (IF u \in Active THEN {} ELSE {"inactive"})
        \cup (IF u \in Known /\ p \in Granted(u) THEN {} ELSE {"role"})
        \cup (IF Licensed({p}, enabled) # {} THEN {} ELSE {"module"})

-------------------------------------------------------------------------------
(* Requests                                                                *)

\* user: the user it checks or writes; role, to: what it writes, modules: where it
\* has still to; active, keys, modules, limit: what its queries have read; waited: ticks its queries have taken
\* (history); late: something it read has changed since (history).
Idle == [step |-> "idle", op |-> None, user |-> None, role |-> None, to |-> None,
         active |-> FALSE, keys |-> {}, modules |-> {}, limit |-> None, waited |-> 0,
         late |-> FALSE]

Begin(r, asked) == req[r] = Idle /\ req' = [req EXCEPT ![r] = asked]

At(r, op, step) == req[r].op = op /\ req[r].step = step
End(r) == req' = [req EXCEPT ![r] = Idle]

\* The checks of users in S that are at one of the steps.
Checking(S, steps) ==
    {q \in Requests : req[q].op = "check" /\ req[q].step \in steps /\ req[q].user \in S}

\* r goes on to invalidate after its commit; those of readers have read what r has
\* changed.
Committed(r, readers) ==
    req' = [q \in Requests |->
               IF q = r THEN [req[q] EXCEPT !.step = "invalidate"]
               ELSE [req[q] EXCEPT !.late = @ \/ q \in readers]]

\* A cause that no longer holds starts anew when it next does.
Lost == lost' = [u \in Users |-> [p \in Permissions |-> [c \in Causes |->
                    IF c \in Missing(u, p)' THEN lost[u][p][c] ELSE 0]]]

-------------------------------------------------------------------------------
(* The guard                                                               *)

Fresh(entry, ttl) == entry # None /\ entry.age < ttl

\* forUser finds no entry that is fresh enough and queries the user ...
BeginCheck(r, u) ==
    /\ u \in Known
    /\ ~Fresh(perms[u], PermTTL)
    /\ Begin(r, [Idle EXCEPT !.op = "check", !.step = "user", !.user = u])
    /\ UNCHANGED <<rows, perms, mods, lost>>

ReadUser(r) ==
    /\ At(r, "check", "user")
    /\ req' = [req EXCEPT ![r].step = "roles", ![r].active = user[req[r].user].active]
    /\ UNCHANGED <<rows, perms, mods, lost>>

\* ... then what the user's roles grant ...
ReadRoles(r) ==
    /\ At(r, "check", "roles")
    /\ req' = [req EXCEPT ![r].step = "modules", ![r].keys = Granted(req[r].user)]
    /\ UNCHANGED <<rows, perms, mods, lost>>

\* What is cached of the user, with modules that were read late or not.
Entry(r, modules, late) ==
    [perms EXCEPT ![req[r].user] = [keys |-> Licensed(req[r].keys, modules), active |-> req[r].active,
                                    age |-> 0, late |-> req[r].late \/ late]]

\* ... and takes the modules from their cache ...
CachedModules(r) ==
    /\ At(r, "check", "modules")
    /\ Fresh(mods, ModuleTTL)
    /\ perms' = Entry(r, mods.modules, mods.late)
    /\ End(r)
    /\ UNCHANGED <<rows, mods, lost>>

\* ... or from the control database.
ReadModules(r) ==
    /\ At(r, "check", "modules")
    /\ ~Fresh(mods, ModuleTTL)
    /\ req' = [req EXCEPT ![r].step = "store", ![r].modules = enabled]
    /\ UNCHANGED <<rows, perms, mods, lost>>

StoreModules(r) ==
    /\ At(r, "check", "store")
    /\ mods' = [modules |-> req[r].modules, age |-> 0, late |-> req[r].late]
    /\ perms' = Entry(r, req[r].modules, FALSE)
    /\ End(r)
    /\ UNCHANGED <<rows, lost>>

-------------------------------------------------------------------------------
(* Users and seats                                                         *)

\* create and update ask for a seat when the user becomes active.
BeginUser(r, u, to) ==
    /\ user[u] # to
    /\ Begin(r, [Idle EXCEPT !.op = "user", !.user = u, !.to = to,
                             !.step = IF to.active /\ u \notin Active THEN "limit" ELSE "commit"])
    /\ UNCHANGED <<rows, perms, mods, lost>>

\* assertSeatAvailable reads the limit of the last subscription ...
ReadLimit(r) ==
    /\ At(r, "user", "limit")
    /\ req' = [req EXCEPT ![r].step = IF maxUsers = None THEN "commit" ELSE "count",
                          ![r].limit = maxUsers]
    /\ UNCHANGED <<rows, perms, mods, lost>>

MutSeat(limit) == Cardinality(Active) <= limit

Seat(limit) == Cardinality(Active) < limit

\* ... and counts the active users.
CountSeats(r) ==
    /\ At(r, "user", "count")
    /\ IF Seat(req[r].limit) THEN req' = [req EXCEPT ![r].step = "commit"] ELSE End(r)
    /\ UNCHANGED <<rows, perms, mods, lost>>

\* Who goes by a count of the active users that has grown, or by u being active, once
\* u is what to says.
Outnumbered(u, to) ==
    {q \in Requests : /\ At(q, "user", "commit")
                      /\ IF to.active THEN u \notin Active ELSE req[q].user = u}

\* Checks of u have read u's row once they are at the roles, u's roles later.
CommitUser(r) ==
    LET u  == req[r].user
        to == req[r].to IN
    /\ At(r, "user", "commit")
    /\ user' = [user EXCEPT ![u] = to]
    /\ overtaken' = IF ~to.active THEN overtaken \ {u}
                    ELSE IF req[r].late /\ u \notin Active /\ maxUsers # None /\ ~Seat(maxUsers)
                    THEN overtaken \cup {u} ELSE overtaken
    /\ Committed(r, Checking({u}, {"roles", "modules", "store"}) \cup Outnumbered(u, to))
    /\ UNCHANGED <<grants, enabled, maxUsers, perms, mods>>
    /\ Lost

\* Who goes by a limit that n lowers.
Unlimited(n) ==
    {q \in Requests : /\ req[q].op = "user" /\ req[q].step \in {"count", "commit"} /\ n # None
                      /\ req[q].limit = None \/ n < req[q].limit}

\* The console changes the plan.
SetSubscription(n) ==
    /\ maxUsers # n
    /\ maxUsers' = n
    /\ overtaken' = IF n # None /\ n < Cardinality(Active) THEN overtaken \cup Active ELSE overtaken
    /\ req' = [q \in Requests |-> [req[q] EXCEPT !.late = @ \/ q \in Unlimited(n)]]
    /\ UNCHANGED <<user, grants, enabled, perms, mods, lost>>

-------------------------------------------------------------------------------
(* Roles and modules                                                       *)

\* save and remove check the role's name or kind.
BeginRole(r, o, to) ==
    /\ o # Admin
    /\ grants[o] # to
    /\ Begin(r, [Idle EXCEPT !.op = "role", !.step = "commit", !.role = o, !.to = to])
    /\ UNCHANGED <<rows, perms, mods, lost>>

CommitRole(r) ==
    /\ At(r, "role", "commit")
    /\ grants' = [grants EXCEPT ![req[r].role] = req[r].to]
    /\ Committed(r, Checking({u \in Known : req[r].role \in user[u].roles}, {"modules", "store"}))
    /\ UNCHANGED <<user, enabled, maxUsers, perms, mods, overtaken>>
    /\ Lost

BeginModules(r, to) ==
    /\ enabled # to
    /\ Begin(r, [Idle EXCEPT !.op = "modules", !.step = "commit", !.to = to, !.modules = Modules])
    /\ UNCHANGED <<rows, perms, mods, lost>>

\* TenantModulesService.set writes one module after the other.
WriteModule(r, m) ==
    LET left == req[r].modules \ {m} IN
    /\ At(r, "modules", "commit")
    /\ m \in req[r].modules
    /\ enabled' = IF m \in req[r].to THEN enabled \cup {m} ELSE enabled \ {m}
    /\ req' = [q \in Requests |->
                  IF q = r THEN [req[q] EXCEPT !.modules = left,
                                               !.step = IF left = {} THEN "invalidate" ELSE "commit"]
                  ELSE [req[q] EXCEPT !.late = @ \/ q \in Checking(Users, {"store"})]]
    /\ UNCHANGED <<user, grants, maxUsers, perms, mods, overtaken>>
    /\ Lost

MutDropped(r) == {req[r].user}

\* Whose entries a request drops after its commit.
Dropped(r) == IF req[r].op = "user" THEN {req[r].user} ELSE Users

\* The caches are invalidated after the commit.
Invalidate(r) ==
    /\ req[r].step = "invalidate"
    /\ perms' = [u \in Users |-> IF u \in Dropped(r) THEN None ELSE perms[u]]
    /\ mods' = IF req[r].op = "modules" THEN None ELSE mods
    /\ End(r)
    /\ UNCHANGED <<rows, lost>>

-------------------------------------------------------------------------------
(* Time and failure                                                        *)

Bound == PermTTL + ModuleTTL - 1

Older(entry, ttl) ==
    IF entry # None /\ entry.age < ttl THEN [entry EXCEPT !.age = @ + 1] ELSE entry

\* The next tick waits for the requests the last one has found waiting.
Tick ==
    /\ \A r \in Requests : req[r].waited = 0
    /\ perms' = [u \in Users |-> Older(perms[u], PermTTL)]
    /\ mods' = Older(mods, ModuleTTL)
    /\ lost' = [u \in Users |-> [p \in Permissions |-> [c \in Causes |->
                   LET n == lost[u][p][c] IN
                   IF c \in Missing(u, p) /\ n <= Bound THEN n + 1 ELSE n]]]
    /\ req' = [r \in Requests |-> IF req[r] = Idle THEN Idle ELSE [req[r] EXCEPT !.waited = 1]]
    /\ UNCHANGED rows

Late(entry) == IF entry = None THEN None ELSE [entry EXCEPT !.late = TRUE]

\* A query fails, before a commit; after some modules have been written this
\* leaves the caches as they are.
Fail(r) ==
    LET written == req[r].op = "modules" /\ req[r].modules # Modules IN
    /\ req[r].step \notin {"idle", "invalidate"}
    /\ perms' = [u \in Users |-> IF written THEN Late(perms[u]) ELSE perms[u]]
    /\ mods' = IF written THEN Late(mods) ELSE mods
    /\ End(r)
    /\ UNCHANGED <<rows, lost>>

\* The process ends and starts again.
Restart ==
    /\ req' = [r \in Requests |-> Idle]
    /\ perms' = [u \in Users |-> None]
    /\ mods' = None
    /\ UNCHANGED <<rows, lost>>

-------------------------------------------------------------------------------
(* The specification                                                       *)

Init ==
    /\ user = [u \in Users |-> None]
    /\ grants = [o \in Roles |-> IF o = Admin THEN Permissions ELSE {}]
    /\ enabled = Modules
    /\ maxUsers \in Limits
    /\ perms = [u \in Users |-> None]
    /\ mods = None
    /\ lost = [u \in Users |-> [p \in Permissions |-> [c \in Causes |-> 0]]]
    /\ overtaken = {}
    /\ req = [r \in Requests |-> Idle]

Check(r) ==
    \/ \E u \in Users : BeginCheck(r, u)
    \/ ReadUser(r) \/ ReadRoles(r) \/ CachedModules(r) \/ ReadModules(r) \/ StoreModules(r)

Write(r) ==
    \/ \E u \in Users, to \in User : BeginUser(r, u, to)
    \/ \E o \in Roles, to \in SUBSET Permissions : BeginRole(r, o, to)
    \/ \E to \in SUBSET Modules : BeginModules(r, to)
    \/ \E m \in Modules : WriteModule(r, m)
    \/ ReadLimit(r) \/ CountSeats(r) \/ CommitUser(r) \/ CommitRole(r) \/ Invalidate(r)

Next ==
    \/ \E r \in Requests : Check(r) \/ Write(r) \/ Fail(r)
    \/ \E n \in Limits : SetSubscription(n)
    \/ Tick
    \/ Restart

Spec == Init /\ [][Next]_vars

-------------------------------------------------------------------------------
(* Properties                                                              *)

\* The entry of u will be dropped by a request that has committed.
Invalidating(u) ==
    \E r \in Requests : /\ req[r].step = "invalidate" \/ req[r].op = "modules"
                       /\ u \in Dropped(r)

\* A permission that was taken from a user, a role or the company is refused at
\* once, unless what is cached was being read as it was taken or the invalidation
\* is still to come; and then it is refused when both caches have expired.
RevokedInTime ==
    \A u \in Users :
        Fresh(perms[u], PermTTL) /\ perms[u].active =>
            \A p \in perms[u].keys \ Effective(u) :
                /\ perms[u].late \/ Invalidating(u)
                /\ \A c \in Missing(u, p) : lost[u][p][c] <= Bound

\* No more users are active than the plan has seats, except those who were when it
\* was lowered, or activated by a request that had counted before another activated
\* one or the plan was lowered.
SeatsKept == maxUsers # None => Cardinality(Active \ overtaken) <= maxUsers

================================================================================
