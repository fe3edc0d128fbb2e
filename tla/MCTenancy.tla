------------------------------- MODULE MCTenancy -------------------------------
(* Company in parts, of which the first state takes one, in the variable    *)
(* part, and in which the others stay as they are: two companies and a      *)
(* single pool, one of which is there from the start; a user, a role and a  *)
(* permission of a module; two users for one or two seats; and two tabs of  *)
(* a browser, with two calls, of a user whose tokens are revoked once.      *)
EXTENDS Company, TLC

CONSTANTS t1, t2, u1, u2, o1, p1, m1, b1, b2, r1, r2

VARIABLE part

MCModuleOf == (p1 :> m1)

MCInit ==
    /\ part \in {"pools", "rights", "seats", "sessions"}
    /\ CompanyInit
    /\ part # "seats" => maxUsers = None

MCNext ==
    /\ UNCHANGED part
    /\ \/ part = "pools" /\ Next /\ UNCHANGED <<accessVars, sessionVars>>
       \/ part \in {"rights", "seats"} /\ A!Next /\ UNCHANGED <<vars, sessionVars>>
       \/ part = "sessions" /\ W!Next /\ UNCHANGED <<vars, accessVars>>

MCSpec == MCInit /\ [][MCNext]_<<company, part>>

\* An entry of a cache that is not fresh is never used: it counts as none. Neither is
\* a refresh token that has expired or been revoked, of an access token that has expired
\* only this is known, and of a refresh token that was accepted only its version.
Usable(token) == token # None /\ token.left > 0
Refresher(token) == IF Usable(token) /\ W!Current(token) THEN token ELSE None
Accepted(token) == [token EXCEPT !.left = 0]
Bearer(token) == IF token = None \/ Usable(token) THEN token ELSE [left |-> 0, ver |-> 0]

MCView ==
    CASE part = "pools" ->
           <<part, rows, pools, alive, pending, req,
             [t \in Tenants |-> IF Fresh(t) THEN meta[t] ELSE None]>>
      [] part = "rights" ->
           <<part, user, grants, enabled, lost[u1], act,
             IF A!Fresh(perms[u1], PermTTL) THEN perms[u1] ELSE None,
             IF A!Fresh(mods, ModuleTTL) THEN mods ELSE None>>
      [] part = "seats" -> <<part, user, maxUsers, overtaken, act>>
      [] part = "sessions" ->
           <<part, active, version, age, signedOut, Refresher(cookie), Bearer(storage),
             [b \in Tabs |-> Bearer(memory[b])],
             [c \in Calls |-> [call[c] EXCEPT !.token = Bearer(@),
                    !.cookie = IF call[c].step = "verified" THEN Accepted(@) ELSE Refresher(@)]]>>

\* In "rights" there is one user and no subscription, one request writes at a time, and
\* a permission is missing for one or two causes, not for all three; in "seats" users
\* have no roles, and requests are about users alone.
MCScenario ==
    /\ part = "rights" =>
         /\ user[u2] = None /\ maxUsers = None
         /\ \A r \in Requests : act[r].user # u2
         /\ \E q \in Requests : \A r \in Requests \ {q} : act[r].op \in {None, "check"}
         /\ user[u1] # None => Cardinality(A!Missing(u1, p1)) <= 2
    /\ part = "seats" =>
         /\ maxUsers # None
         /\ \A r \in Requests :
               /\ act[r].op \in {None, "user"}
               /\ act[r].op = "user" => act[r].to.roles = {}

MCSymmetry == Permutations(Requests) \cup Permutations({b1, b2})
================================================================================
