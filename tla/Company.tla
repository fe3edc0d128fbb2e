-------------------------------- MODULE Company --------------------------------
(***************************************************************************)
(* What stands between a browser and the data of a company, side by side:  *)
(* how a request finds the company's database (Tenancy), what its user may *)
(* do there (Access), and whether a tab is signed in at all (Sessions).    *)
(* The three are decided apart, each by rows and caches of its own, so a   *)
(* step is one of theirs; what they promise each holds whatever the other  *)
(* two do.                                                                 *)
(***************************************************************************)
EXTENDS Tenancy

\* Of Access, within one company.
CONSTANTS Users, Roles, Permissions, Modules, ModuleOf, Admin, Limits, PermTTL, ModuleTTL
VARIABLES user, grants, enabled, maxUsers, perms, mods, lost, overtaken,
          act  \* act[r]: what request r is doing about rights

\* Of Sessions, of one user and one browser.
CONSTANTS Tabs, Calls, AccessTTL, RefreshTTL, MaxVersion
VARIABLES active, version, cookie, storage, memory, call, age, signedOut

accessVars  == <<user, grants, enabled, maxUsers, perms, mods, lost, overtaken, act>>
sessionVars == <<active, version, cookie, storage, memory, call, age, signedOut>>
company     == <<vars, accessVars, sessionVars>>

A == INSTANCE Access WITH req <- act
W == INSTANCE Sessions

ASSUME CompanyAssumption == A!Assumptions /\ A!TimesAssumption /\ W!Assumptions

CompanyInit == Init /\ A!Init /\ W!Init

CompanyNext ==
    \/ Next /\ UNCHANGED <<accessVars, sessionVars>>
    \/ A!Next /\ UNCHANGED <<vars, sessionVars>>
    \/ W!Next /\ UNCHANGED <<vars, accessVars>>

CompanySpec == CompanyInit /\ [][CompanyNext]_company

-------------------------------------------------------------------------------
(* Properties                                                              *)

\* A permission that was taken is refused once the caches have expired (permission-cache,
\* tenant-modules).
RevokedInTime == A!RevokedInTime

\* No more users are active than the plan has seats (assertSeatAvailable).
SeatsKept == A!SeatsKept

\* Sessions end when they are revoked, signed out or expired (auth.service, api-client).
SessionsEnd == W!SessionsEnd

================================================================================
