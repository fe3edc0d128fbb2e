-------------------------------- MODULE Sessions --------------------------------
(***************************************************************************)
(* The sessions of one user in the tabs of one browser: what the API issues *)
(* and revokes (auth/auth.service.ts, auth/auth.controller.ts) and what the *)
(* web application keeps, renews and drops (web/lib/api.ts).                *)
(*                                                                         *)
(* The browser's cookie holds the refresh token and its local storage the  *)
(* session; a tab keeps the session in memory as well and does not look at *)
(* the storage again. Time passes in ticks: an answer may take any time,   *)
(* but the API reads the user's row and issues tokens for it within a tick. *)
(*                                                                         *)
(* An operator Mut... is a defective variant of the definition after it,   *)
(* which a run must tell from the real one; no other definition uses it.   *)
(***************************************************************************)
EXTENDS Naturals

CONSTANTS Tabs, Calls,
          AccessTTL,   \* config.accessTokenTtlSeconds in ticks
          RefreshTTL,  \* config.refreshTokenTtlDays in ticks
          MaxVersion,  \* a bound: how often the user's tokens are revoked
          None

\* left: ticks until it expires; ver: the tokenVersion it was issued for, which an
\* access token does not carry (history there).
Tokens == [left : Nat, ver : Nat]

Assumptions ==
    /\ {AccessTTL, RefreshTTL, MaxVersion} \subseteq Nat
    /\ None \notin Tokens

VARIABLES active, version,  \* the user's row
          cookie,           \* None, or the refresh token the browser holds
          storage,          \* None, or the access token of the stored session
          memory,           \* memory[t]: None, or that of the session tab t keeps
          call,             \* call[c]: what call c of a tab is doing
          age,              \* age[v]: ticks since version v was replaced (history)
          signedOut         \* signedOut[t]: whether tab t has signed out since the last
                            \* sign-in, and the API has heard of it (history)

browser == <<cookie, storage, memory>>
vars == <<active, version, browser, call, age, signedOut>>

-------------------------------------------------------------------------------
(* Tokens and what a tab keeps                                             *)

Token(ttl, v) == [left |-> ttl, ver |-> v]

\* The versions a row that was read in this tick may say.
Recent == {v \in 0 .. version : v = version \/ age[v] = 0}

\* getSession reads the storage once.
Session(t) == IF memory[t] # None THEN memory[t] ELSE storage
Loaded(t) == memory' = [memory EXCEPT ![t] = Session(t)]

SetSession(t, token) == memory' = [memory EXCEPT ![t] = token] /\ storage' = token

\* tab: its tab; token: the access token it is sent with, or its refresh has got;
\* cookie: the refresh token its refresh is sent with, or has got; retry: a 401 makes
\* it refresh; heard: the API has signed the user out, and nobody has signed in since;
\* early: its refresh was under way as a tab signed out (both history).
Idle == [step |-> "idle", op |-> None, tab |-> None, token |-> None, cookie |-> None,
         retry |-> TRUE, heard |-> FALSE, early |-> FALSE]

Ops == {"api", "download", "logout"}

UnderWay == {"refresh", "verified", "renewed", "refused"}

\* The refresh the calls of a tab share; a download has one of its own.
Refreshing(t) == \E c \in Calls : /\ call[c].tab = t /\ call[c].step \in UnderWay
                                 /\ call[c].op # "download"

\* Who waits for the refresh of c.
Sharing(c) ==
    IF call[c].op = "download" THEN {c}
    ELSE {c} \cup {d \in Calls : call[d].step = "wait" /\ call[d].tab = call[c].tab}

SignsOut(C) == \E c \in C : call[c].op = "logout"

\* The calls of C end without an answer the tab can use; the layout drops the session
\* after a sign-out whatever its result, api() when its refresh was refused.
Ended(t, C, dropped) ==
    /\ call' = [c \in Calls |->
                   IF c \in C THEN Idle
                   ELSE IF SignsOut(C) /\ call[c].step \in UnderWay
                        THEN [call[c] EXCEPT !.early = TRUE] ELSE call[c]]
    /\ IF dropped \/ SignsOut(C) THEN SetSession(t, None) ELSE UNCHANGED <<memory, storage>>
    /\ signedOut' =
          IF SignsOut(C)
          THEN [signedOut EXCEPT ![t] = IF \E c \in C : call[c].heard THEN "heard" ELSE "unheard"]
          ELSE signedOut

-------------------------------------------------------------------------------
(* Signing in and calling                                                  *)

\* AuthService.login: the row it has read may say v, and tokens have been revoked since.
SignIn(t, v) ==
    /\ active
    /\ cookie' = Token(RefreshTTL, v)
    /\ SetSession(t, Token(AccessTTL, v))
    /\ signedOut' = [s \in Tabs |-> "no"]
    /\ call' = [c \in Calls |-> [call[c] EXCEPT !.heard = FALSE]]
    /\ UNCHANGED <<active, version, age>>

\* api, fetchFile, fetchBlobUrl and the layout's logout.
Start(c, t, op) ==
    /\ call[c] = Idle
    /\ Session(t) # None
    /\ call' = [call EXCEPT ![c] = [Idle EXCEPT !.step = "sent", !.op = op, !.tab = t, !.token = Session(t)]]
    /\ Loaded(t)
    /\ UNCHANGED <<active, version, cookie, storage, age, signedOut>>

\* The user's tokens are revoked.
Revoke == /\ version < MaxVersion
          /\ version' = version + 1
          /\ age' = [age EXCEPT ![version] = 0]

\* The guard accepts the token (of an inactive user too where a route asks for no
\* permission, or the permissions are cached).
Serve(c) ==
    /\ call[c].step = "sent"
    /\ call[c].token.left > 0
    /\ IF call[c].op = "logout"
       THEN /\ Revoke
            /\ call' = [call EXCEPT ![c].step = "served", ![c].token = None, ![c].heard = TRUE]
       ELSE /\ call' = [call EXCEPT ![c] = Idle]
            /\ UNCHANGED <<version, age>>
    /\ UNCHANGED <<active, browser, signedOut>>

\* The answer to a sign-out clears the cookie.
SignedOut(c) ==
    /\ call[c].step = "served"
    /\ cookie' = None
    /\ Ended(call[c].tab, {c}, FALSE)
    /\ UNCHANGED <<active, version, age>>

\* A token that has expired; an inactive user, where a permission is asked for.
Deny(c) ==
    /\ call[c].step = "sent"
    /\ call[c].token.left = 0 \/ (~active /\ call[c].op # "logout")
    /\ call' = [call EXCEPT ![c].step = "denied", ![c].token = None]
    /\ UNCHANGED <<active, version, browser, age, signedOut>>

-------------------------------------------------------------------------------
(* Refreshing                                                              *)

\* A 401 arrives: the first refresh of the tab is sent, with the cookie, ...
Refresh(c) ==
    LET t == call[c].tab IN
    /\ call[c].step = "denied" /\ call[c].retry
    /\ Session(t) # None
    /\ call[c].op = "download" \/ ~Refreshing(t)
    /\ call' = [call EXCEPT ![c].step = "refresh", ![c].cookie = cookie]
    /\ Loaded(t)
    /\ UNCHANGED <<active, version, cookie, storage, age, signedOut>>

\* ... or the call waits for it ...
Wait(c) ==
    /\ call[c].step = "denied" /\ call[c].retry
    /\ call[c].op # "download" /\ Refreshing(call[c].tab)
    /\ call' = [call EXCEPT ![c].step = "wait"]
    /\ UNCHANGED <<active, version, browser, age, signedOut>>

\* ... or fails: it has been retried, or there is no session to refresh any more.
GiveUp(c) ==
    LET t == call[c].tab IN
    /\ call[c].step = "denied"
    /\ \/ ~call[c].retry
       \/ Session(t) = None /\ (call[c].op = "download" \/ ~Refreshing(t))
    /\ Ended(t, {c}, call[c].retry /\ call[c].op # "download")
    /\ UNCHANGED <<active, version, cookie, age>>

MutCurrent(token) == TRUE

Current(token) == token.ver = version

\* AuthService.refresh reads the user's row ...
Verify(c) ==
    LET accepted == /\ call[c].cookie # None /\ call[c].cookie.left > 0
                    /\ active /\ Current(call[c].cookie) IN
    /\ call[c].step = "refresh"
    /\ call' = IF accepted
               THEN [call EXCEPT ![c].step = "verified"]
               ELSE [call EXCEPT ![c].step = "refused", ![c].cookie = None]
    /\ UNCHANGED <<active, version, browser, age, signedOut>>

\* ... and issues tokens for the version it said.
Issue(c) ==
    LET v == call[c].cookie.ver IN
    /\ call[c].step = "verified"
    /\ call' = [call EXCEPT ![c].step = "renewed", ![c].token = Token(AccessTTL, v),
                            ![c].cookie = Token(RefreshTTL, v)]
    /\ UNCHANGED <<active, version, browser, age, signedOut>>

\* The session it was sent for is written with the new token, and the calls that
\* waited are sent again.
Renewed(c) ==
    /\ call[c].step = "renewed"
    /\ cookie' = call[c].cookie
    /\ SetSession(call[c].tab, call[c].token)
    /\ call' = [d \in Calls |->
                   IF d \in Sharing(c)
                   THEN [Idle EXCEPT !.step = "sent", !.op = call[d].op, !.tab = call[d].tab,
                                     !.token = call[c].token, !.retry = FALSE]
                   ELSE call[d]]
    /\ signedOut' = [t \in Tabs |->
          IF call[c].early \/ (signedOut[t] = "unheard" /\ t # call[c].tab) THEN "no" ELSE signedOut[t]]
    /\ UNCHANGED <<active, version, age>>

Refused(c) ==
    /\ call[c].step = "refused"
    /\ Ended(call[c].tab, Sharing(c), call[c].op # "download")
    /\ UNCHANGED <<active, version, cookie, age>>

\* The connection of a call fails, before or after the API has dealt with it.
Lose(c) ==
    /\ call[c].step \notin {"idle", "wait"}
    /\ Ended(call[c].tab, IF call[c].step \in UnderWay THEN Sharing(c) ELSE {c}, FALSE)
    /\ UNCHANGED <<active, version, cookie, age>>

-------------------------------------------------------------------------------
(* The rest of the world                                                   *)

\* A tab is closed, and opened again.
Reload(t) ==
    /\ memory' = [memory EXCEPT ![t] = None]
    /\ call' = [c \in Calls |-> IF call[c].tab = t THEN Idle ELSE call[c]]
    /\ UNCHANGED <<active, version, cookie, storage, age, signedOut>>

\* The user's password is changed, or the user signs out on another computer.
ChangePassword ==
    /\ Revoke
    /\ UNCHANGED <<active, browser, call, signedOut>>

SetActive ==
    /\ active' = ~active
    /\ UNCHANGED <<version, browser, call, age, signedOut>>

Older(token) == IF token = None \/ token.left = 0 THEN token ELSE [token EXCEPT !.left = @ - 1]

Tick ==
    /\ \A c \in Calls : call[c].step # "verified"
    /\ cookie' = Older(cookie)
    /\ storage' = Older(storage)
    /\ memory' = [t \in Tabs |-> Older(memory[t])]
    /\ call' = [c \in Calls |-> [call[c] EXCEPT !.token = Older(@), !.cookie = Older(@)]]
    /\ age' = [v \in DOMAIN age |-> IF v < version /\ age[v] < AccessTTL THEN age[v] + 1 ELSE age[v]]
    /\ UNCHANGED <<active, version, signedOut>>

-------------------------------------------------------------------------------
(* The specification                                                       *)

Init ==
    /\ active = TRUE /\ version = 0
    /\ cookie = None /\ storage = None
    /\ memory = [t \in Tabs |-> None]
    /\ call = [c \in Calls |-> Idle]
    /\ age = [v \in 0 .. MaxVersion |-> 0]
    /\ signedOut = [t \in Tabs |-> "no"]

Next ==
    \/ \E t \in Tabs : Reload(t) \/ \E v \in Recent : SignIn(t, v)
    \/ \E c \in Calls, t \in Tabs, op \in Ops : Start(c, t, op)
    \/ \E c \in Calls : \/ Serve(c) \/ SignedOut(c) \/ Deny(c)
                        \/ Refresh(c) \/ Wait(c) \/ GiveUp(c)
                        \/ Verify(c) \/ Issue(c) \/ Renewed(c) \/ Refused(c) \/ Lose(c)
    \/ ChangePassword \/ SetActive
    \/ Tick

Spec == Init /\ [][Next]_vars

-------------------------------------------------------------------------------
(* Properties                                                              *)

\* Every access token there is.
Held == ({storage} \cup {memory[t] : t \in Tabs} \cup {call[c].token : c \in Calls}) \ {None}

\* When the user's tokens have been revoked (signing out, a changed password) no
\* session outlives the access token it then had: none is renewed from the cookie.
RevokedEnd ==
    \A token \in Held :
        token.ver < version /\ token.left > 0 =>
            token.left + age[token.ver] <= AccessTTL

\* A tab that has signed out stays signed out until someone signs in, in any tab,
\* unless a refresh that was under way writes its session back, or the API has not
\* heard of the sign-out and another tab refreshes.
SignedOutStays == \A t \in Tabs : signedOut[t] # "no" => Session(t) = None

SessionsEnd == RevokedEnd /\ SignedOutStays

================================================================================
