------------------------------- MODULE Accounts -------------------------------
(***************************************************************************)
(* Browser tabs signed in to one account: AuthContext and apiClient of the *)
(* front end in each tab, the API between them and auth-service            *)
(* (AuthService).  The refresh token lives in sessionStorage: it survives  *)
(* a reload and is copied when a tab is duplicated.                        *)
(*                                                                         *)
(* A request is in a slot of its tab from fetchWithAuth to its answer; the *)
(* forms and the logout are served by auth-service, any other call only    *)
(* passes the guard of the API.                                            *)
(***************************************************************************)
EXTENDS AuthService

CONSTANT
    Scenarios       \* bound: what may be mixed in one behaviour

\* A scenario says what the users do, with which requests, which passwords they type,
\* whether the account exists already, and bounds the forms that are submitted, the faults (failing commands, crashes, timeouts, expiries) and
\* the reloads and duplications of tabs.
Operations == {"register", "login", "me", "logout", "forgot", "reset", "socket"}
ASSUME ScenarioAssumption ==
    Scenarios \subseteq [ops : SUBSET Operations, requests : SUBSET (Tabs \X Slots),
                         account : Passwords \cup {NoPassword}, typed : SUBSET Passwords,
                         forms : Nat, faults : Nat, reloads : Nat]

VARIABLES
    tab,            \* AuthContext of each tab
    req,            \* the requests in flight
    scenario,       \* what is left of the scenario
    calm            \* history: no logout, password reset, failure, timeout or expiry of a
                    \* lock, no page left in the middle of a refresh, no duplicated tab

clientVars == <<tab, req, scenario, calm>>
vars == <<authVars, clientVars>>

NoRequest == [pc |-> "idle", kind |-> "none", used |-> NoPair, retried |-> FALSE,
              pwd |-> NoPassword, link |-> NoLink]
\* access is accessTokenRef, stored the token in sessionStorage, user whether a profile
\* is shown, booting isBootstrapping, refreshing whether refreshPromiseRef is set.
SignedOut == [access |-> NoPair, stored |-> NoPair, user |-> FALSE, booting |-> FALSE,
              refreshing |-> FALSE]

Init ==
    /\ scenario \in Scenarios
    /\ AuthInit(scenario.account)
    /\ tab = [t \in Tabs |-> SignedOut]
    /\ req = [t \in Tabs |-> [s \in Slots |-> NoRequest]]
    /\ calm = TRUE

Forms == {"register", "login", "forgot", "reset"}
Served == Forms \cup {"logout"}
Protected == {"me", "boot", "logout"}

\* Mutant: the bootstrap goes on next to the profile.
Succeeded_StillBooting(c, kind, p) ==
    CASE kind \in {"register", "login"} -> [c EXCEPT !.access = p, !.stored = p, !.user = TRUE]
      [] kind = "boot" -> [c EXCEPT !.user = TRUE]
      [] kind = "logout" -> [c EXCEPT !.access = NoPair, !.stored = NoPair, !.user = FALSE]
      [] OTHER -> c

clearSession(c) == [c EXCEPT !.access = NoPair, !.stored = NoPair, !.user = FALSE]
applyTokens(c, p) == [c EXCEPT !.access = p, !.stored = p]

\* A request that has failed, for the caller: the bootstrap and the logout end with
\* clearSession, the forms show an error.
Failed(c, kind) ==
    CASE kind = "boot" -> [clearSession(c) EXCEPT !.booting = FALSE]
      [] kind = "logout" -> clearSession(c)
      [] OTHER -> c

\* One that has succeeded, with the tokens of a sign-in.
Succeeded(c, kind, p) ==
    CASE kind \in {"register", "login"} -> [applyTokens(c, p) EXCEPT !.user = TRUE]
      [] kind = "boot" -> [c EXCEPT !.user = TRUE, !.booting = FALSE]
      [] kind = "logout" -> clearSession(c)
      [] OTHER -> c

Submits == scenario.forms > 0 /\ scenario' = [scenario EXCEPT !.forms = @ - 1]
Faults == scenario.faults > 0 /\ scenario' = [scenario EXCEPT !.faults = @ - 1]
Reloads == scenario.reloads > 0 /\ scenario' = [scenario EXCEPT !.reloads = @ - 1]

Free(t, s) == req[t][s] = NoRequest
Done(t, s) == req' = [req EXCEPT ![t][s] = NoRequest]

-----------------------------------------------------------------------------
(* What the user does *)

\* fetchWithAuth: the request carries the access token the tab has now.
Send(t, s, kind, pwd, l) ==
    /\ Free(t, s) /\ <<t, s>> \in scenario.requests /\ kind \in scenario.ops \cup {"boot"}
    /\ req' = [req EXCEPT ![t][s] = [pc |-> "sent", kind |-> kind, used |-> tab[t].access,
                                     retried |-> FALSE, pwd |-> pwd, link |-> l]]
    /\ IF kind \in Forms THEN Submits ELSE UNCHANGED scenario
    /\ UNCHANGED <<authVars, tab, calm>>

\* The pages behind ProtectedRoute: calls of the API, and the logout of the header.
Browse(t, s) ==
    /\ tab[t].user
    /\ \E kind \in {"me", "logout"} : Send(t, s, kind, NoPassword, NoLink)

\* The pages behind GuestRoute; a form is submitted once at a time.
Submitting(t) == \E s \in Slots : req[t][s].kind \in Forms
SubmitLogin(t, s) ==
    /\ ~tab[t].user /\ ~tab[t].booting /\ ~Submitting(t)
    /\ \E pwd \in scenario.typed : Send(t, s, "login", pwd, NoLink)
SubmitRegister(t, s) ==
    /\ ~tab[t].user /\ ~tab[t].booting /\ ~Submitting(t)
    /\ \E pwd \in scenario.typed : Send(t, s, "register", pwd, NoLink)
SubmitForgotPassword(t, s) ==
    /\ ~tab[t].user /\ ~tab[t].booting /\ ~Submitting(t)
    /\ Send(t, s, "forgot", NoPassword, NoLink)
SubmitResetPassword(t, s) ==
    /\ ~tab[t].user /\ ~tab[t].booting /\ ~Submitting(t)
    /\ \E pwd \in scenario.typed, l \in mailbox : Send(t, s, "reset", pwd, l)

\* The page is loaded again: what was in memory is gone, and so is the tab for the
\* calls in progress.  Leaving a refresh half-way may end the session.
Reload(t) ==
    /\ Reloads
    /\ tab' = [tab EXCEPT ![t] = [SignedOut EXCEPT !.stored = tab[t].stored,
                                                   !.booting = tab[t].stored # NoPair]]
    /\ req' = [req EXCEPT ![t] = [s \in Slots |-> NoRequest]]
    /\ job' = [h \in Handlers |->
                 IF job[h].tab # t THEN job[h]
                 ELSE IF job[h].pc = "reply" THEN Idle ELSE [job[h] EXCEPT !.tab = NoTab]]
    /\ calm' = (calm /\ ~tab[t].refreshing)
    /\ UNCHANGED <<stored, redis, expired, mailbox, game, authHistory>>

\* The browser copies sessionStorage into a duplicated tab.
DuplicateTab(t, u) ==
    /\ Reloads
    /\ tab[t].stored # NoPair /\ tab[u] = SignedOut /\ \A s \in Slots : Free(u, s)
    /\ \E s \in Slots : <<u, s>> \in scenario.requests
    /\ tab' = [tab EXCEPT ![u].stored = tab[t].stored, ![u].booting = TRUE]
    /\ calm' = FALSE
    /\ UNCHANGED <<authVars, req>>

-----------------------------------------------------------------------------
(* AuthContext and apiClient *)

\* Mutant: the promise of a refresh in progress is not shared.
refreshPromise_Unshared(t) == FALSE

refreshPromise(t) == tab[t].refreshing

\* refreshAccessToken starts a refresh with the stored token.
StartRefresh(t, h) ==
    /\ ~refreshPromise(t) /\ tab[t].stored # NoPair
    /\ Serve(h, "refresh", t, NoSlot, tab[t].stored, NoPassword)

\* bootstrapSession: first a refresh ...
BootRefresh(t, h) ==
    /\ tab[t].booting /\ tab[t].access = NoPair /\ ~tab[t].refreshing
    /\ StartRefresh(t, h)
    /\ tab' = [tab EXCEPT ![t].refreshing = TRUE]
    /\ UNCHANGED <<stored, redis, expired, mailbox, game, origin, signedWith,
                   req, scenario, calm>>

\* ... then the profile.
BootProfile(t, s) ==
    /\ tab[t].booting /\ tab[t].access # NoPair /\ ~tab[t].refreshing
    /\ \A r \in Slots : req[t][r].kind # "boot"
    /\ Send(t, s, "boot", NoPassword, NoLink)

\* 401: once, and only with a token, the request tries a refresh.
Unauthorized(t, s) ==
    IF req[t][s].used # NoPair /\ ~req[t][s].retried
      THEN req' = [req EXCEPT ![t][s].pc = "unauthorized"] /\ UNCHANGED tab
      ELSE Done(t, s) /\ tab' = [tab EXCEPT ![t] = Failed(@, req[t][s].kind)]

\* The routes of AuthController: what each hands to auth-service, the token of the
\* logout being the bearer's.
AuthController(h, t, s) ==
    /\ req[t][s].kind \in {"register", "login", "logout"}
    /\ Serve(h, req[t][s].kind, t, s, req[t][s].used, req[t][s].pwd)
PasswordRoutes(h, t, s) ==
    \/ req[t][s].kind = "forgot" /\ Serve(h, "forgot", t, s, NoPair, NoPassword)
    \/ req[t][s].kind = "reset" /\ Serve(h, "reset", t, s, req[t][s].link, req[t][s].pwd)

\* The request reaches the API.  JwtAuthGuard and JwtStrategy.validate look at a
\* protected one; then it is answered, or handed to auth-service.
Dispatch(t, s) ==
    LET r == req[t][s] IN
    /\ r.pc = "sent"
    /\ \/ /\ r.kind \in Protected /\ ~VerifySession(r.used)
          /\ Unauthorized(t, s)
          /\ UNCHANGED <<authVars, calm>>
       \/ /\ r.kind \in Protected \ Served /\ VerifySession(r.used)
          /\ Done(t, s) /\ tab' = [tab EXCEPT ![t] = Succeeded(@, r.kind, NoPair)]
          /\ UNCHANGED <<authVars, calm>>
       \/ /\ r.kind \in Served /\ (r.kind \in Protected => VerifySession(r.used))
          /\ \E h \in Handlers : AuthController(h, t, s) \/ PasswordRoutes(h, t, s)
          /\ req' = [req EXCEPT ![t][s].pc = "serving"]
          /\ calm' = (calm /\ r.kind \notin {"logout", "reset"})
          /\ UNCHANGED <<stored, redis, expired, mailbox, game, origin, signedWith, tab>>
    /\ UNCHANGED scenario

\* After a 401 the request waits for the refresh of its tab, which it may have to
\* start; without a stored token the session is over.
RefreshAfter401(t, s) ==
    /\ req[t][s].pc = "unauthorized"
    /\ \/ /\ refreshPromise(t)
          /\ req' = [req EXCEPT ![t][s].pc = "joined"] /\ UNCHANGED <<tab, job, overlap>>
       \/ /\ ~refreshPromise(t) /\ tab[t].stored = NoPair
          /\ tab' = [tab EXCEPT ![t] = Failed(clearSession(@), req[t][s].kind)]
          /\ Done(t, s) /\ UNCHANGED <<job, overlap>>
       \/ /\ \E h \in Handlers : StartRefresh(t, h)
          /\ tab' = [tab EXCEPT ![t].refreshing = TRUE]
          /\ req' = [req EXCEPT ![t][s].pc = "joined"]
    /\ UNCHANGED <<stored, redis, expired, mailbox, game, origin, signedWith, scenario, calm>>

\* The requests that wait for the refresh are sent again, or fail with it.
AfterRefresh(t, p) ==
    req' = [req EXCEPT ![t] = [s \in Slots |->
              IF @[s].pc # "joined" THEN @[s]
              ELSE IF p = NoPair THEN NoRequest
              ELSE [@[s] EXCEPT !.pc = "sent", !.used = p, !.retried = TRUE]]]

\* Mutant: a failed refresh leaves its promise and the bootstrap behind.
RefreshEnds_NoFinally(t, status, p) ==
    IF status = 200
      THEN /\ tab' = [tab EXCEPT ![t] = [applyTokens(@, p) EXCEPT !.refreshing = FALSE]]
           /\ AfterRefresh(t, p)
      ELSE tab' = [tab EXCEPT ![t] = clearSession(@)] /\ AfterRefresh(t, NoPair)

\* The end of a refresh: the new tokens, or the session is cleared.
RefreshEnds(t, status, p) ==
    IF status = 200
      THEN /\ tab' = [tab EXCEPT ![t] = [applyTokens(@, p) EXCEPT !.refreshing = FALSE]]
           /\ AfterRefresh(t, p)
      ELSE /\ tab' = [tab EXCEPT ![t] = [clearSession(@) EXCEPT !.refreshing = FALSE, !.booting = FALSE]]
           /\ AfterRefresh(t, NoPair)

\* The end of a request auth-service has served.
ServedEnds(t, s, status, p) ==
    CASE status = 200 ->
           Done(t, s) /\ tab' = [tab EXCEPT ![t] = Succeeded(@, req[t][s].kind, p)]
      [] status = 401 -> Unauthorized(t, s)
      [] OTHER -> Done(t, s) /\ tab' = [tab EXCEPT ![t] = Failed(@, req[t][s].kind)]

Ends(h, status, p) ==
    IF job[h].op = "refresh" THEN RefreshEnds(job[h].tab, status, p)
    ELSE ServedEnds(job[h].tab, job[h].slot, status, p)

\* The answer of auth-service reaches the tab.
Receive(h) ==
    /\ job[h].pc = "reply"
    /\ Ends(h, job[h].res, job[h].out)
    /\ job' = [job EXCEPT ![h] = Idle]
    /\ UNCHANGED <<stored, redis, expired, mailbox, game, authHistory, scenario, calm>>

\* The API gives up after five seconds and answers 503; auth-service goes on.
Timeout(h) ==
    /\ Faults
    /\ job[h].pc \notin {"idle", "reply"} /\ job[h].tab # NoTab
    /\ Ends(h, httpStatus("DEADLINE_EXCEEDED"), NoPair)
    /\ job' = [job EXCEPT ![h].tab = NoTab]
    /\ calm' = FALSE
    /\ UNCHANGED <<stored, redis, expired, mailbox, game, authHistory>>

-----------------------------------------------------------------------------
\* The sockets of the tabs are opened with their access tokens.
OpenSocket(t) ==
    /\ tab[t].access # NoPair /\ "socket" \in scenario.ops /\ VerifyToken(tab[t].access)
    /\ UNCHANGED clientVars

\* Fifteen minutes have passed since the tab got its token.
TokenExpires(t) ==
    /\ tab[t].access # NoPair /\ AccessTokenExpires(tab[t].access)
    /\ UNCHANGED clientVars

Fault ==
    /\ Faults
    /\ \/ \E h \in Handlers : CommandFails(h) \/ UserServiceTimeout(h) \/ HandlerDies(h)
       \/ \E p \in Pairs : RotationExpires(p) \/ RefreshTokenExpires(p)
    /\ calm' = FALSE
    /\ UNCHANGED <<tab, req>>

Next ==
    \/ \E t \in Tabs, s \in Slots :
          \/ Browse(t, s) \/ SubmitLogin(t, s) \/ SubmitRegister(t, s)
          \/ SubmitForgotPassword(t, s) \/ SubmitResetPassword(t, s)
          \/ Dispatch(t, s) \/ RefreshAfter401(t, s) \/ BootProfile(t, s)
    \/ \E t \in Tabs : Reload(t) \/ OpenSocket(t) \/ TokenExpires(t)
    \/ \E t, u \in Tabs : DuplicateTab(t, u)
    \/ \E t \in Tabs, h \in Handlers : BootRefresh(t, h)
    \/ \E h \in Handlers : Receive(h) \/ Timeout(h)
    \/ \E h \in Handlers : HandlerStep(h) /\ UNCHANGED clientVars
    \/ \E p \in Pairs : (CacheVerified(p) \/ EntryExpires(p)) /\ UNCHANGED clientVars
    \/ Fault

Spec == Init /\ [][Next]_vars

\* Handlers, answers and the scripts of a page go on; entries of the cache get old.
FairSpec ==
    /\ Spec
    /\ \A h \in Handlers : WF_vars((HandlerStep(h) /\ UNCHANGED clientVars) \/ Receive(h))
    /\ \A t \in Tabs :
          /\ WF_vars(\E h \in Handlers : BootRefresh(t, h))
          /\ WF_vars(\E s \in Slots : BootProfile(t, s))
          /\ \A s \in Slots : WF_vars(Dispatch(t, s) \/ RefreshAfter401(t, s))
    /\ \A p \in Pairs : WF_vars((CacheVerified(p) \/ EntryExpires(p)) /\ UNCHANGED clientVars)

-----------------------------------------------------------------------------
(* Properties *)

JobType ==
    [op : Served \cup {"refresh", "none"},
     pc : {"idle", "reply", "findByEmail", "createUser", "verifyPassword", "issue", "findToken",
           "lock", "rotate", "cache", "await", "awaitLocked", "unlock", "blacklist", "snapshot",
           "revoke", "invalidate", "createLink", "mail", "deleteLink", "findLink", "consume",
           "updatePassword"},
     tab : Tabs \cup {NoTab}, slot : Slots \cup {NoSlot}, tok : Pairs \cup Links \cup {NoPair},
     pwd : Passwords \cup {NoPassword}, seen : SUBSET Pairs,
     res : {0, 200, 401, 409, 503}, out : Pairs \cup {NoPair}]

\* The rows, the keys, the handlers and the tabs have their types; a tab that shows a
\* user is not bootstrapping, and only issued pairs are anywhere.
TypeOK ==
    /\ password \in Passwords \cup {NoPassword}
    /\ row \in [Pairs -> {"absent", "live", "revoked", "expired"}]
    /\ expired \cup blacklist \cup checking \cup verified \subseteq 1..(NextPair - 1)
    /\ rotation \in [Pairs -> 0..(NextPair - 1)] /\ rotationLock \subseteq Pairs
    /\ link \in [Links -> {"absent", "live", "used", "deleted"}] /\ mailbox \subseteq Links
    /\ job \in [Handlers -> JobType]
    /\ tab \in [Tabs -> [access : 0..(NextPair - 1), stored : 0..(NextPair - 1), user : BOOLEAN,
                         booting : BOOLEAN, refreshing : BOOLEAN]]
    /\ \A t \in Tabs : ~(tab[t].user /\ tab[t].booting)

\* A sign-in has at most one live refresh token, although rotations of the same token
\* run concurrently and the lock between them may expire: each token is replaced once.
OneLiveTokenPerSignIn ==
    \A p, q \in Pairs : row[p] = "live" /\ row[q] = "live" /\ origin[p] = origin[q] => p = q

\* As long as nobody signs out or resets the password, nothing fails, no page is left in
\* the middle of a refresh and no tab is duplicated, the token a tab keeps is the live one,
\* or is being replaced: two requests of a tab that meet an expired access token together
\* share its refreshPromise and never present a token twice.  (A duplicated tab has a copy
\* of the token: the second tab to present it, after the first has rotated it, is taken for
\* a thief and every session is revoked.  What the lock and the cache of auth-service do
\* for two tabs is OneLiveTokenPerSignIn's matter only.)
SessionSurvivesRotation ==
    calm => \A t \in Tabs :
              tab[t].stored # NoPair => row[tab[t].stored] = "live" \/ tab[t].refreshing

\* Once the password has been reset no session is alive that was opened with another
\* one, unless it was being opened or rotated during the reset.
ResetEndsOldSessions ==
    ~overlap /\ (\A h \in Handlers : ~Resetting(h))
    => \A p \in Pairs : row[p] = "live" => signedWith[p] = password

\* A blacklisted access token is refused for good some time after, although the cache
\* of game-service is not told and an answer may be on its way.
RevokedIsRefused == \A p \in Pairs : p \in blacklist ~> [](p \notin verified \cup checking)

\* A page that restores its session ends up signed in or signed out, whatever fails (as
\* long as the bound leaves a pair to rotate to).
BootEnds == \A t \in Tabs : tab[t].booting ~> ~tab[t].booting \/ ~Room("refresh")
====
