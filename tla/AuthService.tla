----------------------------- MODULE AuthService -----------------------------
(***************************************************************************)
(* The server side of one account: auth-service (AuthService and its gRPC  *)
(* controller), the tables of user-service it reaches by gRPC, Redis, and  *)
(* the cache of verified tokens in game-service.                           *)
(*                                                                         *)
(* A pair is the access token and the refresh token that are issued        *)
(* together, at sign-in or by a rotation.  A handler runs one gRPC call; a *)
(* step is one command to PostgreSQL, Redis or user-service.  Under READ   *)
(* COMMITTED an UPDATE only sees the rows committed when it starts, so     *)
(* revoking all the tokens of a user takes two steps.                      *)
(***************************************************************************)
EXTENDS Naturals, FiniteSets

CONSTANTS
    Handlers,       \* calls in progress at the same time
    Tabs, Slots,    \* browser tabs, and the requests each can have in flight
    NoTab, NoSlot,
    Passwords, NoPassword,
    MaxPairs,       \* bound: pairs of tokens that are issued
    MaxLinks        \* bound: password reset links that are issued

ASSUME AccountAssumption ==
    /\ IsFiniteSet(Handlers) /\ NoTab \notin Tabs /\ NoSlot \notin Slots /\ NoPassword \notin Passwords
    /\ MaxPairs \in Nat /\ MaxLinks \in Nat

VARIABLES
    password,       \* users.password_hash, NoPassword before the account exists
    row,            \* refresh_tokens
    expired,        \* pairs whose access token has expired
    blacklist,      \* blacklist:jwt:{jti}
    rotation,       \* refresh:rotation:{hash}: the pair that replaced it, or NoPair
    rotationLock,   \* refresh:lock:{hash}
    link,           \* password_reset_tokens
    mailbox,        \* reset links that reached the owner of the account
    job,            \* the gRPC call in each handler
    checking,       \* tokens auth-service called valid, the answer on its way
    verified,       \* AuthTokenCacheService of a game-service instance
    origin,         \* history: the sign-in a pair descends from
    signedWith,     \* history: the password of that sign-in
    overlap         \* history: a pair was being issued during a password reset

Pairs == 1..MaxPairs
NoPair == 0
Links == 1..MaxLinks
NoLink == 0
stored == <<password, row, link>>
redis == <<blacklist, rotation, rotationLock>>
game == <<checking, verified>>
authHistory == <<origin, signedWith, overlap>>
authVars == <<stored, redis, expired, mailbox, job, game, authHistory>>

Idle ==
    [op |-> "none", pc |-> "idle", tab |-> NoTab, slot |-> NoSlot, tok |-> NoPair,
     pwd |-> NoPassword, seen |-> {}, res |-> 0, out |-> NoPair]

\* The account as it was registered, or none.
AuthInit(account) ==
    /\ password = account
    /\ row = [p \in Pairs |-> "absent"]
    /\ expired = {} /\ blacklist = {}
    /\ rotation = [p \in Pairs |-> NoPair] /\ rotationLock = {}
    /\ link = [l \in Links |-> "absent"] /\ mailbox = {}
    /\ job = [h \in Handlers |-> Idle]
    /\ checking = {} /\ verified = {}
    /\ origin = [p \in Pairs |-> NoPair]
    /\ signedWith = [p \in Pairs |-> NoPassword]
    /\ overlap = FALSE

-----------------------------------------------------------------------------
(* Calls and answers *)

At(h, op, pc) == job[h].op = op /\ job[h].pc = pc
Goto(h, pc) == job' = [job EXCEPT ![h].pc = pc]

\* The gRPC status of an exception of AuthService ...
toRpcException(error) ==
    CASE error = "Conflict" -> "ALREADY_EXISTS"
      [] error = "Unauthorized" -> "UNAUTHENTICATED"
      [] error = "ServiceUnavailable" -> "UNAVAILABLE"
      [] OTHER -> "INTERNAL"

\* ... and the HTTP status the API makes of it.
httpStatus(code) ==
    CASE code = "OK" -> 200
      [] code = "ALREADY_EXISTS" -> 409
      [] code = "UNAUTHENTICATED" -> 401
      [] OTHER -> 503

\* The handler is done; nobody waits for the answer of a call that timed out.
Answer(h, code, out) ==
    job' = [job EXCEPT ![h] =
              IF @.tab = NoTab THEN Idle
              ELSE [@ EXCEPT !.pc = "reply", !.seen = {}, !.res = httpStatus(code), !.out = out]]
Return(h, out) == Answer(h, "OK", out)
Throw(h, error) == Answer(h, toRpcException(error), NoPair)

IssuingOps == {"register", "login", "refresh"}
Issuing(h) == job[h].op \in IssuingOps /\ job[h].pc # "reply" /\ job[h].out = NoPair
Resetting(h) == job[h].op = "reset" /\ job[h].pc \in {"revoke", "updatePassword"}

NextPair == Cardinality({p \in Pairs : row[p] # "absent"}) + 1
NextLink == Cardinality({l \in Links : link[l] # "absent"}) + 1
\* The bounds leave room for what the call may issue.
Room(op) ==
    CASE op \in IssuingOps -> NextPair + Cardinality({h \in Handlers : Issuing(h)}) <= MaxPairs
      [] op = "forgot" ->
           NextLink + Cardinality({h \in Handlers : job[h].op = "forgot"}) <= MaxLinks
      [] OTHER -> TRUE

FirstStep(op) ==
    CASE op = "register" -> "findByEmail" [] op = "login" -> "verifyPassword"
      [] op = "refresh" -> "findToken"    [] op = "logout" -> "blacklist"
      [] op = "forgot" -> "findByEmail"   [] op = "reset" -> "findLink"

\* A handler of the gRPC controller starts AuthService's method.
Serve(h, op, t, s, tok, pwd) ==
    /\ job[h] = Idle /\ Room(op)
    /\ job' = [job EXCEPT ![h] = [Idle EXCEPT !.op = op, !.pc = FirstStep(op), !.tab = t,
                                              !.slot = s, !.tok = tok, !.pwd = pwd]]
    /\ overlap' = (overlap \/ (op \in IssuingOps /\ \E g \in Handlers : Resetting(g)))

-----------------------------------------------------------------------------
(* register and login *)

\* The methods of user-service: whether the address has an account, whether it could be
\* created (the unique index on the address decides; the rating row is part of the same
\* transaction), whether the password is the account's.
findByEmail == password # NoPassword
createUser == IF password = NoPassword THEN "OK" ELSE "ALREADY_EXISTS"
verifyPassword(pwd) == findByEmail /\ pwd = password

\* UserService.findByEmail, asked by register and requestPasswordReset: a registration is
\* refused, a reset for an unknown address answers as if it were known.
FindByEmail(h) ==
    /\ job[h].pc = "findByEmail"
    /\ CASE At(h, "register", "findByEmail") /\ ~findByEmail -> Goto(h, "createUser")
         [] At(h, "register", "findByEmail") /\ findByEmail -> Throw(h, "Conflict")
         [] At(h, "forgot", "findByEmail") /\ findByEmail -> Goto(h, "invalidate")
         [] At(h, "forgot", "findByEmail") /\ ~findByEmail -> Return(h, NoPair)
    /\ UNCHANGED <<stored, redis, expired, mailbox, game, authHistory>>

\* One of two registrations of the same address is refused here.
CreateUser(h) ==
    /\ At(h, "register", "createUser")
    /\ IF createUser = "OK"
         THEN password' = job[h].pwd /\ Goto(h, "issue")
         ELSE Throw(h, "Conflict") /\ UNCHANGED password
    /\ UNCHANGED <<row, link, redis, expired, mailbox, game, authHistory>>

\* login
VerifyPassword(h) ==
    /\ At(h, "login", "verifyPassword")
    /\ IF verifyPassword(job[h].pwd) THEN Goto(h, "issue") ELSE Throw(h, "Unauthorized")
    /\ UNCHANGED <<stored, redis, expired, mailbox, game, authHistory>>

\* The row of a new pair, and the sign-in it belongs to.
Create(p, from, pwd) ==
    /\ origin' = [origin EXCEPT ![p] = from]
    /\ signedWith' = [signedWith EXCEPT ![p] = pwd]

\* issueTokensForUser
IssueTokensForUser(h) ==
    /\ job[h].op \in {"register", "login"} /\ job[h].pc = "issue"
    /\ row' = [row EXCEPT ![NextPair] = "live"]
    /\ Create(NextPair, NextPair, job[h].pwd)
    /\ Return(h, NextPair)
    /\ UNCHANGED <<password, link, redis, expired, mailbox, game, overlap>>

-----------------------------------------------------------------------------
(* refresh *)

\* The row of the presented token: a revoked one means that all are revoked.
FindToken(h) ==
    /\ At(h, "refresh", "findToken")
    /\ CASE row[job[h].tok] = "live" -> Goto(h, "lock")
         [] row[job[h].tok] = "revoked" -> Goto(h, "snapshot")
         [] row[job[h].tok] = "expired" -> Throw(h, "Unauthorized")
    /\ UNCHANGED <<stored, redis, expired, mailbox, game, authHistory>>

\* SET NX of the lock of this token.
LockRotation(h) ==
    /\ At(h, "refresh", "lock")
    /\ rotationLock' = rotationLock \cup {job[h].tok}
    /\ Goto(h, IF job[h].tok \in rotationLock THEN "await" ELSE "rotate")
    /\ UNCHANGED <<stored, blacklist, rotation, expired, mailbox, game, authHistory>>

\* Mutant: updateMany without revokedAt: null.
StillLive_Any(tok) == row[tok] # "expired"

\* The condition of updateMany on the presented token.
StillLive(tok) == row[tok] = "live"

\* The transaction that revokes the token and creates its successor.
Rotate(h) ==
    LET tok == job[h].tok IN
    /\ At(h, "refresh", "rotate")
    /\ \/ /\ StillLive(tok)
          /\ row' = [row EXCEPT ![tok] = "revoked", ![NextPair] = "live"]
          /\ Create(NextPair, origin[tok], signedWith[tok])
          /\ job' = [job EXCEPT ![h].pc = "cache", ![h].out = NextPair]
       \/ /\ ~StillLive(tok)
          /\ Goto(h, "awaitLocked")
          /\ UNCHANGED <<row, origin, signedWith>>
    /\ UNCHANGED <<password, link, redis, expired, mailbox, game, overlap>>

\* cacheRotation
CacheRotation(h) ==
    /\ At(h, "refresh", "cache")
    /\ rotation' = [rotation EXCEPT ![job[h].tok] = job[h].out]
    /\ Goto(h, "unlock")
    /\ UNCHANGED <<stored, blacklist, rotationLock, expired, mailbox, game, authHistory>>

\* waitForCachedRotation, with the lock or without it: the pair another handler has
\* cached, or none after ten looks.
WaitForCachedRotation(h) ==
    LET found == rotation[job[h].tok] IN
    /\ job[h].pc \in {"await", "awaitLocked"}
    /\ IF job[h].pc = "awaitLocked"
         THEN job' = [job EXCEPT ![h].pc = "unlock", ![h].out = found]
         ELSE IF found # NoPair THEN Return(h, found) ELSE Throw(h, "Unauthorized")
    /\ UNCHANGED <<stored, redis, expired, mailbox, game, authHistory>>

\* finally: DEL of the lock, whoever holds it by now.
UnlockRotation(h) ==
    /\ At(h, "refresh", "unlock")
    /\ rotationLock' = rotationLock \ {job[h].tok}
    /\ IF job[h].out # NoPair THEN Return(h, job[h].out) ELSE Throw(h, "Unauthorized")
    /\ UNCHANGED <<stored, blacklist, rotation, expired, mailbox, game, authHistory>>

-----------------------------------------------------------------------------
(* logout and revocation *)

\* logout: the access token is blacklisted first, unless it has just expired.
Blacklist(h) ==
    /\ At(h, "logout", "blacklist")
    /\ IF job[h].tok \in expired
         THEN Throw(h, "Unauthorized") /\ UNCHANGED blacklist
         ELSE blacklist' = blacklist \cup {job[h].tok} /\ Goto(h, "snapshot")
    /\ UNCHANGED <<stored, rotation, rotationLock, expired, mailbox, game, authHistory>>

\* Mutant: the newest token is spared.
LiveTokens_Others == {p \in Pairs : row[p] = "live" /\ p < NextPair - 1}

LiveTokens == {p \in Pairs : row[p] = "live"}

\* revokeAllRefreshTokens starts: the rows it will see.
SnapshotTokens(h) ==
    /\ job[h].op \in {"refresh", "logout"} /\ job[h].pc = "snapshot"
    /\ job' = [job EXCEPT ![h].pc = "revoke", ![h].seen = LiveTokens]
    /\ UNCHANGED <<stored, redis, expired, mailbox, game, authHistory>>

\* The UPDATE of those rows.
RevokeTokens(h) ==
    /\ job[h].pc = "revoke"
    /\ row' = [p \in Pairs |-> IF p \in job[h].seen /\ row[p] = "live" THEN "revoked" ELSE row[p]]
    /\ CASE job[h].op = "refresh" -> Throw(h, "Unauthorized")
         [] job[h].op = "logout" -> Return(h, NoPair)
         [] job[h].op = "reset" -> job' = [job EXCEPT ![h].pc = "updatePassword", ![h].seen = {}]
    /\ UNCHANGED <<password, link, redis, expired, mailbox, game, authHistory>>

-----------------------------------------------------------------------------
(* Password reset *)

\* requestPasswordReset: the links issued before are used up ...
InvalidateLinks(h) ==
    /\ At(h, "forgot", "invalidate")
    /\ link' = [l \in Links |-> IF link[l] = "live" THEN "used" ELSE link[l]]
    /\ Goto(h, "createLink")
    /\ UNCHANGED <<password, row, redis, expired, mailbox, game, authHistory>>

\* ... a new one is created ...
CreateLink(h) ==
    /\ At(h, "forgot", "createLink")
    /\ link' = [link EXCEPT ![NextLink] = "live"]
    /\ job' = [job EXCEPT ![h].pc = "mail", ![h].tok = NextLink]
    /\ UNCHANGED <<password, row, redis, expired, mailbox, game, authHistory>>

\* ... and mailed, or deleted when the mail cannot be queued.
MailLink(h) ==
    /\ At(h, "forgot", "mail")
    /\ mailbox' = mailbox \cup {job[h].tok}
    /\ Return(h, NoPair)
    /\ UNCHANGED <<stored, redis, expired, game, authHistory>>

DeleteLink(h) ==
    /\ At(h, "forgot", "deleteLink")
    /\ link' = [link EXCEPT ![job[h].tok] = "deleted"]
    /\ Return(h, NoPair)
    /\ UNCHANGED <<password, row, redis, expired, mailbox, game, authHistory>>

\* resetPassword: the link is looked up ...
FindLink(h) ==
    /\ At(h, "reset", "findLink")
    /\ IF link[job[h].tok] = "live" THEN Goto(h, "consume") ELSE Throw(h, "Unauthorized")
    /\ UNCHANGED <<stored, redis, expired, mailbox, game, authHistory>>

\* ... and the transaction uses it up and starts to revoke the tokens.  Another
\* transaction that wants the same row waits for this one.
ConsumeLink(h) ==
    LET l == job[h].tok IN
    /\ At(h, "reset", "consume")
    /\ \A g \in Handlers : ~(At(g, "reset", "revoke") /\ job[g].tok = l)
    /\ IF link[l] = "live"
         THEN /\ link' = [link EXCEPT ![l] = "used"]
              /\ job' = [job EXCEPT ![h].pc = "revoke", ![h].seen = LiveTokens]
              /\ overlap' = (overlap \/ \E g \in Handlers : Issuing(g))
         ELSE Throw(h, "Unauthorized") /\ UNCHANGED <<link, overlap>>
    /\ UNCHANGED <<password, row, redis, expired, mailbox, game, origin, signedWith>>

\* UserService.updatePassword, after the transaction.
UpdatePassword(h) ==
    /\ At(h, "reset", "updatePassword")
    /\ password' = job[h].pwd
    /\ Return(h, NoPair)
    /\ UNCHANGED <<row, link, redis, expired, mailbox, game, authHistory>>

-----------------------------------------------------------------------------
(* Failures and time *)

\* A command of the handler fails: a transaction is rolled back and the lock released;
\* an unsent mail takes its link with it.
CommandFails(h) ==
    /\ job[h].pc \notin {"idle", "reply"}
    /\ IF At(h, "forgot", "mail") THEN Goto(h, "deleteLink") ELSE Throw(h, "ServiceUnavailable")
    /\ link' = IF At(h, "reset", "revoke") THEN [link EXCEPT ![job[h].tok] = "live"] ELSE link
    /\ rotationLock' = IF job[h].pc \in {"rotate", "cache", "awaitLocked"}
                       THEN rotationLock \ {job[h].tok} ELSE rotationLock
    /\ UNCHANGED <<password, row, blacklist, rotation, expired, mailbox, game, authHistory>>

\* user-service has done what it was asked, but the call times out.  When it does so after
\* the caller was answered, that is Timeout(h) of module Accounts followed by this step: the
\* job, and so the reset, counts as running until user-service is done.
UserServiceTimeout(h) ==
    /\ At(h, "register", "createUser") \/ At(h, "reset", "updatePassword")
    /\ password' = IF At(h, "register", "createUser") /\ createUser # "OK" THEN password ELSE job[h].pwd
    /\ Throw(h, "ServiceUnavailable")
    /\ UNCHANGED <<row, link, redis, expired, mailbox, game, authHistory>>

\* The process dies: nothing is released.
HandlerDies(h) ==
    /\ job[h].pc \notin {"idle", "reply"}
    /\ Throw(h, "ServiceUnavailable")
    /\ link' = IF At(h, "reset", "revoke") THEN [link EXCEPT ![job[h].tok] = "live"] ELSE link
    /\ UNCHANGED <<password, row, redis, expired, mailbox, game, authHistory>>

\* The times to live of the lock (10 s) and of the rotation (30 s).
RotationExpires(p) ==
    /\ \/ p \in rotationLock /\ rotationLock' = rotationLock \ {p} /\ UNCHANGED rotation
       \/ rotation[p] # NoPair /\ rotation' = [rotation EXCEPT ![p] = NoPair] /\ UNCHANGED rotationLock
    /\ UNCHANGED <<stored, blacklist, expired, mailbox, job, game, authHistory>>

\* The refresh token gets too old.
RefreshTokenExpires(p) ==
    /\ row[p] = "live"
    /\ row' = [row EXCEPT ![p] = "expired"]
    /\ UNCHANGED <<password, link, redis, expired, mailbox, job, game, authHistory>>

AccessTokenExpires(p) ==
    /\ row[p] # "absent" /\ p \notin expired
    /\ expired' = expired \cup {p}
    /\ UNCHANGED <<stored, redis, mailbox, job, game, authHistory>>

-----------------------------------------------------------------------------
(* Verification of access tokens *)

\* AuthVerificationService: the signature and the age, the blacklist, the user.
VerifySession(p) == p # NoPair /\ p \notin expired /\ p \notin blacklist /\ password # NoPassword

\* Mutant: the deadline of an entry is not looked at.
EntryExpires_Never(p) == FALSE /\ UNCHANGED authVars

\* ApiAuthClient.verifyToken on a token that is not in its cache: what auth-service
\* says now ...
VerifyToken(p) ==
    /\ p \notin verified
    /\ checking' = IF VerifySession(p) THEN checking \cup {p} ELSE checking \ {p}
    /\ UNCHANGED <<stored, redis, expired, mailbox, job, verified, authHistory>>

\* ... is what game-service learns later, and keeps.
CacheVerified(p) ==
    /\ p \in checking
    /\ checking' = checking \ {p} /\ verified' = verified \cup {p}
    /\ UNCHANGED <<stored, redis, expired, mailbox, job, authHistory>>

\* AuthTokenCacheService.get drops an entry after thirty seconds.
EntryExpires(p) ==
    /\ p \in verified
    /\ verified' = verified \ {p}
    /\ UNCHANGED <<stored, redis, expired, mailbox, job, checking, authHistory>>

HandlerStep(h) ==
    \/ FindByEmail(h) \/ CreateUser(h) \/ VerifyPassword(h) \/ IssueTokensForUser(h)
    \/ FindToken(h) \/ LockRotation(h) \/ Rotate(h) \/ CacheRotation(h)
    \/ WaitForCachedRotation(h) \/ UnlockRotation(h)
    \/ Blacklist(h) \/ SnapshotTokens(h) \/ RevokeTokens(h)
    \/ InvalidateLinks(h) \/ CreateLink(h) \/ MailLink(h) \/ DeleteLink(h)
    \/ FindLink(h) \/ ConsumeLink(h) \/ UpdatePassword(h)
====
