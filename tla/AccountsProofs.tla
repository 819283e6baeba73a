---------------------------- MODULE AccountsProofs ----------------------------
(***************************************************************************)
(* Proofs about the account of module Accounts, for any number of tabs,    *)
(* handlers, pairs and scenarios: each refresh token is replaced once, and *)
(* a password reset leaves no session alive that was opened before it.     *)
(* Neither rests on the lock of a rotation, which may expire at any time:  *)
(* the condition of the update that revokes the presented token suffices.  *)
(* And while nothing fails, nobody signs out or resets the password, and   *)
(* no tab is duplicated or left in the middle of a refresh, the requests   *)
(* of a tab that refresh at the same time keep its session.                *)
(* The last part shows the types in full: whatever token or link is kept,  *)
(* sent, cached or revoked anywhere was issued before.                     *)
(***************************************************************************)
EXTENDS Accounts, FiniteSetTheorems, TLAPS

(* Types, as far as the proofs need them. *)

\* The pairs issued before pair n, and none.
IssuedBefore(n) == 0..(n - 1)

\* The labels at which a handler of an operation can be.
StepsOf(op, pc) ==
    \/ op = "none" /\ pc = "idle"
    \/ op = "register" /\ pc \in {"findByEmail", "createUser", "issue", "reply"}
    \/ op = "login" /\ pc \in {"verifyPassword", "issue", "reply"}
    \/ op = "refresh" /\ pc \in {"findToken", "lock", "rotate", "cache", "await", "awaitLocked",
                                 "unlock", "snapshot", "revoke", "reply"}
    \/ op = "logout" /\ pc \in {"blacklist", "snapshot", "revoke", "reply"}
    \/ op = "forgot" /\ pc \in {"findByEmail", "invalidate", "createLink", "mail", "deleteLink",
                                "reply"}
    \/ op = "reset" /\ pc \in {"findLink", "consume", "revoke", "updatePassword", "reply"}

Job ==
    [op : Served \cup {"refresh", "none"},
     pc : {"idle", "reply", "findByEmail", "createUser", "verifyPassword", "issue", "findToken",
           "lock", "rotate", "cache", "await", "awaitLocked", "unlock", "blacklist", "snapshot",
           "revoke", "invalidate", "createLink", "mail", "deleteLink", "findLink", "consume",
           "updatePassword"},
     tab : Tabs \cup {NoTab}, slot : Slots \cup {NoSlot}, tok : Nat,
     pwd : Passwords \cup {NoPassword}, seen : SUBSET Pairs, res : Nat, out : Nat]

\* A refresh presents a token that was issued, who signs in or resets has typed a
\* password, and only a handler that has issued or found a pair names one.  n is the pair
\* that will be issued next.
JobOK(j, n) ==
    /\ j \in Job /\ StepsOf(j.op, j.pc) /\ j.out \in IssuedBefore(n)
    /\ j.op = "refresh" => j.tok \in IssuedBefore(n) \ {NoPair}
    /\ j.op \in Served => j.slot \in Slots
    /\ j.pc = "reply" => j.tab \in Tabs
    /\ j.op \in {"register", "login", "reset"} => j.pwd \in Passwords
    /\ j.pc \in {"cache", "unlock", "reply"} \/ j.out = NoPair

RequestType ==
    [pc : {"idle", "sent", "unauthorized", "joined", "serving"},
     kind : Operations \cup {"boot", "none"}, used : Nat, retried : BOOLEAN,
     pwd : Passwords \cup {NoPassword}, link : Nat]

\* Who submits a form with a password has typed one.
RequestOK(r) == r \in RequestType /\ (r.kind \in {"register", "login", "reset"} => r.pwd \in Passwords)

TabType(n) ==
    [access : IssuedBefore(n), stored : IssuedBefore(n), user : BOOLEAN, booting : BOOLEAN,
     refreshing : BOOLEAN]

ScenarioType ==
    [ops : SUBSET Operations, requests : SUBSET (Tabs \X Slots),
     account : Passwords \cup {NoPassword}, typed : SUBSET Passwords,
     forms : Nat, faults : Nat, reloads : Nat]

Tables ==
    /\ password \in Passwords \cup {NoPassword}
    /\ row \in [Pairs -> {"absent", "live", "revoked", "expired"}]
    /\ origin \in [Pairs -> Nat] /\ signedWith \in [Pairs -> Passwords \cup {NoPassword}]
    /\ rotation \in [Pairs -> IssuedBefore(NextPair)] /\ mailbox \subseteq Nat

Clients ==
    /\ tab \in [Tabs -> TabType(NextPair)]
    /\ req \in [Tabs -> [Slots -> RequestType]]
    /\ \A t \in Tabs, s \in Slots : RequestOK(req[t][s])
    /\ scenario \in ScenarioType

\* Pairs are issued in order, and there is one left for every handler that may issue one.
RowsInOrder ==
    /\ NextPair \in 1..(MaxPairs + 1)
    /\ \A p \in Pairs : row[p] # "absent" <=> p < NextPair
Issuers == {h \in Handlers : Issuing(h)}
RoomLeft == IsFiniteSet(Issuers) /\ NextPair + Cardinality(Issuers) <= MaxPairs + 1

Jobs == job \in [Handlers -> Job] /\ \A h \in Handlers : JobOK(job[h], NextPair)

TypeInv == Tables /\ Clients /\ Jobs /\ RowsInOrder /\ RoomLeft

(* The inductive invariants. *)

\* A pair descends from a pair that is not younger.
OriginsAreOlder == \A p \in Pairs : row[p] # "absent" => origin[p] <= p

\* Every live token was got with the password the account has ...
LiveIsCurrent ==
    \A p \in Pairs : row[p] = "live" => signedWith[p] = password /\ password # NoPassword
\* ... no pair is being issued during a reset, ...
Apart == \A g, h \in Handlers : ~(Issuing(g) /\ Resetting(h))
\* ... which has seen all the live tokens, and has left none when it comes to the
\* password, ...
SeenAll == \A h \in Handlers : At(h, "reset", "revoke") => LiveTokens \subseteq job[h].seen
NoneLeft == \A h \in Handlers : At(h, "reset", "updatePassword") => LiveTokens = {}
\* ... and a sign-in that has been let in knows the password.
LetInKnows == \A h \in Handlers : job[h].pc = "issue" => job[h].pwd = password

\* As long as no pair was being issued during a reset.
ResetSound == ~overlap => LiveIsCurrent /\ Apart /\ SeenAll /\ NoneLeft /\ LetInKnows

-----------------------------------------------------------------------------
(* What a step does to a handler. *)

IssuingJob(j) == j.op \in IssuingOps /\ j.pc # "reply" /\ j.out = NoPair
ResettingJob(j) == j.op = "reset" /\ j.pc \in {"revoke", "updatePassword"}

\* A step after which the handler does not begin to issue a pair or to reset the password
\* and has not just been let in.
Tame(j, k) ==
    /\ IssuingJob(k) => IssuingJob(j)
    /\ ResettingJob(k) => ResettingJob(j) /\ k.pc = j.pc /\ k.seen = j.seen
    /\ k.pc = "issue" => j.pc = "issue" /\ k.pwd = j.pwd

Becomes(h, k) == job' = [job EXCEPT ![h] = k] /\ JobOK(k, NextPair)

LEMMA IdleOK == ASSUME NEW n \in Nat \ {0} PROVE JobOK(Idle, n)
BY DEF JobOK, Idle, Job, StepsOf, IssuedBefore, NoPair, Served, Forms

\* A handler that has answered, or has nobody to answer to.
LEMMA Settles ==
    ASSUME NEW j, NEW k, NEW n \in Nat, JobOK(k, n), k.pc \in {"idle", "reply"}
    PROVE  Tame(j, k)
BY DEF Tame, JobOK, StepsOf, IssuingJob, ResettingJob, IssuingOps

LEMMA AnswerSettles ==
    ASSUME TypeInv, NEW h \in Handlers, NEW code, NEW out \in IssuedBefore(NextPair),
           job[h].op # "none", Answer(h, code, out)
    PROVE  \E k : Becomes(h, k) /\ k.pc \in {"idle", "reply"} /\ Tame(job[h], k)
<1> DEFINE j == job[h]
           reply == [j EXCEPT !.pc = "reply", !.seen = {}, !.res = httpStatus(code), !.out = out]
           k == IF j.tab = NoTab THEN Idle ELSE reply
<1>1. j \in Job /\ JobOK(j, NextPair) /\ NextPair \in Nat \ {0} /\ job \in [Handlers -> Job]
    BY AccountAssumption DEF TypeInv, Jobs, RowsInOrder
<1>2. httpStatus(code) \in Nat
    BY DEF httpStatus
<1>3. /\ reply \in Job /\ reply.pc = "reply" /\ reply.op = j.op /\ reply.out = out
      /\ reply.tok = j.tok /\ reply.slot = j.slot /\ reply.pwd = j.pwd /\ reply.tab = j.tab
    <2>1. out \in Nat
        BY <1>1 DEF IssuedBefore
    <2> HIDE DEF j
    <2> QED BY <1>1, <1>2, <2>1 DEF Job
<1> HIDE DEF reply
<1>4. j.tab # NoTab => JobOK(reply, NextPair)
    <2>1. StepsOf(j.op, "reply")
        BY <1>1 DEF JobOK, StepsOf
    <2> QED BY <1>1, <1>3, <2>1 DEF JobOK, Job
<1>5. JobOK(k, NextPair) /\ k.pc \in {"idle", "reply"}
    BY <1>1, <1>3, <1>4, IdleOK DEF Idle
<1>6. job' = [job EXCEPT ![h] = k]
    BY <1>1 DEF Answer, reply
<1>7. Tame(job[h], k)
    BY <1>1, <1>5, Settles
<1> QED BY <1>5, <1>6, <1>7 DEF Becomes

\* A handler goes on to another label of its operation.
LEMMA GotoMoves ==
    ASSUME TypeInv, NEW h \in Handlers, NEW pc, Goto(h, pc), StepsOf(job[h].op, pc),
           pc \notin {"idle", "reply"},
           pc \in {"cache", "unlock"} \/ job[h].out = NoPair
    PROVE  \E k : /\ Becomes(h, k) /\ k = [job[h] EXCEPT !.pc = pc]
                  /\ k.pc = pc /\ k.op = job[h].op /\ k.out = job[h].out /\ k.pwd = job[h].pwd
<1> DEFINE j == job[h]
           k == [j EXCEPT !.pc = pc]
<1>1. j \in Job /\ JobOK(j, NextPair) /\ job \in [Handlers -> Job]
    BY DEF TypeInv, Jobs
<1>2. pc \in {"findByEmail", "createUser", "verifyPassword", "issue", "findToken",
              "lock", "rotate", "cache", "await", "awaitLocked", "unlock", "blacklist", "snapshot",
              "revoke", "invalidate", "createLink", "mail", "deleteLink", "findLink", "consume",
              "updatePassword"}
    BY DEF StepsOf
<1>3. /\ k \in Job /\ k.pc = pc /\ k.op = j.op /\ k.out = j.out /\ k.tok = j.tok
      /\ k.slot = j.slot /\ k.pwd = j.pwd /\ k.tab = j.tab
    <2> HIDE DEF j
    <2> QED BY <1>1, <1>2 DEF Job
<1>4. job' = [job EXCEPT ![h] = k]
    BY DEF Goto
<1> HIDE DEF k
<1>5. JobOK(k, NextPair)
    BY <1>1, <1>2, <1>3 DEF JobOK
<1> QED BY <1>3, <1>4, <1>5 DEF Becomes, k

LEMMA TameGoto ==
    ASSUME TypeInv, NEW h \in Handlers, NEW pc, Goto(h, pc), StepsOf(job[h].op, pc),
           pc \notin {"idle", "reply", "issue", "revoke", "updatePassword"}, job[h].pc # "reply",
           pc \in {"cache", "unlock"} \/ job[h].out = NoPair
    PROVE  \E k : Becomes(h, k) /\ Tame(job[h], k)
<1>1. PICK k : /\ Becomes(h, k)
               /\ k.pc = pc /\ k.op = job[h].op /\ k.out = job[h].out
    BY GotoMoves
<1>2. Tame(job[h], k)
    BY <1>1 DEF Tame, IssuingJob, ResettingJob
<1> QED BY <1>1, <1>2

\* The handlers that neither issue a pair nor let in, reset or revoke.
Tables0 == <<row, origin, signedWith, password, overlap>>

TameStep(h) ==
    \/ FindByEmail(h) \/ FindToken(h) \/ LockRotation(h) \/ CacheRotation(h)
    \/ WaitForCachedRotation(h) \/ UnlockRotation(h) \/ Blacklist(h) \/ SnapshotTokens(h)
    \/ InvalidateLinks(h) \/ CreateLink(h) \/ MailLink(h) \/ DeleteLink(h) \/ FindLink(h)
    \/ CommandFails(h) \/ HandlerDies(h)

LEMMA TameFrame ==
    ASSUME NEW h, TameStep(h)
    PROVE  UNCHANGED Tables0
<1>1. UNCHANGED <<row, password>>
    BY DEF TameStep, FindByEmail, FindToken, LockRotation, CacheRotation, WaitForCachedRotation,
       UnlockRotation, Blacklist, SnapshotTokens, InvalidateLinks, CreateLink, MailLink, DeleteLink,
       FindLink, CommandFails, HandlerDies, stored
<1>2. UNCHANGED <<origin, signedWith, overlap>>
    BY DEF TameStep, FindByEmail, FindToken, LockRotation, CacheRotation, WaitForCachedRotation,
       UnlockRotation, Blacklist, SnapshotTokens, InvalidateLinks, CreateLink, MailLink, DeleteLink,
       FindLink, CommandFails, HandlerDies, authHistory
<1> QED BY <1>1, <1>2 DEF Tables0

\* The token a refresh presents is that of a pair that was issued.
LEMMA PresentedWasIssued ==
    ASSUME TypeInv, NEW h \in Handlers, job[h].op = "refresh"
    PROVE  job[h].tok \in Pairs /\ job[h].tok < NextPair /\ row[job[h].tok] # "absent"
<1> DEFINE n == NextPair
           tok == job[h].tok
<1>1. tok \in 0..(n - 1) /\ tok # 0 /\ n \in 1..(MaxPairs + 1) /\ MaxPairs \in Nat
    BY AccountAssumption DEF TypeInv, Jobs, JobOK, RowsInOrder, IssuedBefore, NoPair
<1> HIDE DEF n, tok
<1>2. tok \in Pairs /\ tok < n
    BY <1>1 DEF Pairs
<1> QED BY <1>2 DEF n, tok, TypeInv, RowsInOrder

LEMMA TameSteps ==
    ASSUME TypeInv, NEW h \in Handlers, TameStep(h)
    PROVE  \E k : Becomes(h, k) /\ Tame(job[h], k)
<1> DEFINE j == job[h]
<1>1. /\ j \in Job /\ JobOK(j, NextPair) /\ job \in [Handlers -> Job]
      /\ NextPair \in 1..(MaxPairs + 1) /\ NoPair \in IssuedBefore(NextPair)
    BY AccountAssumption DEF TypeInv, Jobs, RowsInOrder, IssuedBefore, NoPair
<1>2. StepsOf(j.op, j.pc) /\ (j.pc \in {"cache", "unlock", "reply"} \/ j.out = NoPair)
    BY <1>1 DEF JobOK
<1>3. ASSUME NEW error, Throw(h, error), j.op # "none" PROVE \E k : Becomes(h, k) /\ Tame(j, k)
    BY <1>1, <1>3, AnswerSettles DEF Throw
<1>4. ASSUME NEW out \in IssuedBefore(NextPair), Return(h, out), j.op # "none"
      PROVE  \E k : Becomes(h, k) /\ Tame(j, k)
    BY <1>4, AnswerSettles DEF Return
<1>5. CASE FindByEmail(h)
    <2>1. j.op \in {"register", "forgot"} /\ j.pc = "findByEmail"
        BY <1>2, <1>5 DEF FindByEmail, StepsOf
    <2>2. \/ j.op = "register" /\ Goto(h, "createUser")
          \/ j.op = "forgot" /\ Goto(h, "invalidate")
          \/ Throw(h, "Conflict") \/ Return(h, NoPair)
        BY <1>5, <2>1 DEF FindByEmail, At
    <2>3. StepsOf("register", "createUser") /\ StepsOf("forgot", "invalidate")
        BY DEF StepsOf
    <2> QED BY <1>1, <1>2, <1>3, <1>4, <2>1, <2>2, <2>3, TameGoto
<1>6. CASE FindToken(h)
    <2>1. j.op = "refresh" /\ j.pc = "findToken" /\ j.tok \in Pairs /\ row[j.tok] # "absent"
        BY <1>6, PresentedWasIssued DEF FindToken, At
    <2>2. row[j.tok] \in {"live", "revoked", "expired"}
        BY <2>1 DEF TypeInv, Tables
    <2>3. Goto(h, "lock") \/ Goto(h, "snapshot") \/ Throw(h, "Unauthorized")
        BY <1>6, <2>2 DEF FindToken
    <2>4. StepsOf("refresh", "lock") /\ StepsOf("refresh", "snapshot")
        BY DEF StepsOf
    <2> QED BY <1>2, <1>3, <2>1, <2>3, <2>4, TameGoto
<1>7. CASE LockRotation(h)
    <2>1. j.op = "refresh" /\ j.pc = "lock" /\ (Goto(h, "await") \/ Goto(h, "rotate"))
        BY <1>7 DEF LockRotation, At
    <2>2. StepsOf("refresh", "await") /\ StepsOf("refresh", "rotate")
        BY DEF StepsOf
    <2> QED BY <1>2, <2>1, <2>2, TameGoto
<1>8. CASE CacheRotation(h)
    <2>1. j.op = "refresh" /\ j.pc = "cache" /\ Goto(h, "unlock") /\ StepsOf("refresh", "unlock")
        BY <1>8 DEF CacheRotation, At, StepsOf
    <2> QED BY <1>2, <2>1, TameGoto
<1>9. CASE WaitForCachedRotation(h)
    <2> DEFINE found == rotation[j.tok]
    <2>1. j.op = "refresh" /\ j.pc \in {"await", "awaitLocked"} /\ j.out = NoPair
        BY <1>2, <1>9 DEF WaitForCachedRotation, StepsOf
    <2>2. j.tok \in Pairs
        BY <2>1, PresentedWasIssued
    <2>3. found \in IssuedBefore(NextPair)
        BY <2>2 DEF TypeInv, Tables
    <2>4. CASE Throw(h, "Unauthorized") \/ Return(h, found)
        BY <1>3, <1>4, <2>1, <2>3, <2>4
    <2>5. CASE job' = [job EXCEPT ![h].pc = "unlock", ![h].out = found]
        <3> DEFINE k == [j EXCEPT !.pc = "unlock", !.out = found]
        <3>1. job' = [job EXCEPT ![h] = k]
            BY <1>1, <2>5
        <3>2. found \in Nat
            BY <1>1, <2>3 DEF IssuedBefore
        <3> HIDE DEF found
        <3>3. /\ k \in Job /\ k.pc = "unlock" /\ k.op = j.op /\ k.out = found /\ k.tok = j.tok
              /\ k.slot = j.slot /\ k.pwd = j.pwd /\ k.tab = j.tab
            BY <1>1, <3>2 DEF Job
        <3> HIDE DEF k
        <3>4. JobOK(k, NextPair)
            BY <1>1, <2>1, <2>3, <3>3 DEF JobOK, StepsOf
        <3>5. Tame(j, k)
            BY <2>1, <3>3 DEF Tame, IssuingJob, ResettingJob
        <3> QED BY <3>1, <3>4, <3>5 DEF Becomes
    <2> QED BY <1>9, <2>4, <2>5 DEF WaitForCachedRotation
<1>10. CASE UnlockRotation(h)
    BY <1>1, <1>3, <1>4, <1>10 DEF UnlockRotation, At, JobOK
<1>11. CASE Blacklist(h)
    <2>1. /\ j.op = "logout" /\ j.pc = "blacklist"
          /\ Throw(h, "Unauthorized") \/ Goto(h, "snapshot")
        BY <1>11 DEF Blacklist, At
    <2>2. StepsOf("logout", "snapshot")
        BY DEF StepsOf
    <2> QED BY <1>2, <1>3, <2>1, <2>2, TameGoto
<1>12. CASE SnapshotTokens(h)
    <2> DEFINE k == [j EXCEPT !.pc = "revoke", !.seen = LiveTokens]
    <2>1. j.op \in {"refresh", "logout"} /\ j.pc = "snapshot" /\ LiveTokens \subseteq Pairs
        BY <1>12 DEF SnapshotTokens, LiveTokens
    <2>2. job' = [job EXCEPT ![h] = k]
        BY <1>1, <1>12 DEF SnapshotTokens
    <2>3. /\ k \in Job /\ k.pc = "revoke" /\ k.op = j.op /\ k.out = j.out /\ k.tok = j.tok
          /\ k.slot = j.slot /\ k.pwd = j.pwd /\ k.tab = j.tab
        BY <1>1, <2>1 DEF Job
    <2> HIDE DEF k
    <2>4. JobOK(k, NextPair)
        BY <1>1, <2>1, <2>3 DEF JobOK, StepsOf
    <2>5. Tame(j, k)
        BY <2>1, <2>3 DEF Tame, IssuingJob, ResettingJob
    <2> QED BY <2>2, <2>4, <2>5 DEF Becomes
<1>13. CASE InvalidateLinks(h)
    <2>1. j.op = "forgot" /\ j.pc = "invalidate" /\ Goto(h, "createLink") /\ StepsOf("forgot", "createLink")
        BY <1>13 DEF InvalidateLinks, At, StepsOf
    <2> QED BY <1>2, <2>1, TameGoto
<1>14. CASE CreateLink(h)
    <2> DEFINE l == NextLink
               k == [j EXCEPT !.pc = "mail", !.tok = l]
    <2>1. j.op = "forgot" /\ j.pc = "createLink" /\ job' = [job EXCEPT ![h] = k]
        BY <1>1, <1>14 DEF CreateLink, At
    <2>2. l \in Nat
        <3>1. IsFiniteSet(Links)
            BY FS_Interval, AccountAssumption DEF Links
        <3>2. Cardinality({x \in Links : link[x] # "absent"}) \in Nat
            BY <3>1, FS_Subset, FS_CardinalityType
        <3> QED BY <3>2 DEF NextLink
    <2> HIDE DEF l
    <2>3. /\ k \in Job /\ k.pc = "mail" /\ k.op = j.op /\ k.out = j.out
          /\ k.slot = j.slot /\ k.pwd = j.pwd /\ k.tab = j.tab
        BY <1>1, <2>2 DEF Job
    <2> HIDE DEF k
    <2>4. JobOK(k, NextPair)
        BY <1>1, <2>1, <2>3 DEF JobOK, StepsOf
    <2>5. Tame(j, k)
        BY <2>1, <2>3 DEF Tame, IssuingJob, ResettingJob
    <2> QED BY <2>1, <2>4, <2>5 DEF Becomes
<1>15. CASE MailLink(h) \/ DeleteLink(h)
    <2>1. j.op = "forgot" /\ Return(h, NoPair)
        BY <1>15 DEF MailLink, DeleteLink, At
    <2> QED BY <1>1, <1>4, <2>1
<1>16. CASE FindLink(h)
    <2>1. j.op = "reset" /\ j.pc = "findLink" /\ (Goto(h, "consume") \/ Throw(h, "Unauthorized"))
        BY <1>16 DEF FindLink, At
    <2>2. StepsOf("reset", "consume")
        BY DEF StepsOf
    <2> QED BY <1>2, <1>3, <2>1, <2>2, TameGoto
<1>17. CASE CommandFails(h) \/ HandlerDies(h)
    <2>1. j.op # "none"
        BY <1>2, <1>17 DEF CommandFails, HandlerDies, StepsOf
    <2>2. \/ j.op = "forgot" /\ j.pc = "mail" /\ Goto(h, "deleteLink")
          \/ Throw(h, "ServiceUnavailable")
        BY <1>17 DEF CommandFails, HandlerDies, At
    <2>3. StepsOf("forgot", "deleteLink")
        BY DEF StepsOf
    <2> QED BY <1>2, <1>3, <2>1, <2>2, <2>3, TameGoto
<1> QED BY <1>5, <1>6, <1>7, <1>8, <1>9, <1>10, <1>11, <1>12, <1>13, <1>14, <1>15, <1>16, <1>17
    DEF TameStep

\* The handlers that let in, revoke or reset: what becomes of them.
LetIn(h, k) ==
    /\ Becomes(h, k) /\ k.pc = "issue" /\ k.op = job[h].op /\ k.pwd = job[h].pwd /\ k.out = NoPair
    /\ job[h].op \in {"register", "login"} /\ job[h].pc # "reply" /\ job[h].out = NoPair
    /\ job[h].pwd \in Passwords

Resets(h, k, pc) ==
    /\ Becomes(h, k) /\ k.op = "reset" /\ k.pc = pc
    /\ job[h].op = "reset"

LEMMA LettingIn ==
    ASSUME TypeInv, NEW h \in Handlers, job[h].op \in {"register", "login"},
           job[h].pc \in {"createUser", "verifyPassword"}, Goto(h, "issue")
    PROVE  \E k : LetIn(h, k)
<1>1. JobOK(job[h], NextPair) /\ StepsOf(job[h].op, "issue")
    BY DEF TypeInv, Jobs, StepsOf
<1>2. job[h].out = NoPair /\ job[h].pwd \in Passwords
    BY <1>1 DEF JobOK
<1>3. PICK k : Becomes(h, k) /\ k.pc = "issue" /\ k.op = job[h].op /\ k.out = job[h].out
               /\ k.pwd = job[h].pwd
    BY <1>1, <1>2, GotoMoves
<1> QED BY <1>2, <1>3 DEF LetIn

LEMMA VerifySteps ==
    ASSUME TypeInv, NEW h \in Handlers, VerifyPassword(h)
    PROVE  \/ \E k : Becomes(h, k) /\ Tame(job[h], k)
           \/ password = job[h].pwd /\ \E k : LetIn(h, k)
<1>1. NoPair \in IssuedBefore(NextPair)
    BY DEF TypeInv, RowsInOrder, IssuedBefore, NoPair
<1>2. job[h].op = "login" /\ job[h].pc = "verifyPassword"
    BY DEF VerifyPassword, At
<1>3. \/ Throw(h, "Unauthorized")
      \/ password = job[h].pwd /\ Goto(h, "issue")
    BY DEF VerifyPassword, verifyPassword
<1> QED BY <1>1, <1>2, <1>3, AnswerSettles, LettingIn DEF Throw

LEMMA CreateSteps ==
    ASSUME TypeInv, NEW h \in Handlers, CreateUser(h)
    PROVE  \/ password' = password /\ \E k : Becomes(h, k) /\ Tame(job[h], k)
           \/ /\ password = NoPassword /\ password' = job[h].pwd
              /\ \E k : LetIn(h, k)
<1>1. NoPair \in IssuedBefore(NextPair)
    BY DEF TypeInv, RowsInOrder, IssuedBefore, NoPair
<1>2. job[h].op = "register" /\ job[h].pc = "createUser"
    BY DEF CreateUser, At
<1>3. \/ password' = password /\ Throw(h, "Conflict")
      \/ password = NoPassword /\ password' = job[h].pwd /\ Goto(h, "issue")
    BY DEF CreateUser, createUser
<1> QED BY <1>1, <1>2, <1>3, AnswerSettles, LettingIn DEF Throw

LEMMA RevokeSteps ==
    ASSUME TypeInv, NEW h \in Handlers, RevokeTokens(h)
    PROVE  \/ \E k : Becomes(h, k) /\ Tame(job[h], k)
           \/ job[h].pc = "revoke" /\ \E k : Resets(h, k, "updatePassword")
<1> DEFINE j == job[h]
           k == [j EXCEPT !.pc = "updatePassword", !.seen = {}]
<1>1. /\ NoPair \in IssuedBefore(NextPair) /\ j \in Job /\ JobOK(j, NextPair)
      /\ job \in [Handlers -> Job]
    BY DEF TypeInv, Jobs, RowsInOrder, IssuedBefore, NoPair
<1>2. j.op \in {"refresh", "logout", "reset"} /\ j.pc = "revoke"
    BY <1>1 DEF RevokeTokens, JobOK, StepsOf
<1>3. CASE j.op \in {"refresh", "logout"}
    <2>1. Throw(h, "Unauthorized") \/ Return(h, NoPair)
        BY <1>3 DEF RevokeTokens
    <2> QED BY <1>1, <1>3, <2>1, AnswerSettles DEF Throw, Return
<1>4. CASE j.op = "reset"
    <2>1. job' = [job EXCEPT ![h] = k]
        BY <1>1, <1>4 DEF RevokeTokens
    <2>2. /\ k \in Job /\ k.pc = "updatePassword" /\ k.op = j.op /\ k.out = j.out /\ k.tok = j.tok
          /\ k.slot = j.slot /\ k.pwd = j.pwd /\ k.tab = j.tab
        BY <1>1 DEF Job
    <2> HIDE DEF k
    <2>3. JobOK(k, NextPair)
        BY <1>1, <1>2, <1>4, <2>2 DEF JobOK, StepsOf
    <2> QED BY <1>2, <1>4, <2>1, <2>2, <2>3 DEF Resets, Becomes
<1> QED BY <1>2, <1>3, <1>4

LEMMA ConsumeSteps ==
    ASSUME TypeInv, NEW h \in Handlers, ConsumeLink(h)
    PROVE  \/ overlap' = overlap /\ \E k : Becomes(h, k) /\ Tame(job[h], k)
           \/ /\ overlap' = (overlap \/ \E g \in Handlers : Issuing(g))
              /\ \E k : Resets(h, k, "revoke") /\ k.seen = LiveTokens
<1> DEFINE j == job[h]
           k == [j EXCEPT !.pc = "revoke", !.seen = LiveTokens]
<1>1. /\ NoPair \in IssuedBefore(NextPair) /\ j \in Job /\ JobOK(j, NextPair)
      /\ job \in [Handlers -> Job] /\ LiveTokens \subseteq Pairs
    BY DEF TypeInv, Jobs, RowsInOrder, IssuedBefore, NoPair, LiveTokens
<1>2. j.op = "reset" /\ j.pc = "consume"
    BY DEF ConsumeLink, At
<1>3. CASE Throw(h, "Unauthorized") /\ UNCHANGED overlap
    BY <1>1, <1>2, <1>3, AnswerSettles DEF Throw
<1>4. CASE /\ job' = [job EXCEPT ![h].pc = "revoke", ![h].seen = LiveTokens]
           /\ overlap' = (overlap \/ \E g \in Handlers : Issuing(g))
    <2>1. job' = [job EXCEPT ![h] = k]
        BY <1>1, <1>4
    <2>2. /\ k \in Job /\ k.pc = "revoke" /\ k.op = j.op /\ k.out = j.out /\ k.tok = j.tok
          /\ k.slot = j.slot /\ k.pwd = j.pwd /\ k.tab = j.tab /\ k.seen = LiveTokens
        BY <1>1 DEF Job
    <2> HIDE DEF k
    <2>3. JobOK(k, NextPair)
        BY <1>1, <1>2, <2>2 DEF JobOK, StepsOf
    <2> QED BY <1>2, <1>4, <2>1, <2>2, <2>3 DEF Resets, Becomes
<1> QED BY <1>3, <1>4 DEF ConsumeLink

\* What user-service does for a handler that ends in the same step.
LEMMA UpdateSteps ==
    ASSUME TypeInv, NEW h \in Handlers, UpdatePassword(h) \/ UserServiceTimeout(h)
    PROVE  /\ \E k : Becomes(h, k) /\ Tame(job[h], k) /\ k.pc \in {"idle", "reply"}
           /\ \/ password' = password
              \/ password = NoPassword /\ password' = job[h].pwd /\ job[h].pwd \in Passwords
              \/ At(h, "reset", "updatePassword") /\ password' = job[h].pwd /\ job[h].pwd \in Passwords
<1>1. NoPair \in IssuedBefore(NextPair) /\ JobOK(job[h], NextPair)
    BY DEF TypeInv, Jobs, RowsInOrder, IssuedBefore, NoPair
<1>2. At(h, "register", "createUser") \/ At(h, "reset", "updatePassword")
    BY DEF UpdatePassword, UserServiceTimeout
<1>3. job[h].op \in {"register", "reset"} /\ job[h].pwd \in Passwords
    BY <1>1, <1>2 DEF At, JobOK
<1>4. Return(h, NoPair) \/ Throw(h, "ServiceUnavailable")
    BY DEF UpdatePassword, UserServiceTimeout
<1>5. \E k : Becomes(h, k) /\ Tame(job[h], k) /\ k.pc \in {"idle", "reply"}
    BY <1>1, <1>3, <1>4, AnswerSettles DEF Return, Throw
<1>6. \/ password' = password
      \/ password = NoPassword /\ password' = job[h].pwd
      \/ At(h, "reset", "updatePassword") /\ password' = job[h].pwd
    BY <1>2 DEF UpdatePassword, UserServiceTimeout, createUser
<1> QED BY <1>3, <1>5, <1>6

-----------------------------------------------------------------------------
(* The pairs. *)

LEMMA SameRows ==
    ASSUME \A p \in Pairs : row'[p] = "absent" <=> row[p] = "absent"
    PROVE  NextPair' = NextPair /\ (RowsInOrder => RowsInOrder')
<1>1. {p \in Pairs : row'[p] # "absent"} = {p \in Pairs : row[p] # "absent"}
    OBVIOUS
<1>2. NextPair' = NextPair
    BY <1>1 DEF NextPair, Pairs
<1> QED BY <1>2 DEF RowsInOrder, Pairs

LEMMA NewRow ==
    ASSUME RowsInOrder, NextPair <= MaxPairs,
           \A p \in Pairs : row'[p] # "absent" <=> row[p] # "absent" \/ p = NextPair
    PROVE  NextPair' = NextPair + 1 /\ RowsInOrder'
<1> DEFINE n == NextPair
<1>1. n \in Nat /\ n >= 1 /\ n <= MaxPairs /\ MaxPairs \in Nat
    BY AccountAssumption DEF RowsInOrder
<1>2. \A p \in Pairs : row'[p] # "absent" <=> p < n \/ p = n
    BY DEF RowsInOrder
<1> HIDE DEF n
<1>3. {p \in Pairs : row'[p] # "absent"} = 1..n
    BY <1>1, <1>2 DEF Pairs
<1>4. Cardinality(1..n) = n
    BY <1>1, FS_Interval
<1>5. NextPair' = n + 1
    BY <1>3, <1>4 DEF NextPair, Pairs
<1>6. \A p \in Pairs : row'[p] # "absent" <=> p < n + 1
    BY <1>1, <1>2 DEF Pairs
<1>7. NextPair' \in 1..(MaxPairs + 1)
    BY <1>1, <1>5
<1> QED BY <1>5, <1>6, <1>7 DEF n, RowsInOrder, Pairs

\* There is a pair left for a handler that may issue one.
LEMMA RoomForIssuer ==
    ASSUME TypeInv, NEW h \in Handlers, Issuing(h)
    PROVE  NextPair \in Pairs
<1>1. h \in Issuers /\ IsFiniteSet(Issuers)
    BY DEF Issuers, TypeInv, RoomLeft
<1>2. Cardinality(Issuers) \in Nat /\ Cardinality(Issuers) # 0
    BY <1>1, FS_CardinalityType, FS_EmptySet
<1> QED BY <1>2, AccountAssumption DEF TypeInv, RoomLeft, RowsInOrder, Pairs

\* What holds of earlier pairs goes on to hold.
LEMMA IssuedGrows ==
    ASSUME NEW n \in Nat, NEW m \in Nat, n <= m
    PROVE  /\ \A j : JobOK(j, n) => JobOK(j, m)
           /\ \A c : c \in TabType(n) => c \in TabType(m)
           /\ IssuedBefore(n) \subseteq IssuedBefore(m)
<1>1. IssuedBefore(n) \subseteq IssuedBefore(m)
    BY DEF IssuedBefore
<1>2. ASSUME NEW j, JobOK(j, n) PROVE JobOK(j, m)
    BY <1>1, <1>2 DEF JobOK
<1>3. ASSUME NEW c \in TabType(n) PROVE c \in TabType(m)
    BY <1>1 DEF TabType
<1> QED BY <1>1, <1>2, <1>3

\* A handler that has issued a pair, which the account may not have room for otherwise.
LEMMA IssuerLeaves ==
    ASSUME TypeInv, NEW h \in Handlers, Issuing(h), NEW k, job' = [job EXCEPT ![h] = k],
           ~IssuingJob(k), NextPair' = NextPair + 1
    PROVE  RoomLeft'
<1>1. \A g \in Handlers : job'[g] = IF g = h THEN k ELSE job[g]
    BY DEF TypeInv, Jobs
<1>2. Issuers' = Issuers \ {h}
    BY <1>1 DEF Issuers, Issuing, IssuingJob
<1>3. h \in Issuers /\ IsFiniteSet(Issuers)
    BY DEF Issuers, TypeInv, RoomLeft
<1>4. /\ IsFiniteSet(Issuers \ {h})
      /\ Cardinality(Issuers \ {h}) = Cardinality(Issuers) - 1
    BY <1>3, FS_RemoveElement
<1>5. Cardinality(Issuers) \in Nat /\ NextPair \in Nat
    BY <1>3, FS_CardinalityType DEF TypeInv, RowsInOrder
<1> QED BY <1>2, <1>4, <1>5, AccountAssumption DEF TypeInv, RoomLeft

LEMMA RoomKept ==
    ASSUME TypeInv, job' \in [Handlers -> Job], NextPair' = NextPair,
           \A h \in Handlers : IssuingJob(job'[h]) => IssuingJob(job[h])
    PROVE  RoomLeft'
<1>1. Issuers' \subseteq Issuers
    BY DEF Issuers, Issuing, IssuingJob
<1>2. IsFiniteSet(Issuers)
    BY DEF TypeInv, RoomLeft
<1>3. IsFiniteSet(Issuers') /\ Cardinality(Issuers') <= Cardinality(Issuers)
    BY <1>1, <1>2, FS_Subset
<1>4. Cardinality(Issuers) \in Nat /\ Cardinality(Issuers') \in Nat /\ NextPair \in Nat
    BY <1>2, <1>3, FS_CardinalityType DEF TypeInv, RowsInOrder
<1> QED BY <1>3, <1>4, AccountAssumption DEF TypeInv, RoomLeft

\* Issuing a pair at sign-in and by a rotation.
LEMMA IssueSteps ==
    ASSUME TypeInv, NEW h \in Handlers, IssueTokensForUser(h)
    PROVE  /\ Issuing(h) /\ NextPair \in Pairs /\ job[h].pc = "issue"
           /\ row' = [row EXCEPT ![NextPair] = "live"]
           /\ origin' = [origin EXCEPT ![NextPair] = NextPair]
           /\ signedWith' = [signedWith EXCEPT ![NextPair] = job[h].pwd]
           /\ NextPair' = NextPair + 1 /\ RowsInOrder'
           /\ \E k : /\ job' = [job EXCEPT ![h] = k] /\ JobOK(k, NextPair')
                     /\ ~IssuingJob(k) /\ ~ResettingJob(k) /\ k.pc # "issue"
<1> DEFINE j == job[h]
<1>1. j \in Job /\ JobOK(j, NextPair) /\ job \in [Handlers -> Job] /\ NextPair \in Nat \ {0}
    BY DEF TypeInv, Jobs, RowsInOrder
<1>2. Issuing(h) /\ j.op \in {"register", "login"} /\ j.pc = "issue"
    BY <1>1 DEF IssueTokensForUser, Issuing, IssuingOps, JobOK
<1>3. NextPair \in Pairs
    BY <1>2, RoomForIssuer
<1>4. /\ row' = [row EXCEPT ![NextPair] = "live"]
      /\ origin' = [origin EXCEPT ![NextPair] = NextPair]
      /\ signedWith' = [signedWith EXCEPT ![NextPair] = j.pwd]
    BY DEF IssueTokensForUser, Create
<1>5. NextPair' = NextPair + 1 /\ RowsInOrder'
    <2>1. \A p \in Pairs : row'[p] # "absent" <=> row[p] # "absent" \/ p = NextPair
        BY <1>3, <1>4 DEF TypeInv, Tables
    <2> QED BY <1>3, <2>1, NewRow, AccountAssumption DEF TypeInv, Pairs
<1> DEFINE n == NextPair
           reply == [j EXCEPT !.pc = "reply", !.seen = {}, !.res = httpStatus("OK"), !.out = n]
           k == IF j.tab = NoTab THEN Idle ELSE reply
<1>6. job' = [job EXCEPT ![h] = k]
    BY <1>1 DEF IssueTokensForUser, Return, Answer
<1>7. httpStatus("OK") \in Nat /\ n \in Nat /\ n \in IssuedBefore(n + 1) /\ n + 1 \in Nat \ {0}
    BY <1>1 DEF httpStatus, IssuedBefore
<1> HIDE DEF n
<1>8. /\ reply \in Job /\ reply.pc = "reply" /\ reply.op = j.op /\ reply.out = n
      /\ reply.tok = j.tok /\ reply.slot = j.slot /\ reply.pwd = j.pwd /\ reply.tab = j.tab
    BY <1>1, <1>7 DEF Job
<1> HIDE DEF reply
<1>9. JobOK(j, n + 1)
    BY <1>1, <1>7, IssuedGrows DEF n
<1>10. j.tab # NoTab => JobOK(reply, n + 1)
    BY <1>1, <1>2, <1>7, <1>8, <1>9 DEF JobOK, Job, StepsOf
<1>11. JobOK(k, n + 1)
    BY <1>7, <1>10, IdleOK
<1>12. ~IssuingJob(k) /\ ~ResettingJob(k) /\ k.pc # "issue"
    BY <1>8 DEF IssuingJob, ResettingJob, Idle, IssuingOps
<1> HIDE DEF k
<1> QED BY <1>2, <1>3, <1>4, <1>5, <1>6, <1>11, <1>12 DEF n

LEMMA RotateSteps ==
    ASSUME TypeInv, NEW h \in Handlers, Rotate(h), row[job[h].tok] = "live"
    PROVE  /\ Issuing(h) /\ NextPair \in Pairs
           /\ row' = [row EXCEPT ![job[h].tok] = "revoked", ![NextPair] = "live"]
           /\ origin' = [origin EXCEPT ![NextPair] = origin[job[h].tok]]
           /\ signedWith' = [signedWith EXCEPT ![NextPair] = signedWith[job[h].tok]]
           /\ job[h].tok \in Pairs /\ job[h].tok < NextPair
           /\ NextPair' = NextPair + 1 /\ RowsInOrder'
           /\ \E k : /\ job' = [job EXCEPT ![h] = k] /\ JobOK(k, NextPair')
                     /\ ~IssuingJob(k) /\ ~ResettingJob(k) /\ k.pc # "issue"
<1> DEFINE j == job[h]
<1>1. j \in Job /\ JobOK(j, NextPair) /\ job \in [Handlers -> Job] /\ NextPair \in Nat \ {0}
    BY DEF TypeInv, Jobs, RowsInOrder
<1>2. Issuing(h) /\ j.op = "refresh" /\ j.pc = "rotate"
    BY <1>1 DEF Rotate, At, Issuing, IssuingOps, JobOK
<1>3. NextPair \in Pairs /\ j.tok \in Pairs /\ j.tok < NextPair
    BY <1>2, RoomForIssuer, PresentedWasIssued
<1>4. /\ row' = [row EXCEPT ![j.tok] = "revoked", ![NextPair] = "live"]
      /\ origin' = [origin EXCEPT ![NextPair] = origin[j.tok]]
      /\ signedWith' = [signedWith EXCEPT ![NextPair] = signedWith[j.tok]]
      /\ job' = [job EXCEPT ![h].pc = "cache", ![h].out = NextPair]
    BY DEF Rotate, Create, StillLive
<1>5. NextPair' = NextPair + 1 /\ RowsInOrder'
    <2>1. \A p \in Pairs : row'[p] # "absent" <=> row[p] # "absent" \/ p = NextPair
        BY <1>3, <1>4 DEF TypeInv, Tables
    <2> QED BY <1>3, <2>1, NewRow, AccountAssumption DEF TypeInv, Pairs
<1> DEFINE n == NextPair
           k == [j EXCEPT !.pc = "cache", !.out = n]
<1>6. job' = [job EXCEPT ![h] = k]
    BY <1>1, <1>4
<1>7. n \in Nat \ {0} /\ n \in IssuedBefore(n + 1) /\ n + 1 \in Nat
    BY <1>1 DEF IssuedBefore
<1> HIDE DEF n
<1>8. /\ k \in Job /\ k.pc = "cache" /\ k.op = j.op /\ k.out = n
      /\ k.tok = j.tok /\ k.slot = j.slot /\ k.pwd = j.pwd /\ k.tab = j.tab
    BY <1>1, <1>7 DEF Job
<1> HIDE DEF k
<1>9. JobOK(j, n + 1)
    BY <1>1, <1>7, IssuedGrows DEF n
<1>10. JobOK(k, n + 1)
    BY <1>2, <1>7, <1>8, <1>9 DEF JobOK, StepsOf
<1>11. ~IssuingJob(k) /\ ~ResettingJob(k) /\ k.pc # "issue"
    BY <1>2, <1>7, <1>8 DEF IssuingJob, ResettingJob, NoPair
<1> QED BY <1>2, <1>3, <1>4, <1>5, <1>6, <1>10, <1>11 DEF n

-----------------------------------------------------------------------------
(* Type correctness. *)

LEMMA OneJob ==
    ASSUME TypeInv, NEW h \in Handlers, NEW k, Becomes(h, k)
    PROVE  /\ job' \in [Handlers -> Job]
           /\ \A g \in Handlers : JobOK(job'[g], NextPair)
           /\ \A g \in Handlers : job'[g] = IF g = h THEN k ELSE job[g]
<1>1. k \in Job /\ job \in [Handlers -> Job]
    BY DEF Becomes, JobOK, TypeInv, Jobs
<1>2. \A g \in Handlers : job'[g] = IF g = h THEN k ELSE job[g]
    BY <1>1 DEF Becomes
<1>3. job' \in [Handlers -> Job]
    BY <1>1 DEF Becomes
<1>4. \A g \in Handlers : JobOK(job'[g], NextPair)
    BY <1>2 DEF Becomes, TypeInv, Jobs
<1> QED BY <1>2, <1>3, <1>4

LEMMA QuietType ==
    ASSUME TypeInv, job' \in [Handlers -> Job], \A h \in Handlers : JobOK(job'[h], NextPair),
           \A h \in Handlers : IssuingJob(job'[h]) => IssuingJob(job[h]),
           \A p \in Pairs : row'[p] = "absent" <=> row[p] = "absent", Tables', Clients'
    PROVE  TypeInv'
<1>1. NextPair' = NextPair /\ RowsInOrder'
    BY SameRows DEF TypeInv
<1>2. RoomLeft'
    BY <1>1, RoomKept
<1>3. Jobs'
    BY <1>1 DEF Jobs
<1> QED BY <1>1, <1>2, <1>3 DEF TypeInv

LEMMA ClientsKept ==
    ASSUME TypeInv, UNCHANGED <<tab, req>>, scenario' \in ScenarioType,
           NextPair' = NextPair \/ NextPair' = NextPair + 1
    PROVE  Clients'
<1>1. NextPair \in Nat /\ NextPair' \in Nat /\ NextPair <= NextPair'
    BY DEF TypeInv, RowsInOrder
<1>2. \A c : c \in TabType(NextPair) => c \in TabType(NextPair')
    BY <1>1, IssuedGrows
<1>3. tab \in [Tabs -> TabType(NextPair')]
    BY <1>2 DEF TypeInv, Clients
<1> QED BY <1>3 DEF TypeInv, Clients

\* Steps of a handler that leave the rows alone.
LEMMA TameType ==
    ASSUME TypeInv, NEW h \in Handlers, TameStep(h), UNCHANGED <<tab, req>>,
           scenario' \in ScenarioType
    PROVE  TypeInv'
<1>1. PICK k : Becomes(h, k) /\ Tame(job[h], k)
    BY TameSteps
<1>2. UNCHANGED <<row, origin, signedWith, password>>
    BY TameFrame DEF Tables0
<1>3. NextPair' = NextPair
    BY <1>2, SameRows
<1>4. rotation' \in [Pairs -> IssuedBefore(NextPair)]
    <2>1. CASE CacheRotation(h)
        <3>1. job[h].out \in IssuedBefore(NextPair)
            BY DEF TypeInv, Jobs, JobOK
        <3> QED BY <2>1, <3>1 DEF CacheRotation, TypeInv, Tables
    <2>2. CASE ~CacheRotation(h)
        <3>1. rotation' = rotation
            BY <2>2 DEF TameStep, FindByEmail, FindToken, LockRotation, WaitForCachedRotation,
               UnlockRotation, Blacklist, SnapshotTokens, InvalidateLinks, CreateLink, MailLink,
               DeleteLink, FindLink, CommandFails, HandlerDies, redis
        <3> QED BY <3>1 DEF TypeInv, Tables
    <2> QED BY <2>1, <2>2
<1>5. mailbox' \subseteq Nat
    <2>1. job[h].tok \in Nat
        BY DEF TypeInv, Jobs, Job
    <2>2. mailbox' = mailbox \/ mailbox' = mailbox \cup {job[h].tok}
        BY DEF TameStep, FindByEmail, FindToken, LockRotation, CacheRotation, WaitForCachedRotation,
           UnlockRotation, Blacklist, SnapshotTokens, InvalidateLinks, CreateLink, MailLink,
           DeleteLink, FindLink, CommandFails, HandlerDies
    <2> QED BY <2>1, <2>2 DEF TypeInv, Tables
<1>6. Tables'
    BY <1>2, <1>3, <1>4, <1>5 DEF TypeInv, Tables
<1>7. Clients'
    BY <1>3, ClientsKept
<1>8. \A g \in Handlers : IssuingJob(job'[g]) => IssuingJob(job[g])
    BY <1>1, OneJob DEF Tame
<1> QED BY <1>1, <1>2, <1>6, <1>7, <1>8, OneJob, QuietType

\* The tokens of a revocation that are still live are revoked.
LEMMA RevokeRows ==
    ASSUME TypeInv, NEW h \in Handlers, RevokeTokens(h)
    PROVE  /\ row' \in [Pairs -> {"absent", "live", "revoked", "expired"}]
           /\ \A p \in Pairs : row'[p] = IF p \in job[h].seen /\ row[p] = "live" THEN "revoked"
                                         ELSE row[p]
BY DEF RevokeTokens, TypeInv, Tables

\* Steps of a handler that let in, revoke or reset.
LEMMA GuardedType ==
    ASSUME TypeInv, NEW h \in Handlers,
           \/ VerifyPassword(h) \/ CreateUser(h) \/ RevokeTokens(h) \/ ConsumeLink(h)
           \/ UpdatePassword(h) \/ UserServiceTimeout(h),
           UNCHANGED <<tab, req>>, scenario' \in ScenarioType
    PROVE  TypeInv'
<1>1. \E k : Becomes(h, k) /\ (IssuingJob(k) => IssuingJob(job[h]))
    BY VerifySteps, CreateSteps, RevokeSteps, ConsumeSteps, UpdateSteps
    DEF Tame, LetIn, Resets, IssuingJob, IssuingOps
<1>2. UNCHANGED <<origin, signedWith, rotation, mailbox>>
    BY DEF VerifyPassword, CreateUser, RevokeTokens, ConsumeLink, UpdatePassword, UserServiceTimeout,
       redis, authHistory
<1>3. /\ row' \in [Pairs -> {"absent", "live", "revoked", "expired"}]
      /\ \A p \in Pairs : row'[p] = "absent" <=> row[p] = "absent"
    <2>1. CASE RevokeTokens(h)
        BY <2>1, RevokeRows
    <2>2. CASE ~RevokeTokens(h)
        <3>1. row' = row
            BY <2>2 DEF VerifyPassword, CreateUser, ConsumeLink, UpdatePassword, UserServiceTimeout, stored
        <3> QED BY <3>1 DEF TypeInv, Tables
    <2> QED BY <2>1, <2>2
<1>4. password' \in Passwords \cup {NoPassword}
    <2>1. CASE VerifyPassword(h) \/ RevokeTokens(h) \/ ConsumeLink(h)
        BY <2>1 DEF VerifyPassword, RevokeTokens, ConsumeLink, stored, TypeInv, Tables
    <2>2. CASE CreateUser(h) \/ UpdatePassword(h) \/ UserServiceTimeout(h)
        BY <2>2, CreateSteps, UpdateSteps DEF LetIn, TypeInv, Tables
    <2> QED BY <2>1, <2>2
<1>5. NextPair' = NextPair
    BY <1>3, SameRows
<1>6. Tables'
    BY <1>2, <1>3, <1>4, <1>5 DEF TypeInv, Tables
<1>7. Clients'
    BY <1>5, ClientsKept
<1>8. PICK k : Becomes(h, k) /\ (IssuingJob(k) => IssuingJob(job[h]))
    BY <1>1
<1>9. \A g \in Handlers : IssuingJob(job'[g]) => IssuingJob(job[g])
    BY <1>8, OneJob
<1> QED BY <1>3, <1>6, <1>7, <1>8, <1>9, OneJob, QuietType

\* Steps of a handler that issue a pair, or find that another has done so.
LEMMA IssuingType ==
    ASSUME TypeInv, NEW h \in Handlers, IssueTokensForUser(h) \/ Rotate(h),
           UNCHANGED <<tab, req>>, scenario' \in ScenarioType
    PROVE  TypeInv'
<1>1. UNCHANGED <<password, rotation, mailbox>>
    BY DEF IssueTokensForUser, Rotate, redis
<1>2. CASE Rotate(h) /\ row[job[h].tok] # "live"
    <2>1. /\ job[h].op = "refresh" /\ job[h].pc = "rotate" /\ Goto(h, "awaitLocked")
          /\ UNCHANGED <<row, origin, signedWith>>
        BY <1>2 DEF Rotate, StillLive, At
    <2>2. job[h].out = NoPair /\ StepsOf("refresh", "awaitLocked")
        BY <2>1 DEF TypeInv, Jobs, JobOK, StepsOf
    <2>3. PICK k : Becomes(h, k) /\ Tame(job[h], k)
        BY <2>1, <2>2, TameGoto
    <2>4. NextPair' = NextPair
        BY <2>1, SameRows
    <2>5. Tables'
        BY <1>1, <2>1, <2>4 DEF TypeInv, Tables
    <2>6. Clients'
        BY <2>4, ClientsKept
    <2>7. \A g \in Handlers : IssuingJob(job'[g]) => IssuingJob(job[g])
        BY <2>3, OneJob DEF Tame
    <2> QED BY <2>1, <2>3, <2>5, <2>6, <2>7, OneJob, QuietType
<1>3. ASSUME NextPair \in Pairs, Issuing(h), NextPair' = NextPair + 1, RowsInOrder',
             row' \in [Pairs -> {"absent", "live", "revoked", "expired"}],
             origin' \in [Pairs -> Nat], signedWith' \in [Pairs -> Passwords \cup {NoPassword}],
             NEW k, job' = [job EXCEPT ![h] = k], JobOK(k, NextPair'), ~IssuingJob(k)
      PROVE  TypeInv'
    <2>1. NextPair \in Nat /\ NextPair' \in Nat /\ NextPair <= NextPair'
        BY <1>3 DEF TypeInv, RowsInOrder
    <2>2. rotation' \in [Pairs -> IssuedBefore(NextPair')]
        BY <1>1, <2>1, IssuedGrows DEF TypeInv, Tables
    <2>3. Tables'
        BY <1>1, <1>3, <2>2 DEF TypeInv, Tables
    <2>4. Clients'
        BY <1>3, ClientsKept
    <2>5. k \in Job /\ job' \in [Handlers -> Job]
        BY <1>3 DEF JobOK, TypeInv, Jobs
    <2>6. \A g \in Handlers : job'[g] = IF g = h THEN k ELSE job[g]
        BY <1>3 DEF TypeInv, Jobs
    <2>7. \A g \in Handlers : JobOK(job[g], NextPair')
        BY <2>1, IssuedGrows DEF TypeInv, Jobs
    <2>8. Jobs'
        BY <1>3, <2>5, <2>6, <2>7 DEF Jobs
    <2>9. RoomLeft'
        BY <1>3, IssuerLeaves
    <2> QED BY <1>3, <2>3, <2>4, <2>8, <2>9 DEF TypeInv
<1>4. CASE IssueTokensForUser(h)
    <2>1. job[h].pwd \in Passwords \cup {NoPassword}
        BY DEF TypeInv, Jobs, Job
    <2>2. NextPair \in Nat
        BY DEF TypeInv, RowsInOrder
    <2>3. /\ row' \in [Pairs -> {"absent", "live", "revoked", "expired"}]
          /\ origin' \in [Pairs -> Nat] /\ signedWith' \in [Pairs -> Passwords \cup {NoPassword}]
        BY <1>4, <2>1, <2>2, IssueSteps DEF TypeInv, Tables
    <2> QED BY <1>3, <1>4, <2>3, IssueSteps
<1>5. CASE Rotate(h) /\ row[job[h].tok] = "live"
    <2>1. /\ row' \in [Pairs -> {"absent", "live", "revoked", "expired"}]
          /\ origin' \in [Pairs -> Nat] /\ signedWith' \in [Pairs -> Passwords \cup {NoPassword}]
        BY <1>5, RotateSteps DEF TypeInv, Tables
    <2> QED BY <1>3, <1>5, <2>1, RotateSteps
<1> QED BY <1>2, <1>4, <1>5

-----------------------------------------------------------------------------
(* Type correctness: the tabs. *)

RequestsOK(r) ==
    /\ r \in [Tabs -> [Slots -> RequestType]]
    /\ \A t \in Tabs, s \in Slots : RequestOK(r[t][s])
ClientsOK(c, r, sc) ==
    c \in [Tabs -> TabType(NextPair)] /\ RequestsOK(r) /\ sc \in ScenarioType

LEMMA ClientsAre == TypeInv => ClientsOK(tab, req, scenario)
BY DEF TypeInv, Clients, ClientsOK, RequestsOK

LEMMA NextPairPositive == TypeInv => NextPair \in Nat \ {0} /\ NoPair \in IssuedBefore(NextPair)
BY AccountAssumption DEF TypeInv, RowsInOrder, IssuedBefore, NoPair

\* The functions of AuthContext.
LEMMA TabSteps ==
    ASSUME NEW n \in Nat \ {0}, NEW c \in TabType(n), NEW p \in IssuedBefore(n), NEW kind
    PROVE  /\ [c EXCEPT !.refreshing = TRUE] \in TabType(n)
           /\ [applyTokens(c, p) EXCEPT !.refreshing = FALSE] \in TabType(n)
           /\ [clearSession(c) EXCEPT !.refreshing = FALSE, !.booting = FALSE] \in TabType(n)
           /\ Failed(c, kind) \in TabType(n) /\ Failed(clearSession(c), kind) \in TabType(n)
           /\ Succeeded(c, kind, p) \in TabType(n)
           /\ [SignedOut EXCEPT !.stored = c.stored, !.booting = c.stored # NoPair] \in TabType(n)
           /\ \A d \in TabType(n) : [d EXCEPT !.stored = c.stored, !.booting = TRUE] \in TabType(n)
<1>1. 0 \in IssuedBefore(n)
    BY DEF IssuedBefore
<1>2. /\ [c EXCEPT !.refreshing = TRUE] \in TabType(n)
      /\ [applyTokens(c, p) EXCEPT !.refreshing = FALSE] \in TabType(n)
      /\ [clearSession(c) EXCEPT !.refreshing = FALSE, !.booting = FALSE] \in TabType(n)
    BY <1>1 DEF TabType, applyTokens, clearSession, NoPair
<1>3. clearSession(c) \in TabType(n) /\ [applyTokens(c, p) EXCEPT !.user = TRUE] \in TabType(n)
    BY <1>1 DEF TabType, applyTokens, clearSession, NoPair
<1>4. ASSUME NEW d \in TabType(n)
      PROVE  /\ [clearSession(d) EXCEPT !.booting = FALSE] \in TabType(n)
             /\ clearSession(d) \in TabType(n)
    BY <1>1 DEF TabType, clearSession, NoPair
<1>5. \A d \in TabType(n) : Failed(d, kind) \in TabType(n)
    BY <1>4 DEF Failed
<1>6. [c EXCEPT !.user = TRUE, !.booting = FALSE] \in TabType(n)
    BY DEF TabType
<1>7. Succeeded(c, kind, p) \in TabType(n)
    BY <1>3, <1>6 DEF Succeeded
<1>8. [SignedOut EXCEPT !.stored = c.stored, !.booting = c.stored # NoPair] \in TabType(n)
    <2> DEFINE b == c.stored # NoPair
    <2>1. b \in BOOLEAN /\ c.stored \in IssuedBefore(n)
        BY DEF TabType
    <2> HIDE DEF b
    <2>2. [SignedOut EXCEPT !.stored = c.stored, !.booting = b] \in TabType(n)
        BY <1>1, <2>1 DEF TabType, SignedOut, NoPair
    <2> QED BY <2>2 DEF b
<1>9. \A d \in TabType(n) : [d EXCEPT !.stored = c.stored, !.booting = TRUE] \in TabType(n)
    BY DEF TabType
<1> QED BY <1>2, <1>3, <1>5, <1>7, <1>8, <1>9

LEMMA NoRequestOK == RequestOK(NoRequest)
BY DEF RequestOK, RequestType, NoRequest, NoPair, NoLink, Operations

LEMMA OneRequest ==
    ASSUME RequestsOK(req), NEW t \in Tabs, NEW s \in Slots, NEW r, RequestOK(r),
           req' = [req EXCEPT ![t][s] = r]
    PROVE  RequestsOK(req')
<1>1. r \in RequestType
    BY DEF RequestOK
<1>2. req' \in [Tabs -> [Slots -> RequestType]]
    BY <1>1 DEF RequestsOK
<1>3. \A u \in Tabs, v \in Slots : req'[u][v] = IF u = t /\ v = s THEN r ELSE req[u][v]
    BY DEF RequestsOK
<1> QED BY <1>2, <1>3 DEF RequestsOK

LEMMA RequestMoves ==
    ASSUME RequestsOK(req), NEW t \in Tabs, NEW s \in Slots,
           NEW pc \in {"unauthorized", "joined", "serving"}, req' = [req EXCEPT ![t][s].pc = pc]
    PROVE  RequestsOK(req')
<1> DEFINE r == [req[t][s] EXCEPT !.pc = pc]
<1>1. req[t][s] \in RequestType /\ RequestOK(req[t][s])
    BY DEF RequestsOK
<1>2. r \in RequestType /\ r.kind = req[t][s].kind /\ r.pwd = req[t][s].pwd
    BY <1>1 DEF RequestType
<1>3. req' = [req EXCEPT ![t][s] = r]
    OBVIOUS
<1> HIDE DEF r
<1>4. RequestOK(r)
    BY <1>1, <1>2 DEF RequestOK
<1> QED BY <1>3, <1>4, OneRequest

LEMMA DoneIsOK ==
    ASSUME RequestsOK(req), NEW t \in Tabs, NEW s \in Slots, Done(t, s)
    PROVE  RequestsOK(req')
BY OneRequest, NoRequestOK DEF Done

LEMMA ScenarioSteps == TypeInv /\ (Submits \/ Faults \/ Reloads) => scenario' \in ScenarioType
<1> SUFFICES ASSUME TypeInv, Submits \/ Faults \/ Reloads PROVE scenario' \in ScenarioType
    OBVIOUS
<1>1. scenario \in ScenarioType
    BY DEF TypeInv, Clients
<1> QED BY <1>1 DEF ScenarioType, Submits, Faults, Reloads

\* The tabs change, and perhaps who is waiting for a handler.
LEMMA ClientType ==
    ASSUME TypeInv, ClientsOK(tab', req', scenario'),
           UNCHANGED <<password, row, origin, signedWith, rotation, mailbox>>,
           job' \in [Handlers -> Job], \A h \in Handlers : JobOK(job'[h], NextPair),
           \A h \in Handlers : IssuingJob(job'[h]) => IssuingJob(job[h])
    PROVE  TypeInv'
<1>1. NextPair' = NextPair
    BY SameRows
<1>2. Tables'
    BY <1>1 DEF TypeInv, Tables
<1>3. Clients'
    BY <1>1 DEF Clients, ClientsOK, RequestsOK
<1> QED BY <1>2, <1>3, QuietType

LEMMA ClientTypeOnly ==
    ASSUME TypeInv, ClientsOK(tab', req', scenario'), UNCHANGED authVars
    PROVE  TypeInv'
<1>1. UNCHANGED <<password, row, origin, signedWith, rotation, mailbox, job>>
    BY DEF authVars, stored, redis, authHistory
<1>2. job' \in [Handlers -> Job] /\ \A h \in Handlers : JobOK(job'[h], NextPair)
    BY <1>1 DEF TypeInv, Jobs
<1> QED BY <1>1, <1>2, ClientType

LEMMA SendType ==
    ASSUME TypeInv, NEW t \in Tabs, NEW s \in Slots, NEW kind \in Operations \cup {"boot"},
           NEW pwd \in Passwords \cup {NoPassword}, NEW l \in Nat,
           kind \in {"register", "login", "reset"} => pwd \in Passwords,
           Send(t, s, kind, pwd, l)
    PROVE  TypeInv' /\ UNCHANGED authVars
<1> DEFINE used == tab[t].access
           r == [pc |-> "sent", kind |-> kind, used |-> used, retried |-> FALSE, pwd |-> pwd, link |-> l]
<1>1. used \in Nat
    BY NextPairPositive DEF TypeInv, Clients, TabType, IssuedBefore
<1>2. req' = [req EXCEPT ![t][s] = r]
    BY DEF Send
<1> HIDE DEF used
<1>3. RequestOK(r)
    BY <1>1 DEF RequestOK, RequestType
<1> HIDE DEF r
<1>4. RequestsOK(req')
    BY <1>2, <1>3, OneRequest, ClientsAre DEF ClientsOK
<1>5. scenario' \in ScenarioType
    BY ScenarioSteps, ClientsAre DEF Send, ClientsOK
<1>6. tab' = tab /\ UNCHANGED authVars
    BY DEF Send
<1>7. ClientsOK(tab', req', scenario')
    BY <1>4, <1>5, <1>6, ClientsAre DEF ClientsOK
<1> QED BY <1>6, <1>7, ClientTypeOnly

\* A call that arrives: the first step of its method.
Arrives(h, op, k) ==
    /\ Becomes(h, k) /\ k.op = op /\ k.pc # "issue" /\ ~ResettingJob(k)
    /\ IssuingJob(k) => op \in IssuingOps

LEMMA ServeSteps ==
    ASSUME TypeInv, NEW h \in Handlers, NEW op \in Served \cup {"refresh"}, NEW t \in Tabs,
           NEW s \in Slots \cup {NoSlot}, op \in Served => s \in Slots, NEW tok \in Nat,
           op = "refresh" => tok \in IssuedBefore(NextPair) \ {NoPair},
           NEW pwd \in Passwords \cup {NoPassword},
           op \in {"register", "login", "reset"} => pwd \in Passwords,
           Serve(h, op, t, s, tok, pwd)
    PROVE  job[h] = Idle /\ \E k : Arrives(h, op, k)
<1> DEFINE first == FirstStep(op)
           k == [Idle EXCEPT !.op = op, !.pc = first, !.tab = t, !.slot = s, !.tok = tok, !.pwd = pwd]
<1>1. /\ StepsOf(op, first)
      /\ first \in {"findByEmail", "verifyPassword", "findToken", "blacklist", "findLink"}
    BY DEF FirstStep, StepsOf, Served, Forms
<1>2. job[h] = Idle /\ job' = [job EXCEPT ![h] = k]
    BY DEF Serve
<1> HIDE DEF first
<1>3. /\ k \in Job /\ k.op = op /\ k.pc = first /\ k.tab = t /\ k.slot = s /\ k.tok = tok
      /\ k.pwd = pwd /\ k.out = NoPair
    BY <1>1 DEF Job, Idle, NoPair
<1> HIDE DEF k
<1>4. JobOK(k, NextPair)
    BY <1>1, <1>3, NextPairPositive DEF JobOK
<1>5. ~ResettingJob(k) /\ k.pc # "issue" /\ (IssuingJob(k) => op \in IssuingOps)
    BY <1>1, <1>3 DEF ResettingJob, IssuingJob
<1> QED BY <1>2, <1>3, <1>4, <1>5 DEF Arrives, Becomes

\* The call is only taken while there is a pair left for it.
LEMMA ServeRoom ==
    ASSUME TypeInv, NEW h \in Handlers, NEW op, Room(op), NEW k, Arrives(h, op, k),
           NextPair' = NextPair
    PROVE  RoomLeft'
<1>1. \A g \in Handlers : job'[g] = IF g = h THEN k ELSE job[g]
    BY OneJob DEF Arrives
<1>2. CASE op \notin IssuingOps
    <2>1. \A g \in Handlers : IssuingJob(job'[g]) => IssuingJob(job[g])
        BY <1>1, <1>2 DEF Arrives
    <2> QED BY <2>1, RoomKept, OneJob DEF Arrives
<1>3. CASE op \in IssuingOps
    <2>1. Issuers' \subseteq Issuers \cup {h}
        BY <1>1 DEF Issuers, Issuing
    <2>2. IsFiniteSet(Issuers) /\ NextPair + Cardinality(Issuers) <= MaxPairs
        <3>1. op \in IssuingOps => op # "forgot"
            BY DEF IssuingOps
        <3>2. NextPair + Cardinality(Issuers) <= MaxPairs
            BY <1>3, <3>1 DEF Room, Issuers
        <3> QED BY <3>2 DEF TypeInv, RoomLeft
    <2>3. /\ IsFiniteSet(Issuers \cup {h}) /\ Cardinality(Issuers) \in Nat
          /\ Cardinality(Issuers \cup {h}) <= Cardinality(Issuers) + 1
        <3> DEFINE I == Issuers
        <3>1. IsFiniteSet(I)
            BY <2>2
        <3> HIDE DEF I
        <3>2. Cardinality(I) \in Nat
            BY <3>1, FS_CardinalityType
        <3>3. /\ IsFiniteSet(I \cup {h})
              /\ Cardinality(I \cup {h}) = IF h \in I THEN Cardinality(I) ELSE Cardinality(I) + 1
            BY <3>1, FS_AddElement
        <3>4. Cardinality(I \cup {h}) <= Cardinality(I) + 1
            BY <3>2, <3>3
        <3> QED BY <3>2, <3>3, <3>4 DEF I
    <2>4. /\ IsFiniteSet(Issuers') /\ Cardinality(Issuers') <= Cardinality(Issuers \cup {h})
          /\ Cardinality(Issuers \cup {h}) \in Nat /\ Cardinality(Issuers') \in Nat
        BY <2>1, <2>3, FS_Subset, FS_CardinalityType
    <2> DEFINE n == NextPair
               a == Cardinality(Issuers)
               b == Cardinality(Issuers \cup {h})
               c == Cardinality(Issuers')
    <2>5. n \in Nat /\ MaxPairs \in Nat /\ a \in Nat /\ b \in Nat /\ c \in Nat /\ n + a <= MaxPairs
          /\ b <= a + 1 /\ c <= b
        BY <2>2, <2>3, <2>4, AccountAssumption DEF TypeInv, RowsInOrder
    <2> HIDE DEF n, a, b, c
    <2>6. n + c <= MaxPairs + 1
        BY <2>5
    <2> QED BY <2>4, <2>6 DEF RoomLeft, n, c
<1> QED BY <1>2, <1>3

LEMMA ServeType ==
    ASSUME TypeInv, NEW h \in Handlers, NEW op, Room(op), NEW k, Arrives(h, op, k),
           ClientsOK(tab', req', scenario'),
           UNCHANGED <<password, row, origin, signedWith, rotation, mailbox>>
    PROVE  TypeInv'
<1>1. NextPair' = NextPair /\ RowsInOrder'
    BY SameRows DEF TypeInv
<1>2. Tables' /\ Clients'
    BY <1>1 DEF TypeInv, Tables, Clients, ClientsOK, RequestsOK
<1>3. Jobs'
    BY <1>1, OneJob DEF Jobs, Arrives
<1>4. RoomLeft'
    BY <1>1, ServeRoom
<1> QED BY <1>1, <1>2, <1>3, <1>4 DEF TypeInv

\* An answer, the end of a refresh and that of any other request.
LEMMA AfterRefreshOK ==
    ASSUME RequestsOK(req), NEW t \in Tabs, NEW p \in Nat, AfterRefresh(t, p)
    PROVE  RequestsOK(req')
<1> DEFINE new(s) == IF req[t][s].pc # "joined" THEN req[t][s]
                     ELSE IF p = NoPair THEN NoRequest
                     ELSE [req[t][s] EXCEPT !.pc = "sent", !.used = p, !.retried = TRUE]
           f == [s \in Slots |-> new(s)]
<1>1. req \in [Tabs -> [Slots -> RequestType]]
    BY DEF RequestsOK
<1>2. req' = [req EXCEPT ![t] = f]
    BY <1>1 DEF AfterRefresh
<1>3. ASSUME NEW s \in Slots PROVE RequestOK(new(s))
    <2> DEFINE r == req[t][s]
               again == [r EXCEPT !.pc = "sent", !.used = p, !.retried = TRUE]
    <2>1. r \in RequestType /\ RequestOK(r)
        BY <1>1 DEF RequestsOK
    <2>2. again \in RequestType /\ again.kind = r.kind /\ again.pwd = r.pwd
        <3> HIDE DEF r
        <3> QED BY <2>1 DEF RequestType
    <2>3. RequestOK(again)
        <3> HIDE DEF again
        <3> QED BY <2>1, <2>2 DEF RequestOK
    <2> HIDE DEF again
    <2>4. new(s) = r \/ new(s) = NoRequest \/ new(s) = again
        BY DEF again
    <2> QED BY <2>1, <2>3, <2>4, NoRequestOK
<1> HIDE DEF new
<1>4. f \in [Slots -> RequestType] /\ \A s \in Slots : f[s] = new(s)
    BY <1>3 DEF RequestOK
<1> HIDE DEF f
<1>5. req' \in [Tabs -> [Slots -> RequestType]]
    BY <1>1, <1>2, <1>4
<1>6. \A u \in Tabs, s \in Slots : req'[u][s] = IF u = t THEN new(s) ELSE req[u][s]
    BY <1>1, <1>2, <1>4
<1> QED BY <1>3, <1>5, <1>6 DEF RequestsOK

\* One tab changes.
LEMMA OneTab ==
    ASSUME TypeInv, NEW t \in Tabs, NEW c \in TabType(NextPair), tab' = [tab EXCEPT ![t] = c]
    PROVE  tab' \in [Tabs -> TabType(NextPair)]
BY DEF TypeInv, Clients

LEMMA TabIs == ASSUME TypeInv, NEW t \in Tabs PROVE tab[t] \in TabType(NextPair)
BY DEF TypeInv, Clients

LEMMA RequestsAre == TypeInv => RequestsOK(req)
BY ClientsAre DEF ClientsOK

LEMMA UnauthorizedOK ==
    ASSUME TypeInv, NEW t \in Tabs, NEW s \in Slots, Unauthorized(t, s)
    PROVE  tab' \in [Tabs -> TabType(NextPair)] /\ RequestsOK(req')
<1>1. CASE req' = [req EXCEPT ![t][s].pc = "unauthorized"] /\ UNCHANGED tab
    BY <1>1, RequestsAre, RequestMoves, ClientsAre DEF ClientsOK
<1>2. CASE Done(t, s) /\ tab' = [tab EXCEPT ![t] = Failed(@, req[t][s].kind)]
    <2>1. Failed(tab[t], req[t][s].kind) \in TabType(NextPair)
        BY TabIs, TabSteps, NextPairPositive
    <2>2. tab' = [tab EXCEPT ![t] = Failed(tab[t], req[t][s].kind)]
        BY <1>2 DEF TypeInv, Clients
    <2> QED BY <1>2, <2>1, <2>2, OneTab, RequestsAre, DoneIsOK
<1> QED BY <1>1, <1>2 DEF Unauthorized

LEMMA EndsOK ==
    ASSUME TypeInv, NEW h \in Handlers, job[h].tab \in Tabs, job[h].op # "none",
           NEW status, NEW p \in IssuedBefore(NextPair), Ends(h, status, p)
    PROVE  tab' \in [Tabs -> TabType(NextPair)] /\ RequestsOK(req')
<1> DEFINE t == job[h].tab
           s == job[h].slot
           c == tab[t]
<1>1. /\ NextPair \in Nat \ {0} /\ NoPair \in IssuedBefore(NextPair) /\ p \in Nat
      /\ c \in TabType(NextPair)
    BY NextPairPositive, TabIs DEF IssuedBefore
<1>2. tab \in [Tabs -> TabType(NextPair)] /\ RequestsOK(req)
    BY ClientsAre DEF ClientsOK
<1>3. CASE job[h].op = "refresh"
    <2>1. RefreshEnds(t, status, p)
        BY <1>3 DEF Ends
    <2>2. AfterRefresh(t, p) \/ AfterRefresh(t, NoPair)
        BY <2>1 DEF RefreshEnds
    <2>3. RequestsOK(req')
        BY <1>1, <1>2, <2>2, AfterRefreshOK DEF NoPair
    <2>4. \/ tab' = [tab EXCEPT ![t] = [applyTokens(c, p) EXCEPT !.refreshing = FALSE]]
          \/ tab' = [tab EXCEPT ![t] = [clearSession(c) EXCEPT !.refreshing = FALSE, !.booting = FALSE]]
        BY <1>2, <2>1 DEF RefreshEnds
    <2>5. /\ [applyTokens(c, p) EXCEPT !.refreshing = FALSE] \in TabType(NextPair)
          /\ [clearSession(c) EXCEPT !.refreshing = FALSE, !.booting = FALSE] \in TabType(NextPair)
        BY <1>1, TabSteps
    <2> QED BY <2>3, <2>4, <2>5, OneTab
<1>4. CASE job[h].op # "refresh"
    <2>1. s \in Slots /\ ServedEnds(t, s, status, p)
        BY <1>4 DEF Ends, TypeInv, Jobs, Job, JobOK
    <2> DEFINE kind == req[t][s].kind
    <2>2. \/ Unauthorized(t, s)
          \/ Done(t, s) /\ tab' = [tab EXCEPT ![t] = Succeeded(c, kind, p)]
          \/ Done(t, s) /\ tab' = [tab EXCEPT ![t] = Failed(c, kind)]
        BY <1>2, <2>1 DEF ServedEnds
    <2>3. Succeeded(c, kind, p) \in TabType(NextPair) /\ Failed(c, kind) \in TabType(NextPair)
        BY <1>1, TabSteps
    <2> QED BY <1>2, <2>1, <2>2, <2>3, UnauthorizedOK, OneTab, DoneIsOK
<1> QED BY <1>3, <1>4

\* What the users do in their tabs.
LEMMA FormType ==
    ASSUME TypeInv, NEW t \in Tabs, NEW s \in Slots,
           \/ Browse(t, s) \/ SubmitLogin(t, s) \/ SubmitRegister(t, s)
           \/ SubmitForgotPassword(t, s) \/ SubmitResetPassword(t, s) \/ BootProfile(t, s)
    PROVE  TypeInv' /\ UNCHANGED authVars
<1>1. scenario.typed \subseteq Passwords /\ mailbox \subseteq Nat /\ NoLink \in Nat
    BY DEF TypeInv, Clients, Tables, ScenarioType, NoLink
<1>2. {"me", "logout", "login", "register", "forgot", "reset"} \subseteq Operations
    BY DEF Operations
<1>3. CASE Browse(t, s)
    BY <1>1, <1>2, <1>3, SendType DEF Browse
<1>4. CASE SubmitLogin(t, s)
    BY <1>1, <1>2, <1>4, SendType DEF SubmitLogin
<1>5. CASE SubmitRegister(t, s)
    BY <1>1, <1>2, <1>5, SendType DEF SubmitRegister
<1>6. CASE SubmitForgotPassword(t, s)
    BY <1>1, <1>2, <1>6, SendType DEF SubmitForgotPassword
<1>7. CASE SubmitResetPassword(t, s)
    <2>1. PICK pwd \in scenario.typed, l \in mailbox : Send(t, s, "reset", pwd, l)
        BY <1>7 DEF SubmitResetPassword
    <2> QED BY <1>1, <1>2, <2>1, SendType
<1>8. CASE BootProfile(t, s)
    BY <1>1, <1>2, <1>8, SendType DEF BootProfile
<1> QED BY <1>3, <1>4, <1>5, <1>6, <1>7, <1>8

\* A handler whose caller has given up.
LEMMA LeftAlone ==
    ASSUME NEW j, NEW n, JobOK(j, n), j.pc # "reply"
    PROVE  /\ JobOK([j EXCEPT !.tab = NoTab], n)
           /\ Tame(j, [j EXCEPT !.tab = NoTab])
<1> DEFINE k == [j EXCEPT !.tab = NoTab]
<1>1. j \in Job
    BY DEF JobOK
<1>2. /\ k \in Job /\ k.pc = j.pc /\ k.op = j.op /\ k.out = j.out /\ k.tok = j.tok
      /\ k.slot = j.slot /\ k.pwd = j.pwd /\ k.seen = j.seen
    BY <1>1 DEF Job
<1> HIDE DEF k
<1>3. JobOK(k, n)
    BY <1>2 DEF JobOK
<1>4. Tame(j, k)
    BY <1>2 DEF Tame, IssuingJob, ResettingJob
<1> QED BY <1>3, <1>4 DEF k

LEMMA ReloadSteps ==
    ASSUME TypeInv, NEW t \in Tabs, Reload(t)
    PROVE  /\ job' \in [Handlers -> Job] /\ \A h \in Handlers : JobOK(job'[h], NextPair)
           /\ \A h \in Handlers : Tame(job[h], job'[h])
<1>1. job' = [h \in Handlers |->
                IF job[h].tab # t THEN job[h]
                ELSE IF job[h].pc = "reply" THEN Idle ELSE [job[h] EXCEPT !.tab = NoTab]]
    BY DEF Reload
<1>2. ASSUME NEW h \in Handlers PROVE JobOK(job'[h], NextPair) /\ Tame(job[h], job'[h])
    <2>1. JobOK(job[h], NextPair) /\ NextPair \in Nat \ {0}
        BY NextPairPositive DEF TypeInv, Jobs
    <2>2. \/ job'[h] = job[h] \/ job'[h] = Idle
          \/ job'[h] = [job[h] EXCEPT !.tab = NoTab] /\ job[h].pc # "reply"
        BY <1>1
    <2>3. Tame(job[h], job[h])
        BY DEF Tame
    <2>4. JobOK(Idle, NextPair) /\ Tame(job[h], Idle)
        BY <2>1, IdleOK, Settles DEF Idle
    <2> QED BY <2>1, <2>2, <2>3, <2>4, LeftAlone
<1>3. job' \in [Handlers -> Job]
    <2>1. \A h \in Handlers : job'[h] \in Job
        BY <1>2 DEF JobOK
    <2> QED BY <1>1, <2>1
<1> QED BY <1>2, <1>3

LEMMA ReloadType ==
    ASSUME TypeInv, NEW t \in Tabs, Reload(t)
    PROVE  TypeInv'
<1> DEFINE c == [SignedOut EXCEPT !.stored = tab[t].stored, !.booting = tab[t].stored # NoPair]
           f == [s \in Slots |-> NoRequest]
<1>1. c \in TabType(NextPair)
    BY TabSteps, TabIs, NextPairPositive
<1>2. tab' = [tab EXCEPT ![t] = c] /\ req' = [req EXCEPT ![t] = f]
    BY DEF Reload
<1> HIDE DEF c
<1>3. RequestsOK(req')
    <2>1. NoRequest \in RequestType /\ req \in [Tabs -> [Slots -> RequestType]]
        BY NoRequestOK, RequestsAre DEF RequestOK, RequestsOK
    <2>2. req' \in [Tabs -> [Slots -> RequestType]]
        BY <1>2, <2>1
    <2>3. \A u \in Tabs, s \in Slots : req'[u][s] = IF u = t THEN NoRequest ELSE req[u][s]
        BY <1>2, <2>1
    <2> QED BY <2>2, <2>3, NoRequestOK, RequestsAre DEF RequestsOK
<1>4. scenario' \in ScenarioType
    BY ScenarioSteps DEF Reload
<1>5. ClientsOK(tab', req', scenario')
    BY <1>1, <1>2, <1>3, <1>4, OneTab DEF ClientsOK
<1>6. UNCHANGED <<password, row, origin, signedWith, rotation, mailbox>>
    BY DEF Reload, stored, redis, authHistory
<1> QED BY <1>5, <1>6, ReloadSteps, ClientType DEF Tame

LEMMA DuplicateType ==
    ASSUME TypeInv, NEW t \in Tabs, NEW u \in Tabs, DuplicateTab(t, u)
    PROVE  TypeInv'
<1> DEFINE c == [tab[u] EXCEPT !.stored = tab[t].stored, !.booting = TRUE]
<1>1. c \in TabType(NextPair)
    BY TabSteps, TabIs, NextPairPositive
<1>2. tab' = [tab EXCEPT ![u] = c] /\ UNCHANGED <<authVars, req>>
    BY DEF DuplicateTab, TypeInv, Clients
<1> HIDE DEF c
<1>3. scenario' \in ScenarioType
    BY ScenarioSteps DEF DuplicateTab
<1> QED BY <1>1, <1>2, <1>3, OneTab, RequestsAre, ClientTypeOnly DEF ClientsOK

\* The refresh of a tab.
LEMMA RefreshStarts ==
    ASSUME TypeInv, NEW t \in Tabs, NEW h \in Handlers, StartRefresh(t, h)
    PROVE  job[h] = Idle /\ Room("refresh") /\ \E k : Arrives(h, "refresh", k)
<1> DEFINE tok == tab[t].stored
<1>1. tok \in IssuedBefore(NextPair) \ {NoPair} /\ Serve(h, "refresh", t, NoSlot, tok, NoPassword)
    BY TabIs DEF StartRefresh, TabType
<1>2. tok \in Nat
    BY <1>1, NextPairPositive DEF IssuedBefore
<1>3. "refresh" \notin Served
    BY DEF Served, Forms
<1> HIDE DEF tok
<1> QED BY <1>1, <1>2, <1>3, ServeSteps DEF Serve

LEMMA RefreshingTab ==
    ASSUME TypeInv, NEW t \in Tabs, tab' = [tab EXCEPT ![t].refreshing = TRUE]
    PROVE  tab' \in [Tabs -> TabType(NextPair)]
<1> DEFINE c == [tab[t] EXCEPT !.refreshing = TRUE]
<1>1. c \in TabType(NextPair)
    BY TabIs DEF TabType
<1>2. tab' = [tab EXCEPT ![t] = c]
    OBVIOUS
<1> HIDE DEF c
<1> QED BY <1>1, <1>2, OneTab

LEMMA BootRefreshType ==
    ASSUME TypeInv, NEW t \in Tabs, NEW h \in Handlers, BootRefresh(t, h)
    PROVE  TypeInv'
<1>1. ClientsOK(tab', req', scenario')
    BY RefreshingTab, ClientsAre DEF BootRefresh, ClientsOK
<1>2. UNCHANGED <<password, row, origin, signedWith, rotation, mailbox>>
    BY DEF BootRefresh, stored, redis
<1>3. StartRefresh(t, h)
    BY DEF BootRefresh
<1> QED BY <1>1, <1>2, <1>3, RefreshStarts, ServeType

LEMMA Refresh401Type ==
    ASSUME TypeInv, NEW t \in Tabs, NEW s \in Slots, RefreshAfter401(t, s)
    PROVE  TypeInv'
<1>1. UNCHANGED <<password, row, origin, signedWith, rotation, mailbox, scenario>>
    BY DEF RefreshAfter401, stored, redis
<1>2. ClientsOK(tab, req, scenario)
    BY ClientsAre
<1>3. job \in [Handlers -> Job] /\ \A h \in Handlers : JobOK(job[h], NextPair)
    BY DEF TypeInv, Jobs
<1>4. CASE req' = [req EXCEPT ![t][s].pc = "joined"] /\ UNCHANGED <<tab, job, overlap>>
    <2>1. ClientsOK(tab', req', scenario')
        BY <1>1, <1>2, <1>4, RequestMoves DEF ClientsOK
    <2> QED BY <1>1, <1>3, <1>4, <2>1, ClientType
<1>5. CASE /\ tab' = [tab EXCEPT ![t] = Failed(clearSession(@), req[t][s].kind)]
           /\ Done(t, s) /\ UNCHANGED <<job, overlap>>
    <2> DEFINE c == Failed(clearSession(tab[t]), req[t][s].kind)
    <2>1. c \in TabType(NextPair)
        BY TabSteps, TabIs, NextPairPositive
    <2>2. tab' = [tab EXCEPT ![t] = c]
        BY <1>5, <1>2 DEF ClientsOK
    <2> HIDE DEF c
    <2>3. ClientsOK(tab', req', scenario')
        BY <1>1, <1>2, <1>5, <2>1, <2>2, OneTab, DoneIsOK DEF ClientsOK
    <2> QED BY <1>1, <1>3, <1>5, <2>3, ClientType
<1>6. CASE /\ \E h \in Handlers : StartRefresh(t, h)
           /\ tab' = [tab EXCEPT ![t].refreshing = TRUE]
           /\ req' = [req EXCEPT ![t][s].pc = "joined"]
    <2>1. ClientsOK(tab', req', scenario')
        BY <1>1, <1>2, <1>6, RefreshingTab, RequestMoves DEF ClientsOK
    <2> QED BY <1>1, <1>6, <2>1, RefreshStarts, ServeType
<1> QED BY <1>4, <1>5, <1>6 DEF RefreshAfter401

\* A request that is handed to auth-service.
Hands(h, t, s) == AuthController(h, t, s) \/ PasswordRoutes(h, t, s)

LEMMA HandsOver ==
    ASSUME TypeInv, NEW t \in Tabs, NEW s \in Slots, NEW h \in Handlers, Hands(h, t, s)
    PROVE  /\ job[h] = Idle
           /\ \E op : Room(op) /\ (\E k : Arrives(h, op, k))
                      /\ overlap' = (overlap \/ (op \in IssuingOps /\ \E g \in Handlers : Resetting(g)))
<1> DEFINE r == req[t][s]
<1>1. r \in RequestType /\ RequestOK(r)
    BY RequestsAre DEF RequestsOK
<1>2. PICK op \in Served, tok \in Nat, pwd \in Passwords \cup {NoPassword} :
        /\ op \in {"register", "login", "reset"} => pwd \in Passwords
        /\ Serve(h, op, t, s, tok, pwd)
    <2>1. CASE AuthController(h, t, s)
        <3>1. r.kind \in {"register", "login", "logout"} /\ Serve(h, r.kind, t, s, r.used, r.pwd)
            BY <2>1 DEF AuthController
        <3>2. r.used \in Nat /\ r.pwd \in Passwords \cup {NoPassword}
              /\ (r.kind \in {"register", "login", "reset"} => r.pwd \in Passwords)
            BY <1>1 DEF RequestOK, RequestType
        <3>3. r.kind \in Served
            BY <3>1 DEF Served, Forms
        <3> QED BY <3>1, <3>2, <3>3
    <2>2. CASE PasswordRoutes(h, t, s)
        <3>1. \/ Serve(h, "forgot", t, s, NoPair, NoPassword)
              \/ r.kind = "reset" /\ Serve(h, "reset", t, s, r.link, r.pwd)
            BY <2>2 DEF PasswordRoutes
        <3>2. r.link \in Nat /\ (r.kind = "reset" => r.pwd \in Passwords) /\ NoPair \in Nat
            BY <1>1 DEF RequestOK, RequestType, NoPair
        <3>3. "forgot" \in Served /\ "reset" \in Served
            BY DEF Served, Forms
        <3> QED BY <3>1, <3>2, <3>3
    <2> QED BY <2>1, <2>2 DEF Hands
<1>3. op # "refresh"
    BY DEF Served, Forms
<1>4. job[h] = Idle /\ \E k : Arrives(h, op, k)
    BY <1>2, <1>3, ServeSteps
<1> QED BY <1>2, <1>4 DEF Serve

LEMMA DispatchType ==
    ASSUME TypeInv, NEW t \in Tabs, NEW s \in Slots, Dispatch(t, s)
    PROVE  TypeInv'
<1> DEFINE r == req[t][s]
<1>1. ClientsOK(tab, req, scenario) /\ scenario' = scenario
    BY ClientsAre DEF Dispatch
<1>2. CASE Unauthorized(t, s) /\ UNCHANGED authVars
    BY <1>1, <1>2, UnauthorizedOK, ClientTypeOnly DEF ClientsOK
<1>3. CASE Done(t, s) /\ tab' = [tab EXCEPT ![t] = Succeeded(@, r.kind, NoPair)] /\ UNCHANGED authVars
    <2> DEFINE c == Succeeded(tab[t], r.kind, NoPair)
    <2>1. c \in TabType(NextPair)
        BY TabSteps, TabIs, NextPairPositive
    <2>2. tab' = [tab EXCEPT ![t] = c]
        BY <1>1, <1>3 DEF ClientsOK
    <2> HIDE DEF c
    <2> QED BY <1>1, <1>3, <2>1, <2>2, OneTab, DoneIsOK, ClientTypeOnly DEF ClientsOK
<1>4. CASE /\ \E h \in Handlers : Hands(h, t, s)
           /\ req' = [req EXCEPT ![t][s].pc = "serving"]
           /\ UNCHANGED <<stored, redis, expired, mailbox, game, origin, signedWith, tab>>
    <2>1. ClientsOK(tab', req', scenario')
        BY <1>1, <1>4, RequestMoves DEF ClientsOK
    <2>2. UNCHANGED <<password, row, origin, signedWith, rotation, mailbox>>
        BY <1>4 DEF stored, redis
    <2> QED BY <1>4, <2>1, <2>2, HandsOver, ServeType
<1> QED BY <1>2, <1>3, <1>4 DEF Dispatch, Hands

\* The answer, or the end of the wait for it.
LEMMA ReceiveSteps ==
    ASSUME TypeInv, NEW h \in Handlers, Receive(h) \/ Timeout(h)
    PROVE  \E k : Becomes(h, k) /\ Tame(job[h], k)
<1>1. JobOK(job[h], NextPair) /\ NextPair \in Nat \ {0} /\ job \in [Handlers -> Job]
    BY NextPairPositive DEF TypeInv, Jobs
<1>2. CASE Receive(h)
    <2>1. JobOK(Idle, NextPair) /\ Tame(job[h], Idle)
        BY <1>1, IdleOK, Settles DEF Idle
    <2> QED BY <1>2, <2>1 DEF Receive, Becomes
<1>3. CASE Timeout(h)
    <2> DEFINE k == [job[h] EXCEPT !.tab = NoTab]
    <2>1. job' = [job EXCEPT ![h] = k] /\ job[h].pc # "reply"
        BY <1>3 DEF Timeout
    <2> HIDE DEF k
    <2>2. JobOK(k, NextPair) /\ Tame(job[h], k)
        BY <1>1, <2>1, LeftAlone DEF k
    <2> QED BY <2>1, <2>2 DEF Becomes
<1> QED BY <1>2, <1>3

LEMMA ReceiveType ==
    ASSUME TypeInv, NEW h \in Handlers, Receive(h) \/ Timeout(h)
    PROVE  TypeInv'
<1>1. JobOK(job[h], NextPair) /\ job[h] \in Job
    BY DEF TypeInv, Jobs
<1>2. job[h].tab \in Tabs /\ job[h].op # "none"
    BY <1>1 DEF Receive, Timeout, JobOK, Job, StepsOf
<1>3. job[h].out \in IssuedBefore(NextPair) /\ NoPair \in IssuedBefore(NextPair)
    BY <1>1, NextPairPositive DEF JobOK
<1>4. tab' \in [Tabs -> TabType(NextPair)] /\ RequestsOK(req')
    BY <1>2, <1>3, EndsOK DEF Receive, Timeout
<1>5. scenario' \in ScenarioType
    BY ScenarioSteps, ClientsAre DEF Receive, Timeout, ClientsOK
<1>6. UNCHANGED <<password, row, origin, signedWith, rotation, mailbox>>
    BY DEF Receive, Timeout, stored, redis, authHistory
<1>7. PICK k : Becomes(h, k) /\ Tame(job[h], k)
    BY ReceiveSteps
<1>8. \A g \in Handlers : IssuingJob(job'[g]) => IssuingJob(job[g])
    BY <1>7, OneJob DEF Tame
<1> QED BY <1>4, <1>5, <1>6, <1>7, <1>8, OneJob, ClientType DEF ClientsOK

LEMMA InitType == Init => TypeInv
<1> SUFFICES ASSUME Init PROVE TypeInv
    OBVIOUS
<1>1. scenario \in ScenarioType /\ AuthInit(scenario.account)
    BY ScenarioAssumption DEF Init, ScenarioType
<1>2. scenario.account \in Passwords \cup {NoPassword}
    BY <1>1 DEF ScenarioType
<1>3. row = [p \in Pairs |-> "absent"] /\ job = [h \in Handlers |-> Idle]
    BY <1>1 DEF AuthInit
<1>4. NextPair = 1
    <2>1. {p \in Pairs : row[p] # "absent"} = {}
        BY <1>3
    <2>2. Cardinality({p \in Pairs : row[p] # "absent"}) = 0
        BY <2>1, FS_EmptySet
    <2> QED BY <2>2 DEF NextPair
<1>5. 0 \in IssuedBefore(1) /\ NextPair \in Nat \ {0}
    BY <1>4 DEF IssuedBefore
<1>6. Tables
    BY <1>1, <1>2, <1>3, <1>4, <1>5 DEF Tables, AuthInit, NoPair
<1>7. Clients
    <2>1. SignedOut \in TabType(1)
        BY <1>5 DEF SignedOut, TabType, NoPair
    <2>2. NoRequest \in RequestType
        BY NoRequestOK DEF RequestOK
    <2>3. /\ tab = [t \in Tabs |-> SignedOut] /\ req = [t \in Tabs |-> [s \in Slots |-> NoRequest]]
        BY DEF Init
    <2>4. tab \in [Tabs -> TabType(1)] /\ req \in [Tabs -> [Slots -> RequestType]]
        BY <2>1, <2>2, <2>3
    <2>5. \A t \in Tabs, s \in Slots : req[t][s] = NoRequest
        BY <2>3
    <2> QED BY <1>1, <1>4, <2>4, <2>5, NoRequestOK DEF Clients
<1>8. Jobs
    <2>1. JobOK(Idle, NextPair)
        BY <1>5, IdleOK
    <2>2. \A h \in Handlers : job[h] = Idle
        BY <1>3
    <2>3. job \in [Handlers -> Job]
        BY <1>3, <2>1 DEF JobOK
    <2> QED BY <2>1, <2>2, <2>3 DEF Jobs
<1>9. RowsInOrder
    BY <1>3, <1>4, AccountAssumption DEF RowsInOrder, Pairs
<1>10. RoomLeft
    <2>1. Issuers = {}
        BY <1>3 DEF Issuers, Issuing, Idle, IssuingOps
    <2>2. IsFiniteSet(Issuers) /\ Cardinality(Issuers) = 0
        BY <2>1, FS_EmptySet
    <2> QED BY <1>4, <2>2, AccountAssumption DEF RoomLeft
<1> QED BY <1>6, <1>7, <1>8, <1>9, <1>10 DEF TypeInv

-----------------------------------------------------------------------------
(* The steps of the system, as the tokens see them. *)

\* Nothing happens to the tokens and the password.
QuietStep == UNCHANGED Tables0 /\ \A h \in Handlers : Tame(job[h], job'[h])
\* A call arrives at a handler.
ArrivalStep ==
    /\ UNCHANGED <<row, origin, signedWith, password>>
    /\ \E h \in Handlers : \E op :
          /\ job[h] = Idle /\ \E k : Arrives(h, op, k)
          /\ overlap' = (overlap \/ (op \in IssuingOps /\ \E g \in Handlers : Resetting(g)))
\* A handler issues, revokes, lets in or resets.
TokenStep ==
    \E h \in Handlers :
       \/ VerifyPassword(h) \/ CreateUser(h) \/ RevokeTokens(h) \/ ConsumeLink(h)
       \/ UpdatePassword(h) \/ UserServiceTimeout(h) \/ IssueTokensForUser(h) \/ Rotate(h)

Steps == QuietStep \/ ArrivalStep \/ TokenStep \/ \E p \in Pairs : RefreshTokenExpires(p)

LEMMA SameJobs ==
    ASSUME UNCHANGED <<row, origin, signedWith, password, overlap, job>> PROVE QuietStep
BY DEF QuietStep, Tables0, Tame

LEMMA NoneJobs == ASSUME UNCHANGED authVars PROVE QuietStep
<1>1. UNCHANGED <<row, origin, signedWith, password, overlap, job>>
    BY DEF authVars, stored, authHistory
<1> QED BY <1>1, SameJobs

LEMMA TameOthers ==
    ASSUME TypeInv, NEW h \in Handlers, NEW k, Becomes(h, k), Tame(job[h], k)
    PROVE  \A g \in Handlers : Tame(job[g], job'[g])
<1>1. \A g \in Handlers : job'[g] = IF g = h THEN k ELSE job[g]
    BY OneJob
<1>2. \A g \in Handlers : Tame(job[g], job[g])
    BY DEF Tame
<1> QED BY <1>1, <1>2

LEMMA OneTame ==
    ASSUME TypeInv, NEW h \in Handlers, NEW k, Becomes(h, k), Tame(job[h], k), UNCHANGED Tables0
    PROVE  QuietStep
BY TameOthers DEF QuietStep

LEMMA NextSteps ==
    ASSUME TypeInv, [Next]_vars
    PROVE  TypeInv' /\ Steps
<1>1. ClientsOK(tab, req, scenario) /\ scenario \in ScenarioType
    BY ClientsAre DEF ClientsOK
<1>2. ASSUME UNCHANGED <<password, row, origin, signedWith, rotation, mailbox, job>>,
             UNCHANGED overlap, UNCHANGED <<tab, req, scenario>>
      PROVE  TypeInv' /\ Steps
    <2>1. ClientsOK(tab', req', scenario')
        BY <1>1, <1>2 DEF ClientsOK
    <2>2. TypeInv'
        BY <1>2, <2>1, ClientType DEF TypeInv, Jobs
    <2> QED BY <1>2, <2>2, SameJobs DEF Steps
<1>3. CASE UNCHANGED vars
    BY <1>2, <1>3 DEF vars, authVars, clientVars, stored, redis, authHistory
<1>4. ASSUME NEW t \in Tabs, NEW s \in Slots,
             \/ Browse(t, s) \/ SubmitLogin(t, s) \/ SubmitRegister(t, s)
             \/ SubmitForgotPassword(t, s) \/ SubmitResetPassword(t, s) \/ BootProfile(t, s)
      PROVE  TypeInv' /\ Steps
    BY <1>4, FormType, NoneJobs DEF Steps
<1>5. ASSUME NEW t \in Tabs, NEW s \in Slots, Dispatch(t, s)
      PROVE  TypeInv' /\ Steps
    <2>1. CASE UNCHANGED authVars
        BY <1>5, <2>1, DispatchType, NoneJobs DEF Steps
    <2>2. CASE /\ \E h \in Handlers : Hands(h, t, s)
               /\ UNCHANGED <<stored, redis, expired, mailbox, game, origin, signedWith, tab>>
        <3>1. UNCHANGED <<row, origin, signedWith, password>>
            BY <2>2 DEF stored
        <3>2. ArrivalStep
            BY <2>2, <3>1, HandsOver DEF ArrivalStep
        <3> QED BY <1>5, <3>2, DispatchType DEF Steps
    <2> QED BY <1>5, <2>1, <2>2 DEF Dispatch, Hands
<1>6. ASSUME NEW t \in Tabs, NEW h \in Handlers, StartRefresh(t, h),
             UNCHANGED <<row, origin, signedWith, password>>
      PROVE  ArrivalStep
    <2>1. overlap' = (overlap \/ ("refresh" \in IssuingOps /\ \E g \in Handlers : Resetting(g)))
        BY <1>6 DEF StartRefresh, Serve
    <2> QED BY <1>6, <2>1, RefreshStarts DEF ArrivalStep
<1>7. ASSUME NEW t \in Tabs, NEW s \in Slots, RefreshAfter401(t, s)
      PROVE  TypeInv' /\ Steps
    <2>1. UNCHANGED <<row, origin, signedWith, password>>
        BY <1>7 DEF RefreshAfter401, stored
    <2>2. (UNCHANGED <<job, overlap>>) \/ \E h \in Handlers : StartRefresh(t, h)
        BY <1>7 DEF RefreshAfter401
    <2> QED BY <1>6, <1>7, <2>1, <2>2, Refresh401Type, SameJobs DEF Steps
<1>8. ASSUME NEW t \in Tabs, NEW h \in Handlers, BootRefresh(t, h)
      PROVE  TypeInv' /\ Steps
    BY <1>6, <1>8, BootRefreshType DEF BootRefresh, stored, Steps
<1>9. ASSUME NEW t \in Tabs, Reload(t)
      PROVE  TypeInv' /\ Steps
    <2>1. UNCHANGED Tables0
        BY <1>9 DEF Reload, Tables0, stored, authHistory
    <2> QED BY <1>9, <2>1, ReloadType, ReloadSteps DEF Steps, QuietStep
<1>10. ASSUME NEW t \in Tabs, OpenSocket(t) \/ TokenExpires(t)
       PROVE  TypeInv' /\ Steps
    BY <1>2, <1>10 DEF OpenSocket, TokenExpires, VerifyToken, AccessTokenExpires, clientVars, stored,
       redis, authHistory
<1>11. ASSUME NEW t \in Tabs, NEW u \in Tabs, DuplicateTab(t, u)
       PROVE  TypeInv' /\ Steps
    BY <1>11, DuplicateType, NoneJobs DEF DuplicateTab, Steps
<1>12. ASSUME NEW h \in Handlers, Receive(h) \/ Timeout(h)
       PROVE  TypeInv' /\ Steps
    <2>1. UNCHANGED Tables0
        BY <1>12 DEF Receive, Timeout, Tables0, stored, authHistory
    <2> QED BY <1>12, <2>1, ReceiveType, ReceiveSteps, OneTame DEF Steps
<1>13. ASSUME NEW h \in Handlers, UNCHANGED <<tab, req>>, scenario' \in ScenarioType,
              \/ HandlerStep(h) \/ CommandFails(h) \/ UserServiceTimeout(h) \/ HandlerDies(h)
       PROVE  TypeInv' /\ Steps
    <2>1. CASE TameStep(h)
        BY <1>13, <2>1, TameType, TameSteps, TameFrame, OneTame DEF Steps
    <2>2. CASE \/ VerifyPassword(h) \/ CreateUser(h) \/ RevokeTokens(h) \/ ConsumeLink(h)
               \/ UpdatePassword(h) \/ UserServiceTimeout(h)
        BY <1>13, <2>2, GuardedType DEF Steps, TokenStep
    <2>3. CASE IssueTokensForUser(h) \/ Rotate(h)
        BY <1>13, <2>3, IssuingType DEF Steps, TokenStep
    <2> QED BY <1>13, <2>1, <2>2, <2>3 DEF HandlerStep, TameStep
<1>14. ASSUME NEW h \in Handlers, HandlerStep(h), UNCHANGED clientVars
       PROVE  TypeInv' /\ Steps
    BY <1>1, <1>13, <1>14 DEF clientVars
<1>15. ASSUME NEW p \in Pairs, CacheVerified(p) \/ EntryExpires(p), UNCHANGED clientVars
       PROVE  TypeInv' /\ Steps
    BY <1>2, <1>15 DEF CacheVerified, EntryExpires, clientVars, stored, redis, authHistory
<1>16. CASE Fault
    <2>1. scenario' \in ScenarioType /\ UNCHANGED <<tab, req>>
        BY <1>16, ScenarioSteps DEF Fault
    <2>2. CASE \E h \in Handlers : CommandFails(h) \/ UserServiceTimeout(h) \/ HandlerDies(h)
        BY <1>13, <2>1, <2>2
    <2>3. CASE \E p \in Pairs : RotationExpires(p) \/ RefreshTokenExpires(p)
        <3>1. PICK p \in Pairs : RotationExpires(p) \/ RefreshTokenExpires(p)
            BY <2>3
        <3>2. UNCHANGED <<password, origin, signedWith, mailbox, job, overlap>>
            BY <3>1 DEF RotationExpires, RefreshTokenExpires, stored, authHistory
        <3>3. /\ row' \in [Pairs -> {"absent", "live", "revoked", "expired"}]
              /\ \A q \in Pairs : row'[q] = "absent" <=> row[q] = "absent"
            BY <3>1 DEF RotationExpires, RefreshTokenExpires, stored, TypeInv, Tables
        <3>4. rotation' \in [Pairs -> IssuedBefore(NextPair)]
            BY <3>1, NextPairPositive DEF RotationExpires, RefreshTokenExpires, redis, TypeInv, Tables
        <3>5. NextPair' = NextPair
            BY <3>3, SameRows
        <3>6. Tables' /\ Clients'
            BY <2>1, <3>2, <3>3, <3>4, <3>5, ClientsKept DEF TypeInv, Tables
        <3>7. TypeInv'
            BY <3>2, <3>3, <3>6, QuietType DEF TypeInv, Jobs
        <3>8. RotationExpires(p) => QuietStep
            <4>1. RotationExpires(p) => row' = row
                BY DEF RotationExpires, stored
            <4> QED BY <3>2, <4>1, SameJobs
        <3> QED BY <3>1, <3>7, <3>8 DEF Steps
    <2> QED BY <1>16, <2>2, <2>3 DEF Fault
<1> QED BY <1>3, <1>4, <1>5, <1>7, <1>8, <1>9, <1>10, <1>11, <1>12, <1>14, <1>15, <1>16 DEF Next

-----------------------------------------------------------------------------
(* One live token per sign-in. *)

LiveInv == OriginsAreOlder /\ OneLiveTokenPerSignIn

Shrinks ==
    /\ UNCHANGED origin
    /\ \A p \in Pairs : (row'[p] = "live" => row[p] = "live") /\ (row'[p] = "absent" <=> row[p] = "absent")

LEMMA ShrinksKeepsLive == LiveInv /\ Shrinks => LiveInv'
BY DEF LiveInv, Shrinks, OriginsAreOlder, OneLiveTokenPerSignIn, Pairs

\* The token of a sign-in has no predecessor.
LEMMA IssueKeepsLive ==
    ASSUME TypeInv, LiveInv, NEW h \in Handlers, IssueTokensForUser(h)
    PROVE  LiveInv'
<1> DEFINE n == NextPair
<1>1. /\ n \in Pairs /\ row' = [row EXCEPT ![n] = "live"] /\ origin' = [origin EXCEPT ![n] = n]
    BY IssueSteps
<1>2. /\ row \in [Pairs -> {"absent", "live", "revoked", "expired"}] /\ origin \in [Pairs -> Nat]
      /\ \A p \in Pairs : row[p] # "absent" => p < n
    BY DEF TypeInv, Tables, RowsInOrder
<1>3. \A p \in Pairs : row[p] # "absent" => origin[p] <= p
    BY DEF LiveInv, OriginsAreOlder
<1>4. \A p, q \in Pairs : row[p] = "live" /\ row[q] = "live" /\ origin[p] = origin[q] => p = q
    BY DEF LiveInv, OneLiveTokenPerSignIn
<1> HIDE DEF n
<1>5. \A p \in Pairs : /\ row'[p] = IF p = n THEN "live" ELSE row[p]
                       /\ origin'[p] = IF p = n THEN n ELSE origin[p]
    BY <1>1, <1>2
<1>6. \A p \in Pairs : row'[p] # "absent" => origin'[p] <= p
    BY <1>1, <1>3, <1>5 DEF Pairs
<1>7. ASSUME NEW q \in Pairs, row[q] = "live" PROVE origin[q] # n
    BY <1>1, <1>2, <1>3, <1>7, AccountAssumption DEF Pairs
<1>8. \A p, q \in Pairs : row'[p] = "live" /\ row'[q] = "live" /\ origin'[p] = origin'[q] => p = q
    BY <1>4, <1>5, <1>7
<1> QED BY <1>6, <1>8 DEF LiveInv, OriginsAreOlder, OneLiveTokenPerSignIn, Pairs

\* The token of a rotation takes the place of the one that was presented.
LEMMA RotateKeepsLive ==
    ASSUME TypeInv, LiveInv, NEW h \in Handlers, Rotate(h), row[job[h].tok] = "live"
    PROVE  LiveInv'
<1> DEFINE n == NextPair
           tok == job[h].tok
<1>1. /\ n \in Pairs /\ tok \in Pairs /\ tok < n
      /\ row' = [row EXCEPT ![tok] = "revoked", ![n] = "live"]
      /\ origin' = [origin EXCEPT ![n] = origin[tok]]
    BY RotateSteps
<1>2. /\ row \in [Pairs -> {"absent", "live", "revoked", "expired"}] /\ origin \in [Pairs -> Nat]
      /\ row[tok] = "live"
    BY DEF TypeInv, Tables
<1>3. \A p \in Pairs : row[p] # "absent" => origin[p] <= p
    BY DEF LiveInv, OriginsAreOlder
<1>4. \A p, q \in Pairs : row[p] = "live" /\ row[q] = "live" /\ origin[p] = origin[q] => p = q
    BY DEF LiveInv, OneLiveTokenPerSignIn
<1> HIDE DEF n, tok
<1>5. \A p \in Pairs : /\ row'[p] = IF p = n THEN "live" ELSE IF p = tok THEN "revoked" ELSE row[p]
                       /\ origin'[p] = IF p = n THEN origin[tok] ELSE origin[p]
    BY <1>1, <1>2
<1>6. origin[tok] <= n
    BY <1>1, <1>2, <1>3 DEF Pairs
<1>7. \A p \in Pairs : row'[p] # "absent" => origin'[p] <= p
    BY <1>1, <1>2, <1>3, <1>5, <1>6
<1>8. \A p, q \in Pairs : row'[p] = "live" /\ row'[q] = "live" /\ origin'[p] = origin'[q] => p = q
    BY <1>1, <1>2, <1>4, <1>5
<1> QED BY <1>7, <1>8 DEF LiveInv, OriginsAreOlder, OneLiveTokenPerSignIn, Pairs

LEMMA LiveSteps ==
    ASSUME TypeInv, LiveInv, Steps
    PROVE  LiveInv'
<1>1. CASE QuietStep \/ ArrivalStep
    <2>1. Shrinks
        BY <1>1 DEF QuietStep, ArrivalStep, Tables0, Shrinks
    <2> QED BY <2>1, ShrinksKeepsLive
<1>2. CASE \E p \in Pairs : RefreshTokenExpires(p)
    <2>1. Shrinks
        BY <1>2 DEF RefreshTokenExpires, authHistory, Shrinks, TypeInv, Tables
    <2> QED BY <2>1, ShrinksKeepsLive
<1>3. CASE TokenStep
    <2>1. PICK h \in Handlers :
            \/ VerifyPassword(h) \/ CreateUser(h) \/ RevokeTokens(h) \/ ConsumeLink(h)
            \/ UpdatePassword(h) \/ UserServiceTimeout(h) \/ IssueTokensForUser(h) \/ Rotate(h)
        BY <1>3 DEF TokenStep
    <2>2. CASE RevokeTokens(h)
        <3>1. Shrinks
            BY <2>2, RevokeRows DEF RevokeTokens, authHistory, Shrinks
        <3> QED BY <3>1, ShrinksKeepsLive
    <2>3. CASE IssueTokensForUser(h) \/ (Rotate(h) /\ row[job[h].tok] = "live")
        BY <2>3, IssueKeepsLive, RotateKeepsLive
    <2>4. CASE UNCHANGED <<row, origin>>
        <3>1. Shrinks
            BY <2>4 DEF Shrinks
        <3> QED BY <3>1, ShrinksKeepsLive
    <2>5. CASE \/ VerifyPassword(h) \/ CreateUser(h) \/ ConsumeLink(h)
               \/ UpdatePassword(h) \/ UserServiceTimeout(h)
        BY <2>4, <2>5 DEF VerifyPassword, CreateUser, ConsumeLink, UpdatePassword, UserServiceTimeout,
           stored, authHistory
    <2>6. CASE Rotate(h) /\ row[job[h].tok] # "live"
        BY <2>4, <2>6 DEF Rotate, StillLive
    <2> QED BY <2>1, <2>2, <2>3, <2>5, <2>6
<1> QED BY <1>1, <1>2, <1>3 DEF Steps

\* A sign-in has at most one live refresh token, however many handlers rotate it at the
\* same time and whenever the lock between them expires: AuthService.refreshTokens revokes
\* the presented token only while it is live, in the transaction that creates its successor.
THEOREM TokenIsReplacedOnce == Spec => []OneLiveTokenPerSignIn
<1>1. Init => TypeInv /\ LiveInv
    <2>1. Init => LiveInv
        BY DEF Init, AuthInit, LiveInv, OriginsAreOlder, OneLiveTokenPerSignIn
    <2> QED BY <2>1, InitType
<1>2. TypeInv /\ LiveInv /\ [Next]_vars => (TypeInv /\ LiveInv)'
    BY NextSteps, LiveSteps
<1>3. LiveInv => OneLiveTokenPerSignIn
    BY DEF LiveInv
<1> QED BY <1>1, <1>2, <1>3, PTL DEF Spec

-----------------------------------------------------------------------------
(* A reset ends the old sessions. *)

\* The parts of ResetSound that speak of handlers.
LEMMA JobForms ==
    ASSUME NEW h
    PROVE  /\ Issuing(h) <=> IssuingJob(job[h])
           /\ Resetting(h) <=> ResettingJob(job[h])
           /\ At(h, "reset", "revoke") => Resetting(h)
           /\ At(h, "reset", "updatePassword") => Resetting(h)
BY DEF Issuing, Resetting, IssuingJob, ResettingJob, At

\* A sign-in that has been let in is about to issue, and has typed its password.
LEMMA LetInIssues ==
    ASSUME TypeInv, NEW h \in Handlers, job[h].pc = "issue"
    PROVE  Issuing(h) /\ job[h].pwd \in Passwords
<1>1. JobOK(job[h], NextPair)
    BY DEF TypeInv, Jobs
<1>2. job[h].op \in {"register", "login"}
    BY <1>1 DEF JobOK, StepsOf
<1> QED BY <1>1, <1>2 DEF JobOK, Issuing, IssuingOps

\* Handlers that go on as they were, while tokens may only end.
LEMMA TameReset ==
    ASSUME ResetSound, overlap' = overlap, UNCHANGED <<password, signedWith>>,
           \A p \in Pairs : row'[p] = "live" => row[p] = "live",
           \A h \in Handlers : Tame(job[h], job'[h])
    PROVE  ResetSound'
<1> SUFFICES ASSUME ~overlap'
             PROVE  (LiveIsCurrent /\ Apart /\ SeenAll /\ NoneLeft /\ LetInKnows)'
    BY DEF ResetSound
<1>1. LiveIsCurrent /\ Apart /\ SeenAll /\ NoneLeft /\ LetInKnows
    BY DEF ResetSound
<1>2. LiveTokens' \subseteq LiveTokens
    BY DEF LiveTokens, Pairs
<1>3. LiveIsCurrent'
    BY <1>1 DEF LiveIsCurrent, Pairs
<1>4. Apart'
    BY <1>1 DEF Apart, Tame, Issuing, Resetting, IssuingJob, ResettingJob
<1>5. SeenAll' /\ NoneLeft'
    <2>1. ASSUME NEW h \in Handlers, ResettingJob(job'[h])
          PROVE  job[h].op = "reset" /\ job[h].pc = job'[h].pc /\ job[h].seen = job'[h].seen
        BY <2>1 DEF Tame, ResettingJob
    <2>2. SeenAll'
        BY <1>1, <1>2, <2>1 DEF SeenAll, At, ResettingJob
    <2>3. NoneLeft'
        BY <1>1, <1>2, <2>1 DEF NoneLeft, At, ResettingJob
    <2> QED BY <2>2, <2>3
<1>6. LetInKnows'
    BY <1>1 DEF LetInKnows, Tame
<1> QED BY <1>3, <1>4, <1>5, <1>6

\* One handler changes; what has to be shown of it.
LEMMA OneReset ==
    ASSUME TypeInv, NEW h \in Handlers, NEW k, job' = [job EXCEPT ![h] = k],
           Apart, SeenAll, NoneLeft, LetInKnows, LiveIsCurrent',
           LiveTokens' \subseteq LiveTokens \/ \A g \in Handlers : ~Resetting(g),
           password' = password \/ \A g \in Handlers : g # h => job[g].pc # "issue",
           IssuingJob(k) => \A g \in Handlers : ~Resetting(g) \/ g = h,
           ResettingJob(k) => \A g \in Handlers : ~Issuing(g) \/ g = h,
           ~(IssuingJob(k) /\ ResettingJob(k)),
           k.op = "reset" /\ k.pc = "revoke" => LiveTokens' \subseteq k.seen,
           k.op = "reset" /\ k.pc = "updatePassword" => LiveTokens' = {},
           k.pc = "issue" => k.pwd = password'
    PROVE  (LiveIsCurrent /\ Apart /\ SeenAll /\ NoneLeft /\ LetInKnows)'
<1>1. \A g \in Handlers : job'[g] = IF g = h THEN k ELSE job[g]
    BY DEF TypeInv, Jobs
<1>2. Apart'
    BY <1>1 DEF Apart, Issuing, Resetting, IssuingJob, ResettingJob
<1>3. SeenAll'
    <2> SUFFICES ASSUME NEW g \in Handlers, At(g, "reset", "revoke")'
                 PROVE  LiveTokens' \subseteq job'[g].seen
        BY DEF SeenAll
    <2>1. CASE g = h
        BY <1>1, <2>1 DEF At
    <2>2. CASE g # h
        <3>1. At(g, "reset", "revoke") /\ job'[g] = job[g]
            BY <1>1, <2>2 DEF At
        <3>2. Resetting(g) /\ LiveTokens \subseteq job[g].seen
            BY <3>1, JobForms DEF SeenAll
        <3> QED BY <3>1, <3>2
    <2> QED BY <2>1, <2>2
<1>4. NoneLeft'
    <2> SUFFICES ASSUME NEW g \in Handlers, At(g, "reset", "updatePassword")'
                 PROVE  LiveTokens' = {}
        BY DEF NoneLeft
    <2>1. CASE g = h
        BY <1>1, <2>1 DEF At
    <2>2. CASE g # h
        <3>1. At(g, "reset", "updatePassword") /\ job'[g] = job[g]
            BY <1>1, <2>2 DEF At
        <3>2. Resetting(g) /\ LiveTokens = {}
            BY <3>1, JobForms DEF NoneLeft
        <3> QED BY <3>2
    <2> QED BY <2>1, <2>2
<1>5. LetInKnows'
    BY <1>1 DEF LetInKnows
<1> QED BY <1>2, <1>3, <1>4, <1>5

LEMMA ArrivalReset ==
    ASSUME TypeInv, ResetSound, ArrivalStep
    PROVE  ResetSound'
<1> SUFFICES ASSUME ~overlap'
             PROVE  (LiveIsCurrent /\ Apart /\ SeenAll /\ NoneLeft /\ LetInKnows)'
    BY DEF ResetSound
<1> PICK h \in Handlers :
        \E op : /\ job[h] = Idle /\ \E k : Arrives(h, op, k)
                /\ overlap' = (overlap \/ (op \in IssuingOps /\ \E g \in Handlers : Resetting(g)))
    BY DEF ArrivalStep
<1>1. PICK op :
        /\ job[h] = Idle /\ \E k : Arrives(h, op, k)
        /\ overlap' = (overlap \/ (op \in IssuingOps /\ \E g \in Handlers : Resetting(g)))
    OBVIOUS
<1>2. PICK k : Arrives(h, op, k)
    BY <1>1
<1>3. ~overlap /\ (op \in IssuingOps => \A g \in Handlers : ~Resetting(g))
    BY <1>1
<1>4. LiveIsCurrent /\ Apart /\ SeenAll /\ NoneLeft /\ LetInKnows
    BY <1>3 DEF ResetSound
<1>5. UNCHANGED <<row, signedWith, password>>
    BY DEF ArrivalStep
<1>6. LiveIsCurrent' /\ LiveTokens' = LiveTokens
    BY <1>4, <1>5 DEF LiveIsCurrent, LiveTokens, Pairs
<1>7. /\ job' = [job EXCEPT ![h] = k] /\ ~ResettingJob(k) /\ k.pc # "issue"
      /\ IssuingJob(k) => \A g \in Handlers : ~Resetting(g)
    BY <1>2, <1>3 DEF Arrives, Becomes
<1>8. /\ ~(k.op = "reset" /\ k.pc = "revoke")
      /\ ~(k.op = "reset" /\ k.pc = "updatePassword")
    BY <1>7 DEF ResettingJob
<1> QED BY <1>4, <1>5, <1>6, <1>7, <1>8, OneReset

\* A handler lets a user in who knows the password, or has just set it.
LEMMA LetInReset ==
    ASSUME TypeInv, ResetSound, NEW h \in Handlers, NEW k, LetIn(h, k),
           UNCHANGED <<row, signedWith, overlap>>,
           (password = k.pwd /\ password' = password) \/ (password = NoPassword /\ password' = k.pwd)
    PROVE  ResetSound'
<1> SUFFICES ASSUME ~overlap
             PROVE  (LiveIsCurrent /\ Apart /\ SeenAll /\ NoneLeft /\ LetInKnows)'
    BY DEF ResetSound
<1>1. LiveIsCurrent /\ Apart /\ SeenAll /\ NoneLeft /\ LetInKnows
    BY DEF ResetSound
<1>2. /\ job' = [job EXCEPT ![h] = k] /\ Issuing(h) /\ ~ResettingJob(k) /\ k.pc = "issue"
      /\ k.op \in {"register", "login"}
    BY DEF LetIn, Becomes, Issuing, IssuingOps, ResettingJob
<1>3. \A g \in Handlers : ~Resetting(g)
    BY <1>1, <1>2 DEF Apart
<1>4. LiveIsCurrent' /\ LiveTokens' = LiveTokens
    BY <1>1 DEF LiveIsCurrent, LiveTokens, Pairs
<1>5. password' = password \/ \A g \in Handlers : g # h => job[g].pc # "issue"
    <2>1. ASSUME NEW g \in Handlers, job[g].pc = "issue", password = NoPassword PROVE FALSE
        BY <1>1, <2>1, LetInIssues, AccountAssumption DEF LetInKnows
    <2> QED BY <2>1
<1>6. k.pwd = password'
    OBVIOUS
<1> QED BY <1>1, <1>2, <1>3, <1>4, <1>5, <1>6, OneReset

\* A pair is issued to who was let in, or in the place of a live one.
LEMMA IssueReset ==
    ASSUME TypeInv, ResetSound, NEW h \in Handlers,
           IssueTokensForUser(h) \/ (Rotate(h) /\ row[job[h].tok] = "live")
    PROVE  ResetSound'
<1> DEFINE n == NextPair
<1>1. UNCHANGED <<password, overlap>>
    BY DEF IssueTokensForUser, Rotate
<1> SUFFICES ASSUME ~overlap
             PROVE  (LiveIsCurrent /\ Apart /\ SeenAll /\ NoneLeft /\ LetInKnows)'
    BY <1>1 DEF ResetSound
<1>2. LiveIsCurrent /\ Apart /\ SeenAll /\ NoneLeft /\ LetInKnows
    BY DEF ResetSound
<1>3. PICK k : job' = [job EXCEPT ![h] = k] /\ ~IssuingJob(k) /\ ~ResettingJob(k) /\ k.pc # "issue"
    BY IssueSteps, RotateSteps
<1>4. Issuing(h) /\ n \in Pairs
    BY IssueSteps, RotateSteps
<1>5. \A g \in Handlers : ~Resetting(g)
    BY <1>2, <1>4 DEF Apart
<1>6. /\ row \in [Pairs -> {"absent", "live", "revoked", "expired"}]
      /\ signedWith \in [Pairs -> Passwords \cup {NoPassword}]
    BY DEF TypeInv, Tables
<1>7. /\ \A p \in Pairs : p # n /\ row'[p] = "live" => row[p] = "live"
      /\ \A p \in Pairs : p # n => signedWith'[p] = signedWith[p]
      /\ signedWith'[n] = password /\ password # NoPassword
    <2>1. CASE IssueTokensForUser(h)
        <3>1. /\ row' = [row EXCEPT ![n] = "live"] /\ job[h].pc = "issue"
              /\ signedWith' = [signedWith EXCEPT ![n] = job[h].pwd]
            BY <2>1, IssueSteps
        <3>2. job[h].pwd = password /\ password # NoPassword
            BY <1>2, <3>1, LetInIssues, AccountAssumption DEF LetInKnows
        <3> HIDE DEF n
        <3> QED BY <1>4, <1>6, <3>1, <3>2
    <2>2. CASE Rotate(h) /\ row[job[h].tok] = "live"
        <3> DEFINE tok == job[h].tok
        <3>1. /\ row' = [row EXCEPT ![tok] = "revoked", ![n] = "live"] /\ tok \in Pairs
              /\ signedWith' = [signedWith EXCEPT ![n] = signedWith[tok]]
            BY <2>2, RotateSteps
        <3>2. signedWith[tok] = password /\ password # NoPassword
            BY <1>2, <2>2, <3>1 DEF LiveIsCurrent
        <3> HIDE DEF n, tok
        <3> QED BY <1>4, <1>6, <3>1, <3>2
    <2> QED BY <2>1, <2>2
<1> HIDE DEF n
<1>8. LiveIsCurrent'
    BY <1>1, <1>2, <1>7 DEF LiveIsCurrent, Pairs
<1>9. /\ ~(k.op = "reset" /\ k.pc = "revoke")
      /\ ~(k.op = "reset" /\ k.pc = "updatePassword")
    BY <1>3 DEF ResettingJob
<1> QED BY <1>1, <1>2, <1>3, <1>5, <1>8, <1>9, OneReset

\* The revocation of a reset.
LEMMA RevokeReset ==
    ASSUME TypeInv, ResetSound, NEW h \in Handlers, RevokeTokens(h)
    PROVE  ResetSound'
<1>1. UNCHANGED <<password, signedWith, overlap>>
    BY DEF RevokeTokens, authHistory
<1>2. \A p \in Pairs : row'[p] = IF p \in job[h].seen /\ row[p] = "live" THEN "revoked" ELSE row[p]
    BY RevokeRows
<1>3. CASE \E k : Becomes(h, k) /\ Tame(job[h], k)
    BY <1>1, <1>2, <1>3, TameOthers, TameReset
<1>4. CASE job[h].pc = "revoke" /\ \E k : Resets(h, k, "updatePassword")
    <2> SUFFICES ASSUME ~overlap
                 PROVE  (LiveIsCurrent /\ Apart /\ SeenAll /\ NoneLeft /\ LetInKnows)'
        BY <1>1 DEF ResetSound
    <2>1. LiveIsCurrent /\ Apart /\ SeenAll /\ NoneLeft /\ LetInKnows
        BY DEF ResetSound
    <2>2. PICK k : Resets(h, k, "updatePassword")
        BY <1>4
    <2>3. /\ job' = [job EXCEPT ![h] = k] /\ k.op = "reset" /\ k.pc = "updatePassword"
          /\ At(h, "reset", "revoke") /\ Resetting(h)
        BY <1>4, <2>2, JobForms DEF Resets, Becomes, At
    <2>4. LiveTokens' = {}
        BY <1>2, <2>1, <2>3 DEF SeenAll, LiveTokens, Pairs
    <2>5. LiveIsCurrent'
        BY <2>4 DEF LiveIsCurrent, LiveTokens, Pairs
    <2>6. ~IssuingJob(k)
        BY <2>3 DEF IssuingJob, IssuingOps
    <2>7. \A g \in Handlers : ~Issuing(g)
        BY <2>1, <2>3 DEF Apart
    <2> QED BY <1>1, <2>1, <2>3, <2>4, <2>5, <2>6, <2>7, OneReset
<1> QED BY <1>3, <1>4, RevokeSteps

\* The transaction of a reset starts.
LEMMA ConsumeReset ==
    ASSUME TypeInv, ResetSound, NEW h \in Handlers, ConsumeLink(h)
    PROVE  ResetSound'
<1>1. UNCHANGED <<password, row, signedWith>>
    BY DEF ConsumeLink
<1>2. CASE overlap' = overlap /\ \E k : Becomes(h, k) /\ Tame(job[h], k)
    BY <1>1, <1>2, TameOthers, TameReset
<1>3. CASE /\ overlap' = (overlap \/ \E g \in Handlers : Issuing(g))
           /\ \E k : Resets(h, k, "revoke") /\ k.seen = LiveTokens
    <2> SUFFICES ASSUME ~overlap'
                 PROVE  (LiveIsCurrent /\ Apart /\ SeenAll /\ NoneLeft /\ LetInKnows)'
        BY DEF ResetSound
    <2>1. ~overlap /\ \A g \in Handlers : ~Issuing(g)
        BY <1>3
    <2>2. LiveIsCurrent /\ Apart /\ SeenAll /\ NoneLeft /\ LetInKnows
        BY <2>1 DEF ResetSound
    <2>3. PICK k : Resets(h, k, "revoke") /\ k.seen = LiveTokens
        BY <1>3
    <2>4. job' = [job EXCEPT ![h] = k] /\ k.op = "reset" /\ k.pc = "revoke" /\ k.seen = LiveTokens
        BY <2>3 DEF Resets, Becomes
    <2>5. LiveIsCurrent' /\ LiveTokens' = LiveTokens
        BY <1>1, <2>2 DEF LiveIsCurrent, LiveTokens, Pairs
    <2>6. ~IssuingJob(k)
        BY <2>4 DEF IssuingJob, IssuingOps
    <2> QED BY <1>1, <2>1, <2>2, <2>4, <2>5, <2>6, OneReset
<1> QED BY <1>2, <1>3, ConsumeSteps

\* The new password, after which no token is live.
LEMMA UpdateReset ==
    ASSUME TypeInv, ResetSound, NEW h \in Handlers, UpdatePassword(h) \/ UserServiceTimeout(h)
    PROVE  ResetSound'
<1>1. UNCHANGED <<row, signedWith, overlap>>
    BY DEF UpdatePassword, UserServiceTimeout, authHistory
<1>2. PICK k : Becomes(h, k) /\ Tame(job[h], k) /\ k.pc \in {"idle", "reply"}
    BY UpdateSteps
<1>3. CASE password' = password
    BY <1>1, <1>2, <1>3, TameOthers, TameReset
<1>4. ASSUME password = NoPassword \/ At(h, "reset", "updatePassword") PROVE ResetSound'
    <2> SUFFICES ASSUME ~overlap
                 PROVE  (LiveIsCurrent /\ Apart /\ SeenAll /\ NoneLeft /\ LetInKnows)'
        BY <1>1 DEF ResetSound
    <2>1. LiveIsCurrent /\ Apart /\ SeenAll /\ NoneLeft /\ LetInKnows
        BY DEF ResetSound
    <2>2. LiveTokens = {} /\ LiveTokens' = LiveTokens
        <3>1. CASE password = NoPassword
            BY <1>1, <2>1, <3>1 DEF LiveIsCurrent, LiveTokens, Pairs
        <3>2. CASE At(h, "reset", "updatePassword")
            BY <1>1, <2>1, <3>2 DEF NoneLeft, LiveTokens, Pairs
        <3> QED BY <1>4, <3>1, <3>2
    <2>3. LiveIsCurrent'
        BY <2>2 DEF LiveIsCurrent, LiveTokens, Pairs
    <2>4. \A g \in Handlers : job[g].pc # "issue"
        <3> SUFFICES ASSUME NEW g \in Handlers, job[g].pc = "issue" PROVE FALSE
            OBVIOUS
        <3>1. Issuing(g) /\ job[g].pwd \in Passwords /\ job[g].pwd = password
            BY <2>1, LetInIssues DEF LetInKnows
        <3>2. CASE password = NoPassword
            BY <3>1, <3>2, AccountAssumption
        <3>3. CASE At(h, "reset", "updatePassword")
            BY <2>1, <3>1, <3>3, JobForms DEF Apart
        <3> QED BY <1>4, <3>2, <3>3
    <2>5. job' = [job EXCEPT ![h] = k] /\ k.pc \in {"idle", "reply"} /\ JobOK(k, NextPair)
        BY <1>2 DEF Becomes
    <2>6. ~ResettingJob(k) /\ ~IssuingJob(k)
        BY <2>5 DEF JobOK, StepsOf, ResettingJob, IssuingJob, IssuingOps
    <2> QED BY <2>1, <2>2, <2>3, <2>4, <2>5, <2>6, OneReset
<1> QED BY <1>3, <1>4, UpdateSteps

LEMMA ResetSteps ==
    ASSUME TypeInv, ResetSound, Steps
    PROVE  ResetSound'
<1>1. CASE QuietStep
    <2>1. /\ UNCHANGED <<row, signedWith, password, overlap>>
          /\ \A h \in Handlers : Tame(job[h], job'[h])
        BY <1>1 DEF QuietStep, Tables0
    <2> QED BY <2>1, TameReset
<1>2. CASE ArrivalStep
    BY <1>2, ArrivalReset
<1>3. CASE \E p \in Pairs : RefreshTokenExpires(p)
    <2>1. /\ UNCHANGED <<signedWith, password, overlap, job>>
          /\ \A p \in Pairs : row'[p] = "live" => row[p] = "live"
        BY <1>3 DEF RefreshTokenExpires, authHistory, TypeInv, Tables
    <2>2. \A h \in Handlers : Tame(job[h], job'[h])
        BY <2>1 DEF Tame
    <2> QED BY <2>1, <2>2, TameReset
<1>4. ASSUME NEW h \in Handlers, UNCHANGED <<row, signedWith, password, overlap>>,
             \E k : Becomes(h, k) /\ Tame(job[h], k)
      PROVE  ResetSound'
    BY <1>4, TameOthers, TameReset
<1>5. CASE TokenStep
    <2>1. PICK h \in Handlers :
            \/ VerifyPassword(h) \/ CreateUser(h) \/ RevokeTokens(h) \/ ConsumeLink(h)
            \/ UpdatePassword(h) \/ UserServiceTimeout(h) \/ IssueTokensForUser(h) \/ Rotate(h)
        BY <1>5 DEF TokenStep
    <2>2. CASE VerifyPassword(h)
        <3>1. UNCHANGED <<row, signedWith, password, overlap>>
            BY <2>2 DEF VerifyPassword, stored, authHistory
        <3>2. CASE \E k : Becomes(h, k) /\ Tame(job[h], k)
            BY <1>4, <3>1, <3>2
        <3>3. CASE password = job[h].pwd /\ \E k : LetIn(h, k)
            <4>1. PICK k : LetIn(h, k)
                BY <3>3
            <4>2. password = k.pwd /\ password' = password
                BY <3>1, <3>3, <4>1 DEF LetIn
            <4> QED BY <3>1, <4>1, <4>2, LetInReset
        <3> QED BY <2>2, <3>2, <3>3, VerifySteps
    <2>3. CASE CreateUser(h)
        <3>1. UNCHANGED <<row, signedWith, overlap>>
            BY <2>3 DEF CreateUser, authHistory
        <3>2. CASE password' = password /\ \E k : Becomes(h, k) /\ Tame(job[h], k)
            BY <1>4, <3>1, <3>2
        <3>3. CASE password = NoPassword /\ password' = job[h].pwd /\ \E k : LetIn(h, k)
            <4>1. PICK k : LetIn(h, k)
                BY <3>3
            <4>2. password = NoPassword /\ password' = k.pwd
                BY <3>3, <4>1 DEF LetIn
            <4> QED BY <3>1, <4>1, <4>2, LetInReset
        <3> QED BY <2>3, <3>2, <3>3, CreateSteps
    <2>4. CASE RevokeTokens(h) \/ ConsumeLink(h) \/ UpdatePassword(h) \/ UserServiceTimeout(h)
        BY <2>4, RevokeReset, ConsumeReset, UpdateReset
    <2>5. CASE IssueTokensForUser(h) \/ (Rotate(h) /\ row[job[h].tok] = "live")
        BY <2>5, IssueReset
    <2>6. CASE Rotate(h) /\ row[job[h].tok] # "live"
        <3>1. /\ job[h].op = "refresh" /\ job[h].pc = "rotate" /\ Goto(h, "awaitLocked")
              /\ UNCHANGED <<row, signedWith, password, overlap>>
            BY <2>6 DEF Rotate, StillLive, At
        <3>2. job[h].out = NoPair /\ StepsOf("refresh", "awaitLocked")
            BY <3>1 DEF TypeInv, Jobs, JobOK, StepsOf
        <3>3. \E k : Becomes(h, k) /\ Tame(job[h], k)
            BY <3>1, <3>2, TameGoto
        <3> QED BY <1>4, <3>1, <3>3
    <2> QED BY <2>1, <2>2, <2>3, <2>4, <2>5, <2>6
<1> QED BY <1>1, <1>2, <1>3, <1>5 DEF Steps

LEMMA InitReset == Init => ResetSound
<1> SUFFICES ASSUME Init PROVE ResetSound
    OBVIOUS
<1>1. row = [p \in Pairs |-> "absent"] /\ job = [h \in Handlers |-> Idle]
    BY DEF Init, AuthInit
<1>2. \A h \in Handlers : job[h].op = "none" /\ job[h].pc = "idle"
    BY <1>1 DEF Idle
<1>3. LiveIsCurrent /\ SeenAll /\ NoneLeft
    BY <1>1, <1>2 DEF LiveIsCurrent, SeenAll, NoneLeft, At
<1>4. Apart /\ LetInKnows
    BY <1>2 DEF Apart, LetInKnows, Issuing, IssuingOps
<1> QED BY <1>3, <1>4 DEF ResetSound

\* Once the password has been reset no session is alive that was opened with another
\* one, unless a pair was being issued during the reset: resetPassword revokes the tokens
\* before user-service gets the new password, whatever fails or dies in between.
THEOREM ResetIsEffective == Spec => []ResetEndsOldSessions
<1>1. Init => TypeInv /\ ResetSound
    BY InitType, InitReset
<1>2. TypeInv /\ ResetSound /\ [Next]_vars => (TypeInv /\ ResetSound)'
    BY NextSteps, ResetSteps
<1>3. ResetSound => ResetEndsOldSessions
    BY DEF ResetSound, ResetEndsOldSessions, LiveIsCurrent
<1> QED BY <1>1, <1>2, <1>3, PTL DEF Spec


-----------------------------------------------------------------------------
(* A session survives the rotation of its token. *)

Refreshes(h) == job[h].op = "refresh"

\* While all is calm, a refresh is the only one of its tab and of its token, ...
OneRefreshEach ==
    /\ \A h \in Handlers : Refreshes(h) =>
          /\ job[h].tab \in Tabs /\ tab[job[h].tab].refreshing
          /\ job[h].pc \in {"findToken", "lock", "rotate", "cache", "unlock", "reply"}
    /\ \A g, h \in Handlers : Refreshes(g) /\ Refreshes(h) /\ g # h =>
          job[g].tab # job[h].tab /\ job[g].tok # job[h].tok
\* ... and nobody else keeps that token; ...
TokensApart ==
    /\ \A t, u \in Tabs : tab[t].stored # NoPair /\ t # u => tab[t].stored # tab[u].stored
    /\ \A h \in Handlers, t \in Tabs : Refreshes(h) /\ job[h].tab # t => job[h].tok # tab[t].stored
\* ... it is live until it is replaced, and so is the pair on its way to a tab, ...
PresentedIsLive ==
    \A h \in Handlers : Refreshes(h) /\ job[h].pc \in {"findToken", "lock", "rotate"} =>
        row[job[h].tok] = "live"
AnswersAreNew ==
    \A h \in Handlers : job[h].out # NoPair =>
        /\ row[job[h].out] = "live"
        /\ \A t \in Tabs : tab[t].stored # job[h].out
        /\ \A g \in Handlers : Refreshes(g) => job[g].tok # job[h].out
        /\ \A g \in Handlers : g # h => job[g].out # job[h].out
\* ... a lock is held by its refresh, and nobody signs out or resets the password.
LocksAreHeld ==
    \A p \in rotationLock : \E h \in Handlers :
        Refreshes(h) /\ job[h].tok = p /\ job[h].pc \in {"rotate", "cache", "unlock"}
NobodyLeaves == \A h \in Handlers : job[h].op \notin {"logout", "reset"}

KeptIsLive ==
    \A t \in Tabs : tab[t].stored # NoPair => row[tab[t].stored] = "live" \/ tab[t].refreshing

CalmParts ==
    /\ KeptIsLive /\ OneRefreshEach /\ TokensApart /\ PresentedIsLive /\ AnswersAreNew
    /\ LocksAreHeld /\ NobodyLeaves
CalmSound == calm => CalmParts

\* What is not about tokens leaves the sessions alone; a tab may lose its own.
LEMMA HarmlessCalm ==
    ASSUME TypeInv, CalmParts, UNCHANGED <<row, rotationLock>>,
           \A t \in Tabs : /\ tab'[t].stored = tab[t].stored \/ tab'[t].stored = NoPair
                           /\ tab'[t].refreshing = tab[t].refreshing,
           \A h \in Handlers :
              \/ job'[h] = job[h]
              \/ /\ ~Refreshes(h) /\ job'[h].op \notin {"refresh", "logout", "reset"}
                 /\ job'[h].out = NoPair
    PROVE  CalmParts'
<1>1. \A h \in Handlers : Refreshes(h)' => Refreshes(h) /\ job'[h] = job[h]
    BY DEF Refreshes
<1>2. \A h \in Handlers : job'[h].out # NoPair => job'[h].out = job[h].out
    OBVIOUS
<1>3. KeptIsLive'
    BY DEF CalmParts, KeptIsLive
<1>4. OneRefreshEach'
    BY <1>1 DEF CalmParts, OneRefreshEach
<1>5. TokensApart'
    <2>1. \A t, u \in Tabs : tab'[t].stored # NoPair /\ t # u => tab'[t].stored # tab'[u].stored
        BY DEF CalmParts, TokensApart
    <2>2. ASSUME NEW h \in Handlers, NEW t \in Tabs, Refreshes(h)', job'[h].tab # t
          PROVE  job'[h].tok # tab'[t].stored
        <3>1. job'[h].tok = job[h].tok /\ job[h].tok # NoPair
            BY <1>1, <2>2, PresentedWasIssued DEF Refreshes, Pairs, NoPair
        <3> QED BY <1>1, <2>2, <3>1 DEF CalmParts, TokensApart
    <2> QED BY <2>1, <2>2 DEF TokensApart
<1>6. PresentedIsLive'
    BY <1>1 DEF CalmParts, PresentedIsLive
<1>7. AnswersAreNew'
    BY <1>1, <1>2 DEF CalmParts, AnswersAreNew
<1>8. LocksAreHeld' /\ NobodyLeaves'
    BY DEF CalmParts, LocksAreHeld, NobodyLeaves, Refreshes
<1> QED BY <1>3, <1>4, <1>5, <1>6, <1>7, <1>8 DEF CalmParts

\* A tab starts a refresh, with a token that is live and that nobody else keeps.
LEMMA StartCalm ==
    ASSUME TypeInv, CalmParts, UNCHANGED <<row, rotationLock>>, NEW t \in Tabs, NEW h \in Handlers,
           StartRefresh(t, h), tab' = [tab EXCEPT ![t].refreshing = TRUE]
    PROVE  CalmParts'
<1> DEFINE tok == tab[t].stored
           k == job'[h]
<1>1. tok # NoPair /\ ~tab[t].refreshing /\ job[h] = Idle /\ ~Refreshes(h) /\ job[h].out = NoPair
    BY DEF StartRefresh, Serve, refreshPromise, Refreshes, Idle
<1>2. /\ k.op = "refresh" /\ k.pc = "findToken" /\ k.tab = t /\ k.tok = tok /\ k.out = NoPair
      /\ \A g \in Handlers : g # h => job'[g] = job[g]
    BY DEF StartRefresh, Serve, FirstStep, Idle, TypeInv, Jobs
<1>3. /\ \A u \in Tabs : tab'[u].stored = tab[u].stored
      /\ \A u \in Tabs : tab'[u].refreshing = (tab[u].refreshing \/ u = t)
    BY DEF TypeInv, Clients, TabType
<1>4. row[tok] = "live"
    BY <1>1 DEF CalmParts, KeptIsLive
<1> HIDE DEF tok, k
<1>5. \A g \in Handlers : g # h => (Refreshes(g)' <=> Refreshes(g))
    BY <1>2 DEF Refreshes
<1>6. ASSUME NEW g \in Handlers, g # h, Refreshes(g)
      PROVE  job[g].tab # t /\ job[g].tok # tok /\ job[g].tab \in Tabs
    BY <1>1, <1>6 DEF CalmParts, OneRefreshEach, TokensApart, tok
<1>7. KeptIsLive'
    BY <1>3 DEF CalmParts, KeptIsLive
<1>8. OneRefreshEach'
    <2>1. ASSUME NEW g \in Handlers, Refreshes(g)'
          PROVE  /\ job'[g].tab \in Tabs /\ tab'[job'[g].tab].refreshing
                 /\ job'[g].pc \in {"findToken", "lock", "rotate", "cache", "unlock", "reply"}
        <3>1. CASE g = h
            BY <1>2, <1>3, <3>1 DEF k
        <3>2. CASE g # h
            BY <1>2, <1>3, <1>5, <2>1, <3>2 DEF CalmParts, OneRefreshEach
        <3> QED BY <3>1, <3>2
    <2>2. ASSUME NEW f \in Handlers, NEW g \in Handlers, Refreshes(f)', Refreshes(g)', f # g
          PROVE  job'[f].tab # job'[g].tab /\ job'[f].tok # job'[g].tok
        <3>1. CASE f # h /\ g # h
            BY <1>2, <1>5, <2>2, <3>1 DEF CalmParts, OneRefreshEach
        <3>2. CASE f = h \/ g = h
            BY <1>2, <1>5, <1>6, <2>2, <3>2 DEF k
        <3> QED BY <3>1, <3>2
    <2> QED BY <2>1, <2>2 DEF OneRefreshEach
<1>9. TokensApart'
    <2>1. ASSUME NEW g \in Handlers, NEW u \in Tabs, Refreshes(g)', job'[g].tab # u
          PROVE  job'[g].tok # tab'[u].stored
        <3>1. CASE g = h
            BY <1>1, <1>2, <1>3, <2>1, <3>1 DEF CalmParts, TokensApart, k, tok
        <3>2. CASE g # h
            BY <1>2, <1>3, <1>5, <2>1, <3>2 DEF CalmParts, TokensApart
        <3> QED BY <3>1, <3>2
    <2>2. \A u, v \in Tabs : tab'[u].stored # NoPair /\ u # v => tab'[u].stored # tab'[v].stored
        BY <1>3 DEF CalmParts, TokensApart
    <2> QED BY <2>1, <2>2 DEF TokensApart
<1>10. PresentedIsLive'
    <2>1. ASSUME NEW g \in Handlers, Refreshes(g)', job'[g].pc \in {"findToken", "lock", "rotate"}
          PROVE  row'[job'[g].tok] = "live"
        BY <1>2, <1>4, <1>5, <2>1 DEF CalmParts, PresentedIsLive, k
    <2> QED BY <2>1 DEF PresentedIsLive
<1>11. AnswersAreNew'
    <2> SUFFICES ASSUME NEW g \in Handlers, job'[g].out # NoPair
                 PROVE  /\ row'[job'[g].out] = "live"
                        /\ \A u \in Tabs : tab'[u].stored # job'[g].out
                        /\ \A f \in Handlers : Refreshes(f)' => job'[f].tok # job'[g].out
                        /\ \A f \in Handlers : f # g => job'[f].out # job'[g].out
        BY DEF AnswersAreNew
    <2>1. g # h /\ job'[g] = job[g] /\ job[g].out # NoPair
        BY <1>2 DEF k
    <2>2. /\ row[job[g].out] = "live"
          /\ \A u \in Tabs : tab[u].stored # job[g].out
          /\ \A f \in Handlers : Refreshes(f) => job[f].tok # job[g].out
          /\ \A f \in Handlers : f # g => job[f].out # job[g].out
        BY <2>1 DEF CalmParts, AnswersAreNew
    <2>3. ASSUME NEW f \in Handlers, Refreshes(f)' PROVE job'[f].tok # job'[g].out
        BY <1>2, <1>5, <2>1, <2>2, <2>3 DEF k, tok
    <2>4. ASSUME NEW f \in Handlers, f # g PROVE job'[f].out # job'[g].out
        BY <1>2, <2>1, <2>2, <2>4 DEF k
    <2> QED BY <1>3, <2>1, <2>2, <2>3, <2>4
<1>12. LocksAreHeld'
    <2>1. ASSUME NEW p \in rotationLock
          PROVE  \E g \in Handlers : Refreshes(g)' /\ job'[g].tok = p /\ job'[g].pc \in {"rotate", "cache", "unlock"}
        <3>1. PICK g \in Handlers : Refreshes(g) /\ job[g].tok = p /\ job[g].pc \in {"rotate", "cache", "unlock"}
            BY <2>1 DEF CalmParts, LocksAreHeld
        <3> QED BY <1>1, <1>2, <1>5, <3>1
    <2> QED BY <2>1 DEF LocksAreHeld
<1>13. NobodyLeaves'
    BY <1>2 DEF CalmParts, NobodyLeaves, k
<1> QED BY <1>7, <1>8, <1>9, <1>10, <1>11, <1>12, <1>13 DEF CalmParts

\* A refresh goes on: it takes its lock, caches its pair, answers.
LEMMA RefreshCalm ==
    ASSUME TypeInv, CalmParts, UNCHANGED <<row, tab>>, NEW h \in Handlers, NEW k, Refreshes(h),
           \A g \in Handlers : job'[g] = IF g = h THEN k ELSE job[g],
           k.op = "refresh" /\ k.tab = job[h].tab /\ k.tok = job[h].tok /\ k.out = job[h].out,
           k.pc \in {"lock", "rotate", "cache", "unlock", "reply"},
           k.pc \in {"lock", "rotate"} => job[h].pc \in {"findToken", "lock", "rotate"},
           rotationLock' \subseteq rotationLock \cup {job[h].tok},
           job[h].tok \in rotationLock' => k.pc \in {"rotate", "cache", "unlock"}
    PROVE  CalmParts'
<1>1. \A g \in Handlers : /\ Refreshes(g)' <=> Refreshes(g)
                          /\ job'[g].op = job[g].op /\ job'[g].out = job[g].out
                          /\ Refreshes(g) => job'[g].tab = job[g].tab /\ job'[g].tok = job[g].tok
    BY DEF Refreshes
<1>2. KeptIsLive' /\ NobodyLeaves'
    BY <1>1 DEF CalmParts, KeptIsLive, NobodyLeaves
<1>3. OneRefreshEach'
    <2>1. \A g \in Handlers : Refreshes(g)' =>
             /\ job'[g].tab \in Tabs /\ tab'[job'[g].tab].refreshing
             /\ job'[g].pc \in {"findToken", "lock", "rotate", "cache", "unlock", "reply"}
        BY <1>1 DEF CalmParts, OneRefreshEach
    <2>2. \A f, g \in Handlers : Refreshes(f)' /\ Refreshes(g)' /\ f # g =>
             job'[f].tab # job'[g].tab /\ job'[f].tok # job'[g].tok
        BY <1>1 DEF CalmParts, OneRefreshEach
    <2> QED BY <2>1, <2>2 DEF OneRefreshEach
<1>4. TokensApart'
    BY <1>1 DEF CalmParts, TokensApart
<1>5. PresentedIsLive'
    BY <1>1 DEF CalmParts, PresentedIsLive
<1>6. AnswersAreNew'
    BY <1>1 DEF CalmParts, AnswersAreNew
<1>7. LocksAreHeld'
    <2>1. ASSUME NEW p \in rotationLock'
          PROVE  \E g \in Handlers : Refreshes(g)' /\ job'[g].tok = p /\ job'[g].pc \in {"rotate", "cache", "unlock"}
        <3>1. CASE p = job[h].tok
            BY <1>1, <2>1, <3>1
        <3>2. CASE p # job[h].tok
            <4>1. PICK g \in Handlers : Refreshes(g) /\ job[g].tok = p /\ job[g].pc \in {"rotate", "cache", "unlock"}
                BY <2>1, <3>2 DEF CalmParts, LocksAreHeld
            <4> QED BY <1>1, <3>2, <4>1
        <3> QED BY <3>1, <3>2
    <2> QED BY <2>1 DEF LocksAreHeld
<1> QED BY <1>2, <1>3, <1>4, <1>5, <1>6, <1>7 DEF CalmParts

\* The pairs somebody has were issued.
LEMMA HeldWereIssued ==
    ASSUME TypeInv
    PROVE  /\ NextPair \in Nat \ {0}
           /\ \A p \in IssuedBefore(NextPair) \ {NoPair} : p \in Pairs /\ p # NextPair
           /\ \A t \in Tabs : tab[t].stored \in IssuedBefore(NextPair)
           /\ \A h \in Handlers : job[h].out \in IssuedBefore(NextPair)
           /\ \A h \in Handlers : Refreshes(h) => job[h].tok \in IssuedBefore(NextPair) \ {NoPair}
<1> DEFINE n == NextPair
<1>1. n \in 1..(MaxPairs + 1) /\ MaxPairs \in Nat
    BY AccountAssumption DEF TypeInv, RowsInOrder
<1> HIDE DEF n
<1>2. \A p \in 0..(n - 1) \ {0} : p \in Pairs /\ p # n
    BY <1>1 DEF Pairs
<1>3. \A t \in Tabs : tab[t].stored \in IssuedBefore(NextPair)
    BY TabIs DEF TabType
<1> QED BY <1>1, <1>2, <1>3 DEF n, TypeInv, Jobs, JobOK, Refreshes, IssuedBefore, NoPair

\* A pair is issued: to who signs in, or in the place of the token of a refresh.
LEMMA IssueCalm ==
    ASSUME TypeInv, CalmParts, UNCHANGED <<rotationLock, tab>>, NEW h \in Handlers, NEW k,
           \A g \in Handlers : job'[g] = IF g = h THEN k ELSE job[g],
           NextPair \in Pairs, row'[NextPair] = "live",
           \A p \in Pairs : p # NextPair /\ ~(Refreshes(h) /\ p = job[h].tok) => row'[p] = row[p],
           k.out \in {NoPair, NextPair},
           \/ /\ Refreshes(h) /\ job[h].pc = "rotate" /\ k.op = "refresh" /\ k.pc = "cache"
              /\ k.tab = job[h].tab /\ k.tok = job[h].tok
           \/ ~Refreshes(h) /\ k.op \notin {"refresh", "logout", "reset"}
    PROVE  CalmParts'
<1> DEFINE n == NextPair
<1>1. \A g \in Handlers : /\ Refreshes(g)' <=> Refreshes(g)
                          /\ Refreshes(g) => job'[g].tab = job[g].tab /\ job'[g].tok = job[g].tok
    BY DEF Refreshes
<1>2. /\ \A p \in IssuedBefore(n) \ {NoPair} : p \in Pairs /\ p # n
      /\ \A t \in Tabs : tab[t].stored \in IssuedBefore(n)
      /\ \A g \in Handlers : job[g].out \in IssuedBefore(n)
      /\ \A g \in Handlers : Refreshes(g) => job[g].tok \in IssuedBefore(n) \ {NoPair}
      /\ n # NoPair
    BY HeldWereIssued DEF NoPair
<1> HIDE DEF n
<1>3. ASSUME NEW p \in IssuedBefore(n) \ {NoPair}, row[p] = "live",
             Refreshes(h) => p # job[h].tok
      PROVE  row'[p] = "live"
    BY <1>2, <1>3 DEF n
<1>4. KeptIsLive'
    <2> SUFFICES ASSUME NEW t \in Tabs, tab[t].stored # NoPair, ~tab[t].refreshing
                 PROVE  row'[tab[t].stored] = "live"
        BY DEF KeptIsLive
    <2>1. row[tab[t].stored] = "live"
        BY DEF CalmParts, KeptIsLive
    <2>2. Refreshes(h) => tab[t].stored # job[h].tok
        BY DEF CalmParts, OneRefreshEach, TokensApart
    <2> QED BY <1>2, <1>3, <2>1, <2>2
<1>5. OneRefreshEach'
    <2>1. \A g \in Handlers : Refreshes(g)' =>
             /\ job'[g].tab \in Tabs /\ tab'[job'[g].tab].refreshing
             /\ job'[g].pc \in {"findToken", "lock", "rotate", "cache", "unlock", "reply"}
        BY <1>1 DEF CalmParts, OneRefreshEach
    <2>2. \A f, g \in Handlers : Refreshes(f)' /\ Refreshes(g)' /\ f # g =>
             job'[f].tab # job'[g].tab /\ job'[f].tok # job'[g].tok
        BY <1>1 DEF CalmParts, OneRefreshEach
    <2> QED BY <2>1, <2>2 DEF OneRefreshEach
<1>6. TokensApart'
    BY <1>1 DEF CalmParts, TokensApart
<1>7. PresentedIsLive'
    <2> SUFFICES ASSUME NEW g \in Handlers, Refreshes(g)', job'[g].pc \in {"findToken", "lock", "rotate"}
                 PROVE  row'[job'[g].tok] = "live"
        BY DEF PresentedIsLive
    <2>1. g # h /\ Refreshes(g) /\ job'[g] = job[g]
        BY <1>1
    <2>2. row[job[g].tok] = "live"
        BY <2>1 DEF CalmParts, PresentedIsLive
    <2>3. Refreshes(h) => job[g].tok # job[h].tok
        BY <2>1 DEF CalmParts, OneRefreshEach
    <2> QED BY <1>2, <1>3, <2>1, <2>2, <2>3
<1>8. AnswersAreNew'
    <2> SUFFICES ASSUME NEW g \in Handlers, job'[g].out # NoPair
                 PROVE  /\ row'[job'[g].out] = "live"
                        /\ \A t \in Tabs : tab'[t].stored # job'[g].out
                        /\ \A f \in Handlers : Refreshes(f)' => job'[f].tok # job'[g].out
                        /\ \A f \in Handlers : f # g => job'[f].out # job'[g].out
        BY DEF AnswersAreNew
    <2>1. CASE g = h
        <3>1. job'[g].out = n
            BY <2>1 DEF n
        <3>2. \A p \in IssuedBefore(n) : p # n
            BY <1>2
        <3> QED BY <1>1, <1>2, <2>1, <3>1, <3>2 DEF n
    <2>2. CASE g # h
        <3>1. job'[g] = job[g] /\ job[g].out # NoPair /\ job[g].out \in IssuedBefore(n) \ {NoPair}
            BY <1>2, <2>2
        <3>2. /\ row[job[g].out] = "live"
              /\ \A t \in Tabs : tab[t].stored # job[g].out
              /\ \A f \in Handlers : Refreshes(f) => job[f].tok # job[g].out
              /\ \A f \in Handlers : f # g => job[f].out # job[g].out
            BY <3>1 DEF CalmParts, AnswersAreNew
        <3>3. row'[job[g].out] = "live"
            BY <1>3, <3>1, <3>2
        <3>4. \A f \in Handlers : f # g => job'[f].out # job[g].out
            BY <1>2, <3>1, <3>2 DEF n
        <3> QED BY <1>1, <3>1, <3>2, <3>3, <3>4
    <2> QED BY <2>1, <2>2
<1>9. LocksAreHeld'
    <2>1. ASSUME NEW p \in rotationLock
          PROVE  \E g \in Handlers : Refreshes(g)' /\ job'[g].tok = p /\ job'[g].pc \in {"rotate", "cache", "unlock"}
        <3>1. PICK g \in Handlers : Refreshes(g) /\ job[g].tok = p /\ job[g].pc \in {"rotate", "cache", "unlock"}
            BY <2>1 DEF CalmParts, LocksAreHeld
        <3> QED BY <1>1, <3>1
    <2> QED BY <2>1 DEF LocksAreHeld
<1>10. NobodyLeaves'
    BY DEF CalmParts, NobodyLeaves
<1> QED BY <1>4, <1>5, <1>6, <1>7, <1>8, <1>9, <1>10 DEF CalmParts

\* An answer arrives: the tab keeps the pair that nobody else has, or loses its session.
LEMMA AnswerCalm ==
    ASSUME TypeInv, CalmParts, UNCHANGED <<row, rotationLock>>, NEW h \in Handlers, job[h].pc = "reply",
           \A g \in Handlers : job'[g] = IF g = h THEN Idle ELSE job[g],
           NEW t \in Tabs, job[h].tab = t,
           \A u \in Tabs : u # t => tab'[u] = tab[u],
           \/ tab'[t].stored \in {NoPair, job[h].out}
           \/ ~Refreshes(h) /\ tab'[t].stored = tab[t].stored,
           ~Refreshes(h) => tab'[t].refreshing = tab[t].refreshing
    PROVE  CalmParts'
<1>1. \A g \in Handlers : Refreshes(g)' => g # h /\ Refreshes(g) /\ job'[g] = job[g]
    BY DEF Refreshes, Idle
<1>2. ASSUME NEW g \in Handlers, Refreshes(g), g # h
      PROVE  /\ job[g].tab \in Tabs /\ tab'[job[g].tab].refreshing /\ job[g].tok # NoPair
             /\ Refreshes(h) => job[g].tab # t
    <2>1. job[g].tab \in Tabs /\ tab[job[g].tab].refreshing /\ (Refreshes(h) => job[g].tab # t)
        BY <1>2 DEF CalmParts, OneRefreshEach
    <2> QED BY <1>2, <2>1, HeldWereIssued
<1>3. job[h].out # NoPair =>
        /\ row[job[h].out] = "live"
        /\ \A u \in Tabs : tab[u].stored # job[h].out
        /\ \A g \in Handlers : Refreshes(g) => job[g].tok # job[h].out
        /\ \A g \in Handlers : g # h => job[g].out # job[h].out
    BY DEF CalmParts, AnswersAreNew
<1>4. KeptIsLive'
    <2> SUFFICES ASSUME NEW u \in Tabs, tab'[u].stored # NoPair
                 PROVE  row'[tab'[u].stored] = "live" \/ tab'[u].refreshing
        BY DEF KeptIsLive
    <2>1. CASE u # t
        BY <2>1 DEF CalmParts, KeptIsLive
    <2>2. CASE u = t /\ tab'[t].stored = job[h].out
        BY <1>3, <2>2
    <2>3. CASE u = t /\ ~Refreshes(h) /\ tab'[t].stored = tab[t].stored
        BY <2>3 DEF CalmParts, KeptIsLive
    <2> QED BY <2>1, <2>2, <2>3
<1>5. OneRefreshEach'
    <2>1. \A g \in Handlers : Refreshes(g)' =>
             /\ job'[g].tab \in Tabs /\ tab'[job'[g].tab].refreshing
             /\ job'[g].pc \in {"findToken", "lock", "rotate", "cache", "unlock", "reply"}
        BY <1>1, <1>2 DEF CalmParts, OneRefreshEach
    <2>2. \A f, g \in Handlers : Refreshes(f)' /\ Refreshes(g)' /\ f # g =>
             job'[f].tab # job'[g].tab /\ job'[f].tok # job'[g].tok
        BY <1>1 DEF CalmParts, OneRefreshEach
    <2> QED BY <2>1, <2>2 DEF OneRefreshEach
<1>6. TokensApart'
    <2>1. ASSUME NEW u \in Tabs, NEW v \in Tabs, tab'[u].stored # NoPair, u # v
          PROVE  tab'[u].stored # tab'[v].stored
        BY <1>3, <2>1 DEF CalmParts, TokensApart
    <2>2. ASSUME NEW g \in Handlers, NEW u \in Tabs, Refreshes(g)', job'[g].tab # u
          PROVE  job'[g].tok # tab'[u].stored
        <3>1. g # h /\ Refreshes(g) /\ job'[g] = job[g] /\ job[g].tok # NoPair
            BY <1>1, <1>2, <2>2
        <3>2. job[g].tok # tab[u].stored
            BY <2>2, <3>1 DEF CalmParts, TokensApart
        <3> QED BY <1>3, <3>1, <3>2
    <2> QED BY <2>1, <2>2 DEF TokensApart
<1>7. PresentedIsLive'
    BY <1>1 DEF CalmParts, PresentedIsLive
<1>8. AnswersAreNew'
    <2> SUFFICES ASSUME NEW g \in Handlers, job'[g].out # NoPair
                 PROVE  /\ row'[job'[g].out] = "live"
                        /\ \A u \in Tabs : tab'[u].stored # job'[g].out
                        /\ \A f \in Handlers : Refreshes(f)' => job'[f].tok # job'[g].out
                        /\ \A f \in Handlers : f # g => job'[f].out # job'[g].out
        BY DEF AnswersAreNew
    <2>1. g # h /\ job'[g] = job[g]
        BY DEF Idle
    <2>2. /\ row[job[g].out] = "live"
          /\ \A u \in Tabs : tab[u].stored # job[g].out
          /\ \A f \in Handlers : Refreshes(f) => job[f].tok # job[g].out
          /\ \A f \in Handlers : f # g => job[f].out # job[g].out
        BY <2>1 DEF CalmParts, AnswersAreNew
    <2>3. \A u \in Tabs : tab'[u].stored # job[g].out
        BY <2>1, <2>2
    <2>4. \A f \in Handlers : f # g => job'[f].out # job[g].out
        BY <2>1, <2>2 DEF Idle
    <2> QED BY <1>1, <2>1, <2>2, <2>3, <2>4
<1>9. LocksAreHeld'
    <2>1. ASSUME NEW p \in rotationLock
          PROVE  \E g \in Handlers : Refreshes(g)' /\ job'[g].tok = p /\ job'[g].pc \in {"rotate", "cache", "unlock"}
        <3>1. PICK g \in Handlers : Refreshes(g) /\ job[g].tok = p /\ job[g].pc \in {"rotate", "cache", "unlock"}
            BY <2>1 DEF CalmParts, LocksAreHeld
        <3> QED BY <3>1 DEF Refreshes
    <2> QED BY <2>1 DEF LocksAreHeld
<1>10. NobodyLeaves'
    BY DEF CalmParts, NobodyLeaves, Idle
<1> QED BY <1>4, <1>5, <1>6, <1>7, <1>8, <1>9, <1>10 DEF CalmParts

\* What a handler's step leaves of its call.
LEMMA GotoFields ==
    ASSUME TypeInv, NEW h \in Handlers, NEW pc, Goto(h, pc)
    PROVE  /\ \A g \in Handlers : g # h => job'[g] = job[g]
           /\ job'[h].pc = pc /\ job'[h].op = job[h].op /\ job'[h].out = job[h].out
           /\ job'[h].tab = job[h].tab /\ job'[h].tok = job[h].tok
BY DEF Goto, TypeInv, Jobs, Job

LEMMA AnswerFields ==
    ASSUME TypeInv, NEW h \in Handlers, NEW code, NEW out, Answer(h, code, out)
    PROVE  /\ \A g \in Handlers : g # h => job'[g] = job[g]
           /\ \/ job[h].tab = NoTab /\ job'[h] = Idle
              \/ /\ job'[h].pc = "reply" /\ job'[h].op = job[h].op /\ job'[h].out = out
                 /\ job'[h].tab = job[h].tab /\ job'[h].tok = job[h].tok
<1> DEFINE j == job[h]
           reply == [j EXCEPT !.pc = "reply", !.seen = {}, !.res = httpStatus(code), !.out = out]
<1>1. j \in Job /\ job \in [Handlers -> Job]
    BY DEF TypeInv, Jobs
<1>2. /\ reply.pc = "reply" /\ reply.op = j.op /\ reply.out = out /\ reply.tab = j.tab
      /\ reply.tok = j.tok
    BY <1>1 DEF Job
<1>3. job' = [job EXCEPT ![h] = IF j.tab = NoTab THEN Idle ELSE reply]
    BY <1>1 DEF Answer
<1> HIDE DEF reply
<1>4. /\ \A g \in Handlers : g # h => job'[g] = job[g]
      /\ job'[h] = IF j.tab = NoTab THEN Idle ELSE reply
    BY <1>1, <1>3
<1> QED BY <1>2, <1>4

\* The steps of a sign-in before its pair, and of a forgotten password.
FormStep(h) ==
    \/ FindByEmail(h) \/ CreateUser(h) \/ VerifyPassword(h) \/ InvalidateLinks(h)
    \/ CreateLink(h) \/ MailLink(h) \/ DeleteLink(h)

LEMMA FormCalm ==
    ASSUME TypeInv, CalmParts, NEW h \in Handlers, FormStep(h), UNCHANGED tab
    PROVE  CalmParts'
<1>1. UNCHANGED <<row, rotationLock>>
    BY DEF FormStep, FindByEmail, CreateUser, VerifyPassword, InvalidateLinks, CreateLink, MailLink,
       DeleteLink, stored, redis
<1>2. JobOK(job[h], NextPair) /\ StepsOf(job[h].op, job[h].pc)
    BY DEF TypeInv, Jobs, JobOK
<1>3. /\ job[h].op \in {"register", "login", "forgot"}
      /\ job[h].pc \in {"findByEmail", "createUser", "verifyPassword", "invalidate", "createLink",
                        "mail", "deleteLink"}
    BY <1>2 DEF FormStep, FindByEmail, CreateUser, VerifyPassword, InvalidateLinks, CreateLink,
       MailLink, DeleteLink, At, StepsOf
<1>4. job[h].out = NoPair
    BY <1>2, <1>3 DEF JobOK
<1>5. \/ \E pc : Goto(h, pc)
      \/ \E code : Answer(h, code, NoPair)
      \/ job' = [job EXCEPT ![h].pc = "mail", ![h].tok = NextLink]
    <2>1. CASE FindByEmail(h)
        <3>1. job[h].op \in {"register", "forgot"} /\ job[h].pc = "findByEmail"
            BY <1>2, <2>1 DEF FindByEmail, StepsOf
        <3> QED BY <2>1, <3>1 DEF FindByEmail, At, Throw, Return
    <2>2. CASE ~FindByEmail(h)
        BY <2>2 DEF FormStep, CreateUser, VerifyPassword, InvalidateLinks, CreateLink, MailLink,
           DeleteLink, Throw, Return
    <2> QED BY <2>1, <2>2
<1>6. ASSUME job' = [job EXCEPT ![h].pc = "mail", ![h].tok = NextLink]
      PROVE  /\ \A g \in Handlers : g # h => job'[g] = job[g]
             /\ job'[h].op = job[h].op /\ job'[h].out = job[h].out
    BY <1>6 DEF TypeInv, Jobs, Job
<1>7. /\ \A g \in Handlers : g # h => job'[g] = job[g]
      /\ job'[h].op \in {"register", "login", "forgot", "none"} /\ job'[h].out = NoPair
    BY <1>3, <1>4, <1>5, <1>6, GotoFields, AnswerFields DEF Idle
<1> QED BY <1>1, <1>3, <1>7, HarmlessCalm DEF Refreshes

\* The steps of a refresh whose token is live, which nobody else refreshes.
LEMMA RefreshStepCalm ==
    ASSUME TypeInv, CalmParts, NEW h \in Handlers, UNCHANGED tab,
           FindToken(h) \/ LockRotation(h) \/ Rotate(h) \/ CacheRotation(h) \/ UnlockRotation(h)
    PROVE  CalmParts'
<1>1. Refreshes(h) /\ job[h].pc \in {"findToken", "lock", "rotate", "cache", "unlock"}
    BY DEF FindToken, LockRotation, Rotate, CacheRotation, UnlockRotation, At, Refreshes
<1>2. job[h].pc \in {"findToken", "lock", "rotate"} => row[job[h].tok] = "live"
    BY <1>1 DEF CalmParts, PresentedIsLive
<1>3. ASSUME NEW pc \in {"lock", "rotate", "unlock"}, Goto(h, pc), UNCHANGED row,
             pc \in {"lock", "rotate"} => job[h].pc \in {"findToken", "lock", "rotate"},
             rotationLock' \subseteq rotationLock \cup {job[h].tok},
             job[h].tok \in rotationLock' => pc \in {"rotate", "unlock"}
      PROVE  CalmParts'
    <2>1. /\ \A g \in Handlers : job'[g] = IF g = h THEN job'[h] ELSE job[g]
          /\ job'[h].pc = pc /\ job'[h].op = "refresh" /\ job'[h].out = job[h].out
          /\ job'[h].tab = job[h].tab /\ job'[h].tok = job[h].tok
        BY <1>1, <1>3, GotoFields DEF Refreshes
    <2> QED BY <1>1, <1>3, <2>1, RefreshCalm
<1>4. \A p \in rotationLock : p = job[h].tok => job[h].pc \in {"rotate", "cache", "unlock"}
    BY <1>1 DEF CalmParts, LocksAreHeld, OneRefreshEach
<1>5. CASE FindToken(h)
    <2>1. Goto(h, "lock") /\ UNCHANGED <<row, rotationLock>> /\ job[h].pc = "findToken"
        BY <1>2, <1>5 DEF FindToken, At, stored, redis
    <2> QED BY <1>3, <1>4, <2>1
<1>6. CASE LockRotation(h)
    <2>1. job[h].pc = "lock" /\ job[h].tok \notin rotationLock
        BY <1>4, <1>6 DEF LockRotation, At
    <2>2. /\ Goto(h, "rotate") /\ UNCHANGED row
          /\ rotationLock' = rotationLock \cup {job[h].tok}
        BY <1>6, <2>1 DEF LockRotation, stored
    <2> QED BY <1>3, <2>1, <2>2
<1>7. CASE CacheRotation(h)
    <2>1. Goto(h, "unlock") /\ UNCHANGED <<row, rotationLock>>
        BY <1>7 DEF CacheRotation, stored
    <2> QED BY <1>3, <2>1
<1>8. CASE UnlockRotation(h)
    <2>1. UNCHANGED row /\ rotationLock' = rotationLock \ {job[h].tok}
        BY <1>8 DEF UnlockRotation, stored
    <2>2. \E code : Answer(h, code, job[h].out)
        BY <1>8 DEF UnlockRotation, Return, Throw
    <2>3. job[h].tab # NoTab
        BY <1>1, AccountAssumption DEF CalmParts, OneRefreshEach
    <2>4. /\ \A g \in Handlers : job'[g] = IF g = h THEN job'[h] ELSE job[g]
          /\ job'[h].pc = "reply" /\ job'[h].op = "refresh" /\ job'[h].out = job[h].out
          /\ job'[h].tab = job[h].tab /\ job'[h].tok = job[h].tok
        BY <1>1, <2>2, <2>3, AnswerFields DEF Refreshes
    <2> QED BY <1>1, <2>1, <2>4, RefreshCalm
<1>9. CASE Rotate(h)
    <2> DEFINE n == NextPair
               tok == job[h].tok
    <2>1. job[h].pc = "rotate" /\ row[tok] = "live"
        BY <1>2, <1>9 DEF Rotate, At
    <2>2. /\ n \in Pairs /\ tok \in Pairs /\ row' = [row EXCEPT ![tok] = "revoked", ![n] = "live"]
        BY <1>9, <2>1, RotateSteps
    <2>3. UNCHANGED rotationLock /\ job' = [job EXCEPT ![h].pc = "cache", ![h].out = n]
        BY <1>9, <2>1 DEF Rotate, StillLive, redis
    <2> HIDE DEF n
    <2>4. /\ \A g \in Handlers : job'[g] = IF g = h THEN job'[h] ELSE job[g]
          /\ job'[h].pc = "cache" /\ job'[h].op = job[h].op /\ job'[h].out = n
          /\ job'[h].tab = job[h].tab /\ job'[h].tok = job[h].tok
        BY <2>3 DEF TypeInv, Jobs, Job
    <2>5. row'[n] = "live" /\ \A p \in Pairs : p # n /\ p # tok => row'[p] = row[p]
        BY <2>2 DEF TypeInv, Tables
    <2>6. job'[h].op = "refresh" /\ \A p \in Pairs : p # n /\ ~(Refreshes(h) /\ p = tok) => row'[p] = row[p]
        BY <1>1, <2>4, <2>5 DEF Refreshes
    <2>7. n \in Pairs /\ UNCHANGED rotationLock
        BY <2>2, <2>3
    <2>8. /\ Refreshes(h) /\ job[h].pc = "rotate" /\ job'[h].op = "refresh" /\ job'[h].pc = "cache"
          /\ job'[h].tab = job[h].tab /\ job'[h].tok = job[h].tok /\ job'[h].out \in {NoPair, n}
        BY <1>1, <2>1, <2>4, <2>6
    <2>9. \A g \in Handlers : job'[g] = IF g = h THEN job'[h] ELSE job[g]
        BY <2>4
    <2>10. row'[n] = "live"
        BY <2>5
    <2> QED BY <2>6, <2>7, <2>8, <2>9, <2>10, IssueCalm DEF n
<1> QED BY <1>5, <1>6, <1>7, <1>8, <1>9

LEMMA HandlerCalm ==
    ASSUME TypeInv, CalmParts, NEW h \in Handlers, HandlerStep(h), UNCHANGED tab
    PROVE  CalmParts'
<1>1. StepsOf(job[h].op, job[h].pc) /\ job[h].op \notin {"logout", "reset"}
    BY DEF TypeInv, Jobs, JobOK, CalmParts, NobodyLeaves
<1>2. job[h].op = "refresh" => job[h].pc \in {"findToken", "lock", "rotate", "cache", "unlock", "reply"}
    BY DEF CalmParts, OneRefreshEach, Refreshes
<1>3. CASE FormStep(h)
    BY <1>3, FormCalm
<1>4. CASE FindToken(h) \/ LockRotation(h) \/ Rotate(h) \/ CacheRotation(h) \/ UnlockRotation(h)
    BY <1>4, RefreshStepCalm
<1>5. CASE IssueTokensForUser(h)
    <2> DEFINE n == NextPair
    <2>1. n \in Pairs /\ row' = [row EXCEPT ![n] = "live"]
        BY <1>5, IssueSteps
    <2>2. /\ UNCHANGED rotationLock /\ job[h].op \in {"register", "login"} /\ Answer(h, "OK", n)
        BY <1>5 DEF IssueTokensForUser, redis, Return
    <2> HIDE DEF n
    <2>3. /\ \A g \in Handlers : job'[g] = IF g = h THEN job'[h] ELSE job[g]
          /\ job'[h].op \in {"register", "login", "none"} /\ job'[h].out \in {NoPair, n}
        BY <2>2, AnswerFields DEF Idle
    <2>4. row'[n] = "live" /\ \A p \in Pairs : p # n => row'[p] = row[p]
        BY <2>1 DEF TypeInv, Tables
    <2>5. ~Refreshes(h)
        BY <2>2 DEF Refreshes
    <2> QED BY <2>1, <2>2, <2>3, <2>4, <2>5, IssueCalm DEF n
<1>6. CASE WaitForCachedRotation(h)
    BY <1>1, <1>2, <1>6 DEF WaitForCachedRotation, StepsOf
<1>7. CASE SnapshotTokens(h) \/ RevokeTokens(h)
    BY <1>1, <1>2, <1>7 DEF SnapshotTokens, RevokeTokens, StepsOf
<1>8. CASE Blacklist(h) \/ FindLink(h) \/ ConsumeLink(h) \/ UpdatePassword(h)
    BY <1>1, <1>8 DEF Blacklist, FindLink, ConsumeLink, UpdatePassword, At
<1> QED BY <1>3, <1>4, <1>5, <1>6, <1>7, <1>8 DEF HandlerStep, FormStep

\* The tab after the end of a refresh, or of another request.
LEMMA EndedTab ==
    ASSUME TypeInv, NEW c \in TabType(NextPair), NEW kind, NEW p
    PROVE  /\ LET d == [applyTokens(c, p) EXCEPT !.refreshing = FALSE] IN d.stored = p
           /\ LET d == [clearSession(c) EXCEPT !.refreshing = FALSE, !.booting = FALSE] IN
                d.stored = NoPair
           /\ LET d == Failed(c, kind) IN
                d.refreshing = c.refreshing /\ d.stored \in {c.stored, NoPair}
           /\ LET d == Failed(clearSession(c), kind) IN
                d.refreshing = c.refreshing /\ d.stored = NoPair
           /\ LET d == Succeeded(c, kind, p) IN
                /\ d.refreshing = c.refreshing /\ d.stored \in {c.stored, NoPair, p}
                /\ kind \notin {"register", "login"} => d.stored \in {c.stored, NoPair}
<1>1. /\ [applyTokens(c, p) EXCEPT !.refreshing = FALSE].stored = p
      /\ [clearSession(c) EXCEPT !.refreshing = FALSE, !.booting = FALSE].stored = NoPair
    BY DEF applyTokens, clearSession, TabType
<1>2. /\ clearSession(c).stored = NoPair /\ clearSession(c).refreshing = c.refreshing
      /\ [clearSession(c) EXCEPT !.booting = FALSE].stored = NoPair
      /\ [clearSession(c) EXCEPT !.booting = FALSE].refreshing = c.refreshing
    BY DEF clearSession, TabType
<1>3. /\ clearSession(clearSession(c)).stored = NoPair
      /\ clearSession(clearSession(c)).refreshing = c.refreshing
      /\ [clearSession(clearSession(c)) EXCEPT !.booting = FALSE].stored = NoPair
      /\ [clearSession(clearSession(c)) EXCEPT !.booting = FALSE].refreshing = c.refreshing
    BY DEF clearSession, TabType
<1>4. /\ [applyTokens(c, p) EXCEPT !.user = TRUE].stored = p
      /\ [applyTokens(c, p) EXCEPT !.user = TRUE].refreshing = c.refreshing
      /\ [c EXCEPT !.user = TRUE, !.booting = FALSE].stored = c.stored
      /\ [c EXCEPT !.user = TRUE, !.booting = FALSE].refreshing = c.refreshing
    BY DEF applyTokens, TabType
<1> QED BY <1>1, <1>2, <1>3, <1>4 DEF Failed, Succeeded

\* A request that is refused leaves the token of its tab, or ends its session.
LEMMA UnauthorizedTab ==
    ASSUME TypeInv, NEW t \in Tabs, NEW s \in Slots, Unauthorized(t, s)
    PROVE  \A u \in Tabs : /\ tab'[u].stored = tab[u].stored \/ tab'[u].stored = NoPair
                           /\ tab'[u].refreshing = tab[u].refreshing
                           /\ u # t => tab'[u] = tab[u]
<1> DEFINE c == Failed(tab[t], req[t][s].kind)
<1>1. tab' = tab \/ tab' = [tab EXCEPT ![t] = c]
    BY DEF Unauthorized, TypeInv, Clients
<1>2. c.refreshing = tab[t].refreshing /\ c.stored \in {tab[t].stored, NoPair}
    BY TabIs, EndedTab
<1> HIDE DEF c
<1> QED BY <1>1, <1>2 DEF TypeInv, Clients

LEMMA ReceiveCalm ==
    ASSUME TypeInv, CalmParts, NEW h \in Handlers, Receive(h)
    PROVE  CalmParts'
<1> DEFINE t == job[h].tab
           s == job[h].slot
           c == tab[t]
           p == job[h].out
           kind == req[t][s].kind
<1>1. JobOK(job[h], NextPair) /\ job[h].pc = "reply" /\ job \in [Handlers -> Job]
    BY DEF Receive, TypeInv, Jobs
<1>2. t \in Tabs /\ job[h].op # "none"
    BY <1>1 DEF JobOK, StepsOf
<1>3. /\ \A g \in Handlers : job'[g] = IF g = h THEN Idle ELSE job[g]
      /\ UNCHANGED <<row, rotationLock>>
    BY <1>1 DEF Receive, stored, redis
<1>4. tab \in [Tabs -> TabType(NextPair)] /\ c \in TabType(NextPair)
    BY <1>2, TabIs DEF TypeInv, Clients
<1>5. CASE Refreshes(h)
    <2>1. RefreshEnds(t, job[h].res, p)
        BY <1>5 DEF Receive, Ends, Refreshes
    <2> DEFINE d == [applyTokens(c, p) EXCEPT !.refreshing = FALSE]
               e == [clearSession(c) EXCEPT !.refreshing = FALSE, !.booting = FALSE]
    <2>2. tab' = [tab EXCEPT ![t] = d] \/ tab' = [tab EXCEPT ![t] = e]
        BY <1>4, <2>1 DEF RefreshEnds
    <2>3. d.stored = p /\ e.stored = NoPair
        BY <1>2, <1>4, EndedTab
    <2> HIDE DEF t, c, d, e, p
    <2>4. tab'[t].stored \in {NoPair, p} /\ \A u \in Tabs : u # t => tab'[u] = tab[u]
        BY <1>2, <1>4, <2>2, <2>3
    <2> QED BY <1>1, <1>2, <1>3, <1>5, <2>4, AnswerCalm DEF t, p
<1>6. CASE ~Refreshes(h)
    <2>1. ServedEnds(t, s, job[h].res, p) /\ s \in Slots
        BY <1>1, <1>2, <1>6 DEF Receive, Ends, Refreshes, JobOK, Job
    <2> DEFINE d == Succeeded(c, kind, p)
               e == Failed(c, kind)
    <2>2. Unauthorized(t, s) \/ tab' = [tab EXCEPT ![t] = d] \/ tab' = [tab EXCEPT ![t] = e]
        BY <1>4, <2>1 DEF ServedEnds
    <2>3. /\ d.refreshing = c.refreshing /\ d.stored \in {c.stored, NoPair, p}
          /\ e.refreshing = c.refreshing /\ e.stored \in {c.stored, NoPair}
        <3> HIDE DEF c, p, kind
        <3>1. d.refreshing = c.refreshing /\ d.stored \in {c.stored, NoPair, p}
            BY <1>4, EndedTab
        <3>2. e.refreshing = c.refreshing /\ e.stored \in {c.stored, NoPair}
            BY <1>4, EndedTab
        <3> QED BY <3>1, <3>2
    <2> HIDE DEF d, e
    <2>4. CASE tab' = [tab EXCEPT ![t] = d] \/ tab' = [tab EXCEPT ![t] = e]
        <3> HIDE DEF t, p
        <3>1. /\ tab'[t].refreshing = tab[t].refreshing /\ tab'[t].stored \in {tab[t].stored, NoPair, p}
              /\ \A u \in Tabs : u # t => tab'[u] = tab[u]
            BY <1>2, <1>4, <2>3, <2>4
        <3> QED BY <1>1, <1>2, <1>3, <1>6, <3>1, AnswerCalm DEF t, p
    <2>5. CASE Unauthorized(t, s)
        <3>1. /\ tab'[t].refreshing = tab[t].refreshing /\ tab'[t].stored \in {tab[t].stored, NoPair}
              /\ \A u \in Tabs : u # t => tab'[u] = tab[u]
            BY <1>2, <2>1, <2>5, UnauthorizedTab
        <3> HIDE DEF t
        <3> QED BY <1>1, <1>2, <1>3, <1>6, <3>1, AnswerCalm DEF t
    <2> QED BY <2>2, <2>4, <2>5
<1> QED BY <1>5, <1>6

LEMMA Refresh401Calm ==
    ASSUME TypeInv, CalmParts, NEW t \in Tabs, NEW s \in Slots, RefreshAfter401(t, s)
    PROVE  CalmParts'
<1>1. UNCHANGED <<row, rotationLock>>
    BY DEF RefreshAfter401, stored, redis
<1>2. CASE UNCHANGED <<tab, job>>
    BY <1>1, <1>2, HarmlessCalm
<1>3. CASE tab' = [tab EXCEPT ![t] = Failed(clearSession(@), req[t][s].kind)] /\ UNCHANGED job
    <2> DEFINE c == Failed(clearSession(tab[t]), req[t][s].kind)
    <2>1. c.refreshing = tab[t].refreshing /\ c.stored = NoPair
        BY TabIs, EndedTab
    <2>2. tab' = [tab EXCEPT ![t] = c]
        BY <1>3 DEF TypeInv, Clients
    <2> HIDE DEF c
    <2>3. \A u \in Tabs : /\ tab'[u].stored = tab[u].stored \/ tab'[u].stored = NoPair
                          /\ tab'[u].refreshing = tab[u].refreshing
        BY <2>1, <2>2 DEF TypeInv, Clients
    <2> QED BY <1>1, <1>3, <2>3, HarmlessCalm
<1>4. CASE (\E h \in Handlers : StartRefresh(t, h)) /\ tab' = [tab EXCEPT ![t].refreshing = TRUE]
    BY <1>1, <1>4, StartCalm
<1> QED BY <1>2, <1>3, <1>4 DEF RefreshAfter401

\* A call other than a logout or a reset is handed to auth-service.
LEMMA HandsCalm ==
    ASSUME TypeInv, CalmParts, NEW t \in Tabs, NEW s \in Slots, NEW h \in Handlers, Hands(h, t, s),
           req[t][s].kind \notin {"logout", "reset"}, UNCHANGED <<row, rotationLock, tab>>
    PROVE  CalmParts'
<1>1. PICK op, tok, pwd : op \in {"register", "login", "forgot"} /\ Serve(h, op, t, s, tok, pwd)
    BY DEF Hands, AuthController, PasswordRoutes
<1>2. ~Refreshes(h)
    BY <1>1 DEF Serve, Refreshes, Idle
<1>3. /\ \A g \in Handlers : g # h => job'[g] = job[g]
      /\ job'[h].op = op /\ job'[h].out = NoPair
    BY <1>1 DEF Serve, Idle, TypeInv, Jobs
<1>4. job'[h].op \notin {"refresh", "logout", "reset"}
    BY <1>1, <1>3
<1> QED BY <1>2, <1>3, <1>4, HarmlessCalm

LEMMA DispatchCalm ==
    ASSUME TypeInv, CalmParts, NEW t \in Tabs, NEW s \in Slots, Dispatch(t, s), calm'
    PROVE  CalmParts'
<1> DEFINE r == req[t][s]
<1>1. CASE Unauthorized(t, s) /\ UNCHANGED authVars
    <2>1. UNCHANGED <<row, rotationLock, job>>
        BY <1>1 DEF authVars, stored, redis
    <2> QED BY <1>1, <2>1, UnauthorizedTab, HarmlessCalm
<1>2. CASE /\ r.kind \in Protected \ Served
           /\ tab' = [tab EXCEPT ![t] = Succeeded(@, r.kind, NoPair)] /\ UNCHANGED authVars
    <2>1. UNCHANGED <<row, rotationLock, job>>
        BY <1>2 DEF authVars, stored, redis
    <2> DEFINE c == Succeeded(tab[t], r.kind, NoPair)
    <2>2. c.refreshing = tab[t].refreshing /\ c.stored \in {tab[t].stored, NoPair}
        BY TabIs, EndedTab
    <2>3. tab' = [tab EXCEPT ![t] = c]
        BY <1>2 DEF TypeInv, Clients
    <2> HIDE DEF c
    <2>4. \A u \in Tabs : /\ tab'[u].stored = tab[u].stored \/ tab'[u].stored = NoPair
                          /\ tab'[u].refreshing = tab[u].refreshing
        BY <2>2, <2>3 DEF TypeInv, Clients
    <2> QED BY <2>1, <2>4, HarmlessCalm
<1>3. CASE /\ \E h \in Handlers : Hands(h, t, s)
           /\ calm' = (calm /\ r.kind \notin {"logout", "reset"})
           /\ UNCHANGED <<stored, redis, expired, mailbox, game, origin, signedWith, tab>>
    <2>1. UNCHANGED <<row, rotationLock, tab>> /\ r.kind \notin {"logout", "reset"}
        BY <1>3 DEF stored, redis
    <2> QED BY <1>3, <2>1, HandsCalm
<1> QED BY <1>1, <1>2, <1>3 DEF Dispatch, Hands

\* A page that is loaded again outside a refresh keeps its token, and no refresh loses
\* its tab.
LEMMA ReloadCalm ==
    ASSUME TypeInv, CalmParts, NEW t \in Tabs, Reload(t), calm'
    PROVE  CalmParts'
<1>1. UNCHANGED <<row, rotationLock>> /\ ~tab[t].refreshing
    BY DEF Reload, stored, redis
<1>2. \A u \in Tabs : tab'[u].stored = tab[u].stored /\ tab'[u].refreshing = tab[u].refreshing
    BY <1>1 DEF Reload, TypeInv, Clients, SignedOut, TabType
<1>3. ASSUME NEW h \in Handlers, job'[h] # job[h]
      PROVE  /\ ~Refreshes(h) /\ job'[h].op \notin {"refresh", "logout", "reset"}
             /\ job'[h].out = NoPair
    <2>1. /\ job[h].tab = t
          /\ job'[h] = IF job[h].pc = "reply" THEN Idle ELSE [job[h] EXCEPT !.tab = NoTab]
        BY <1>3 DEF Reload
    <2>2. ~Refreshes(h)
        BY <1>1, <2>1 DEF CalmParts, OneRefreshEach
    <2>3. CASE job[h].pc = "reply"
        BY <2>1, <2>2, <2>3 DEF Idle
    <2>4. CASE job[h].pc # "reply"
        <3>1. JobOK(job[h], NextPair) /\ job[h] \in Job
            BY DEF TypeInv, Jobs
        <3>2. job[h].out = NoPair /\ job[h].op \notin {"refresh", "logout", "reset"}
            BY <2>2, <2>4, <3>1 DEF JobOK, StepsOf, Refreshes, CalmParts, NobodyLeaves
        <3>3. job'[h].out = job[h].out /\ job'[h].op = job[h].op
            BY <2>1, <2>4, <3>1 DEF Job
        <3> QED BY <2>2, <3>2, <3>3
    <2> QED BY <2>3, <2>4
<1> QED BY <1>1, <1>2, <1>3, HarmlessCalm

LEMMA CalmSteps ==
    ASSUME TypeInv, CalmSound, [Next]_vars
    PROVE  CalmSound'
<1> SUFFICES ASSUME calm' PROVE CalmParts'
    BY DEF CalmSound
<1>1. ASSUME CalmParts, UNCHANGED <<row, rotationLock, job, tab>> PROVE CalmParts'
    BY <1>1, HarmlessCalm
<1>2. ASSUME NEW t \in Tabs, NEW s \in Slots,
             \/ Browse(t, s) \/ SubmitLogin(t, s) \/ SubmitRegister(t, s)
             \/ SubmitForgotPassword(t, s) \/ SubmitResetPassword(t, s) \/ BootProfile(t, s)
      PROVE  CalmParts'
    <2>1. UNCHANGED <<authVars, tab, calm>>
        BY <1>2 DEF Browse, SubmitLogin, SubmitRegister, SubmitForgotPassword, SubmitResetPassword,
           BootProfile, Send
    <2> QED BY <1>1, <2>1 DEF authVars, stored, redis, CalmSound
<1>3. ASSUME NEW t \in Tabs, NEW s \in Slots, Dispatch(t, s) PROVE CalmParts'
    BY <1>3, DispatchCalm DEF CalmSound, Dispatch
<1>4. ASSUME NEW t \in Tabs, NEW s \in Slots, RefreshAfter401(t, s) PROVE CalmParts'
    BY <1>4, Refresh401Calm DEF CalmSound, RefreshAfter401
<1>5. ASSUME NEW t \in Tabs, Reload(t) PROVE CalmParts'
    BY <1>5, ReloadCalm DEF CalmSound, Reload
<1>6. ASSUME NEW t \in Tabs, OpenSocket(t) \/ TokenExpires(t) PROVE CalmParts'
    BY <1>1, <1>6 DEF OpenSocket, TokenExpires, VerifyToken, AccessTokenExpires, clientVars, stored,
       redis, CalmSound
<1>7. ASSUME NEW t \in Tabs, NEW u \in Tabs, DuplicateTab(t, u) PROVE FALSE
    BY <1>7 DEF DuplicateTab
<1>8. ASSUME NEW t \in Tabs, NEW h \in Handlers, BootRefresh(t, h) PROVE CalmParts'
    BY <1>8, StartCalm DEF BootRefresh, stored, redis, CalmSound
<1>9. ASSUME NEW h \in Handlers, Receive(h) \/ Timeout(h) PROVE CalmParts'
    BY <1>9, ReceiveCalm DEF Receive, Timeout, CalmSound
<1>10. ASSUME NEW h \in Handlers, HandlerStep(h), UNCHANGED clientVars PROVE CalmParts'
    BY <1>10, HandlerCalm DEF clientVars, CalmSound
<1>11. ASSUME NEW p \in Pairs, CacheVerified(p) \/ EntryExpires(p), UNCHANGED clientVars
       PROVE  CalmParts'
    BY <1>1, <1>11 DEF CacheVerified, EntryExpires, clientVars, stored, redis, CalmSound
<1>12. ~Fault
    BY DEF Fault
<1>13. CASE UNCHANGED vars
    BY <1>1, <1>13 DEF vars, authVars, clientVars, stored, redis, CalmSound
<1> QED BY <1>2, <1>3, <1>4, <1>5, <1>6, <1>7, <1>8, <1>9, <1>10, <1>11, <1>12, <1>13 DEF Next

LEMMA InitCalm == Init => CalmSound
<1> SUFFICES ASSUME Init PROVE CalmParts
    BY DEF CalmSound
<1>1. /\ \A h \in Handlers : job[h].op = "none" /\ job[h].out = NoPair
      /\ rotationLock = {}
    BY DEF Init, AuthInit, Idle
<1>2. \A t \in Tabs : tab[t].stored = NoPair
    BY DEF Init, SignedOut
<1> QED BY <1>1, <1>2 DEF CalmParts, KeptIsLive, OneRefreshEach, TokensApart, PresentedIsLive,
           AnswersAreNew, LocksAreHeld, NobodyLeaves, Refreshes, NoPair

\* As long as nobody signs out or resets the password, nothing fails, no page is left in
\* the middle of a refresh and no tab is duplicated, the token a tab keeps is the live one,
\* or is being replaced: the requests of a tab share one refresh, so that auth-service never
\* sees a replaced token again and takes it for a stolen one.  Two tabs with one token are
\* outside this: the second to present it is taken for a thief.
THEOREM SessionIsKept == Spec => []SessionSurvivesRotation
<1>1. Init => TypeInv /\ CalmSound
    BY InitType, InitCalm
<1>2. TypeInv /\ CalmSound /\ [Next]_vars => (TypeInv /\ CalmSound)'
    BY NextSteps, CalmSteps
<1>3. CalmSound => SessionSurvivesRotation
    BY DEF CalmSound, CalmParts, KeptIsLive, SessionSurvivesRotation
<1> QED BY <1>1, <1>2, <1>3, PTL DEF Spec

-----------------------------------------------------------------------------
(* The types in full: links and tokens are ones that were issued, and a page that shows a
   user is not bootstrapping. *)

\* The handlers that may still create a link.
LinkingJob(j) == j.op = "forgot" /\ j.pc \in {"findByEmail", "invalidate", "createLink"}
Linkers == {h \in Handlers : LinkingJob(job[h])}

\* Links are issued in order, there is one left for every handler that may create one,
\* and those that were mailed were issued.
LinkTable ==
    /\ link \in [Links -> {"absent", "live", "used", "deleted"}]
    /\ NextLink \in 1..(MaxLinks + 1) /\ \A l \in Links : link[l] # "absent" <=> l < NextLink
    /\ NextLink + Cardinality(Linkers) <= MaxLinks + 1
    /\ mailbox \subseteq IssuedBefore(NextLink) \ {NoLink}

Statuses == {0, 200, 401, 409, 503}

\* What a handler was given: a pair issued before n, or a link issued before m.
Given(j, n, m) ==
    /\ j.res \in Statuses
    /\ j.op = "none" => j.tok = NoPair
    /\ j.op \in {"register", "login"} => j.tok \in IssuedBefore(n)
    /\ j.op = "logout" => j.tok \in IssuedBefore(n) \ {NoPair}
    /\ j.op \in {"forgot", "reset"} => j.tok \in IssuedBefore(m)
    /\ j.pc \in {"mail", "deleteLink"} => j.tok # NoLink
AllGiven == \A h \in Handlers : Given(job[h], NextPair, NextLink)

TokenSets ==
    /\ expired \cup blacklist \cup checking \cup verified \subseteq IssuedBefore(NextPair) \ {NoPair}
    /\ rotationLock \subseteq Pairs

\* A request carries what was issued, and nobody signs in on a page that is bootstrapping.
Carries(t, s) ==
    /\ req[t][s].used \in IssuedBefore(NextPair) /\ req[t][s].link \in IssuedBefore(NextLink)
    /\ req[t][s].kind \in {"register", "login"} => ~tab[t].booting
Pages ==
    /\ \A t \in Tabs, s \in Slots : Carries(t, s)
    /\ \A t \in Tabs : ~(tab[t].user /\ tab[t].booting)

Held == LinkTable /\ AllGiven /\ TokenSets /\ Pages

LEMMA StatusIs == ASSUME NEW code PROVE httpStatus(code) \in Statuses
BY DEF httpStatus, Statuses

LEMMA GivenGrows ==
    ASSUME NEW j, NEW n, NEW m, NEW n1, NEW m1, Given(j, n, m),
           IssuedBefore(n) \subseteq IssuedBefore(n1), IssuedBefore(m) \subseteq IssuedBefore(m1)
    PROVE  Given(j, n1, m1)
BY DEF Given

\* A handler goes on with what it was given, or is done.
JobMove(j, k) ==
    \/ k = Idle
    \/ /\ k.op = j.op /\ k.tok = j.tok /\ k.res \in {j.res} \cup Statuses
       /\ k.pc \in {"mail", "deleteLink"} => j.pc \in {"mail", "deleteLink"}
       /\ LinkingJob(k) => LinkingJob(j)

LEMMA MoveGiven ==
    ASSUME NEW j, NEW k, NEW n, NEW m, Given(j, n, m), JobMove(j, k)
    PROVE  Given(k, n, m) /\ (LinkingJob(k) => LinkingJob(j))
<1>1. CASE k = Idle
    BY <1>1 DEF Given, Idle, LinkingJob, Statuses
<1>2. CASE k # Idle
    BY <1>2 DEF JobMove, Given
<1> QED BY <1>1, <1>2

LEMMA LinkersAreFinite ==
    /\ IsFiniteSet(Linkers) /\ Cardinality(Linkers) \in Nat
    /\ IsFiniteSet(Linkers') /\ Cardinality(Linkers') \in Nat
<1>1. Linkers \subseteq Handlers /\ Linkers' \subseteq Handlers /\ IsFiniteSet(Handlers)
    BY AccountAssumption DEF Linkers
<1> QED BY <1>1, FS_Subset, FS_CardinalityType

LEMMA SameLinks ==
    ASSUME \A l \in Links : link'[l] = "absent" <=> link[l] = "absent"
    PROVE  NextLink' = NextLink
<1>1. {l \in Links : link'[l] # "absent"} = {l \in Links : link[l] # "absent"}
    OBVIOUS
<1> QED BY <1>1 DEF NextLink

\* A step that creates no link.
LEMMA LinksKept ==
    ASSUME Held, IssuedBefore(NextPair) \subseteq IssuedBefore(NextPair'),
           \A h \in Handlers : JobMove(job[h], job'[h]),
           link' \in [Links -> {"absent", "live", "used", "deleted"}],
           \A l \in Links : link'[l] = "absent" <=> link[l] = "absent",
           mailbox' \subseteq mailbox \cup (IssuedBefore(NextLink) \ {NoLink})
    PROVE  LinkTable' /\ AllGiven' /\ NextLink' = NextLink
<1>1. NextLink' = NextLink
    BY SameLinks
<1>2. \A h \in Handlers : Given(job'[h], NextPair', NextLink') /\ (LinkingJob(job'[h]) => LinkingJob(job[h]))
    <2> TAKE h \in Handlers
    <2>1. Given(job[h], NextPair, NextLink) /\ JobMove(job[h], job'[h])
        BY DEF Held, AllGiven
    <2>2. Given(job'[h], NextPair, NextLink) /\ (LinkingJob(job'[h]) => LinkingJob(job[h]))
        BY <2>1, MoveGiven
    <2> QED BY <1>1, <2>2, GivenGrows
<1>3. Linkers' \subseteq Linkers
    BY <1>2 DEF Linkers
<1>4. Cardinality(Linkers') <= Cardinality(Linkers)
    BY <1>3, LinkersAreFinite, FS_Subset
<1>5. NextLink' \in 1..(MaxLinks + 1) /\ NextLink' + Cardinality(Linkers') <= MaxLinks + 1
    BY <1>1, <1>4, LinkersAreFinite, AccountAssumption DEF Held, LinkTable
<1>6. \A l \in Links : link'[l] # "absent" <=> l < NextLink'
    BY <1>1 DEF Held, LinkTable
<1>7. mailbox' \subseteq IssuedBefore(NextLink') \ {NoLink}
    BY <1>1 DEF Held, LinkTable
<1> QED BY <1>1, <1>2, <1>5, <1>6, <1>7 DEF LinkTable, AllGiven

LEMMA SameJobsMove ==
    ASSUME Held, NEW h \in Handlers, job'[h] = job[h]
    PROVE  JobMove(job[h], job'[h])
BY DEF JobMove, Held, AllGiven, Given

\* The shapes of the steps of a handler.
LEMMA GotoJobMoves ==
    ASSUME TypeInv, Held, NEW h \in Handlers, NEW pc, Goto(h, pc),
           pc \in {"mail", "deleteLink"} => job[h].pc = "mail",
           pc \in {"findByEmail", "invalidate", "createLink"} => LinkingJob(job[h])
    PROVE  \A g \in Handlers : JobMove(job[g], job'[g])
<1>1. /\ \A g \in Handlers : g # h => job'[g] = job[g]
      /\ job'[h] = [job[h] EXCEPT !.pc = pc] /\ job[h] \in Job
    BY DEF Goto, TypeInv, Jobs
<1>2. /\ job'[h].pc = pc /\ job'[h].op = job[h].op /\ job'[h].tok = job[h].tok
      /\ job'[h].res = job[h].res
    BY <1>1 DEF Job
<1>3. JobMove(job[h], job'[h])
    BY <1>2 DEF JobMove, LinkingJob
<1> QED BY <1>1, <1>3, SameJobsMove

LEMMA AnswerMoves ==
    ASSUME TypeInv, Held, NEW h \in Handlers, NEW code, NEW out, Answer(h, code, out)
    PROVE  \A g \in Handlers : JobMove(job[g], job'[g])
<1> DEFINE k == [job[h] EXCEPT !.pc = "reply", !.seen = {}, !.res = httpStatus(code), !.out = out]
<1>1. /\ \A g \in Handlers : g # h => job'[g] = job[g]
      /\ job'[h] = Idle \/ job'[h] = k
      /\ job[h] \in Job
    BY DEF Answer, TypeInv, Jobs
<1>2. k.pc = "reply" /\ k.op = job[h].op /\ k.tok = job[h].tok /\ k.res = httpStatus(code)
    BY <1>1 DEF Job
<1> HIDE DEF k
<1>3. JobMove(job[h], job'[h])
    BY <1>1, <1>2, StatusIs DEF JobMove, LinkingJob
<1> QED BY <1>1, <1>3, SameJobsMove

LEMMA ThrowMoves ==
    ASSUME TypeInv, Held, NEW h \in Handlers, NEW error, Throw(h, error)
    PROVE  \A g \in Handlers : JobMove(job[g], job'[g])
BY AnswerMoves DEF Throw

LEMMA ReturnMoves ==
    ASSUME TypeInv, Held, NEW h \in Handlers, NEW out, Return(h, out)
    PROVE  \A g \in Handlers : JobMove(job[g], job'[g])
BY AnswerMoves DEF Return

\* ... and those that change the rest of the job.
LEMMA OtherMoves ==
    ASSUME TypeInv, Held, NEW h \in Handlers, NEW pc \in {"unlock", "cache", "revoke", "updatePassword"},
           NEW x,
           \/ job' = [job EXCEPT ![h].pc = pc, ![h].seen = x]
           \/ job' = [job EXCEPT ![h].pc = pc, ![h].out = x]
    PROVE  \A g \in Handlers : JobMove(job[g], job'[g])
<1>1. /\ \A g \in Handlers : g # h => job'[g] = job[g]
      /\ \/ job'[h] = [job[h] EXCEPT !.pc = pc, !.seen = x]
         \/ job'[h] = [job[h] EXCEPT !.pc = pc, !.out = x]
      /\ job[h] \in Job
    BY DEF TypeInv, Jobs
<1>2. /\ job'[h].pc = pc /\ job'[h].op = job[h].op /\ job'[h].tok = job[h].tok
      /\ job'[h].res = job[h].res
    BY <1>1 DEF Job
<1>3. JobMove(job[h], job'[h])
    BY <1>2 DEF JobMove, LinkingJob
<1> QED BY <1>1, <1>3, SameJobsMove

AnyStep(h) == HandlerStep(h) \/ CommandFails(h) \/ UserServiceTimeout(h) \/ HandlerDies(h)

LEMMA HandlerMoves ==
    ASSUME TypeInv, Held, NEW h \in Handlers, AnyStep(h), ~CreateLink(h)
    PROVE  \A g \in Handlers : JobMove(job[g], job'[g])
<1> DEFINE j == job[h]
           Goal == \A g \in Handlers : JobMove(job[g], job'[g])
<1> SUFFICES Goal
    OBVIOUS
<1> HIDE DEF Goal
<1>1. JobOK(j, NextPair) /\ StepsOf(j.op, j.pc)
    BY DEF TypeInv, Jobs, JobOK
<1>2. ASSUME NEW pc, Goto(h, pc),
             pc \notin {"mail", "deleteLink", "findByEmail", "invalidate", "createLink"}
      PROVE  Goal
    BY <1>2, GotoJobMoves DEF Goal
<1>3. ASSUME NEW error, Throw(h, error) PROVE Goal
    BY <1>3, ThrowMoves DEF Goal
<1>4. ASSUME NEW out, Return(h, out) PROVE Goal
    BY <1>4, ReturnMoves DEF Goal
<1>5. CASE FindByEmail(h)
    <2>1. j.op \in {"register", "forgot"} /\ j.pc = "findByEmail"
        BY <1>1, <1>5 DEF FindByEmail, StepsOf
    <2>2. \/ Goto(h, "createUser") \/ (j.op = "forgot" /\ Goto(h, "invalidate"))
          \/ Throw(h, "Conflict") \/ Return(h, NoPair)
        BY <1>5, <2>1 DEF FindByEmail, At
    <2>3. j.op = "forgot" => LinkingJob(j)
        BY <2>1 DEF LinkingJob
    <2>4. CASE j.op = "forgot" /\ Goto(h, "invalidate")
        BY <2>3, <2>4, GotoJobMoves DEF Goal
    <2> QED BY <1>2, <1>3, <1>4, <2>2, <2>4
<1>6. CASE InvalidateLinks(h)
    <2>1. Goto(h, "createLink") /\ LinkingJob(j)
        BY <1>6 DEF InvalidateLinks, At, LinkingJob
    <2> QED BY <2>1, GotoJobMoves DEF Goal
<1>7. CASE FindToken(h)
    <2>1. j.tok \in Pairs /\ row[j.tok] # "absent"
        BY <1>7, PresentedWasIssued DEF FindToken, At
    <2>2. row[j.tok] \in {"live", "revoked", "expired"}
        BY <2>1 DEF TypeInv, Tables
    <2>3. Goto(h, "lock") \/ Goto(h, "snapshot") \/ Throw(h, "Unauthorized")
        BY <1>7, <2>2 DEF FindToken
    <2> QED BY <1>2, <1>3, <2>3
<1>8. CASE \/ CreateUser(h) \/ VerifyPassword(h) \/ CacheRotation(h) \/ Blacklist(h) \/ FindLink(h)
           \/ IssueTokensForUser(h) \/ MailLink(h) \/ DeleteLink(h) \/ UpdatePassword(h)
           \/ UnlockRotation(h) \/ UserServiceTimeout(h) \/ HandlerDies(h)
    <2>1. \/ Goto(h, "issue") \/ Goto(h, "unlock") \/ Goto(h, "snapshot") \/ Goto(h, "consume")
          \/ Throw(h, "Conflict") \/ Throw(h, "Unauthorized") \/ Throw(h, "ServiceUnavailable")
          \/ Return(h, NextPair) \/ Return(h, NoPair) \/ Return(h, j.out)
        BY <1>8 DEF CreateUser, VerifyPassword, CacheRotation, Blacklist, FindLink, IssueTokensForUser,
           MailLink, DeleteLink, UpdatePassword, UnlockRotation, UserServiceTimeout, HandlerDies
    <2> QED BY <1>2, <1>3, <1>4, <2>1
<1>9. CASE LockRotation(h)
    <2>1. Goto(h, "await") \/ Goto(h, "rotate")
        BY <1>9 DEF LockRotation
    <2> QED BY <1>2, <2>1
<1>10. CASE Rotate(h)
    <2>1. Goto(h, "awaitLocked") \/ job' = [job EXCEPT ![h].pc = "cache", ![h].out = NextPair]
        BY <1>10 DEF Rotate
    <2> QED BY <1>2, <2>1, OtherMoves DEF Goal
<1>11. CASE WaitForCachedRotation(h)
    <2> DEFINE found == rotation[j.tok]
    <2>1. \/ job' = [job EXCEPT ![h].pc = "unlock", ![h].out = found]
          \/ Return(h, found) \/ Throw(h, "Unauthorized")
        BY <1>11 DEF WaitForCachedRotation
    <2> HIDE DEF found
    <2>2. CASE job' = [job EXCEPT ![h].pc = "unlock", ![h].out = found]
        BY <2>2, OtherMoves DEF Goal
    <2> QED BY <1>3, <1>4, <2>1, <2>2
<1>12. CASE SnapshotTokens(h)
    <2>1. job' = [job EXCEPT ![h].pc = "revoke", ![h].seen = LiveTokens]
        BY <1>12 DEF SnapshotTokens
    <2> QED BY <2>1, OtherMoves DEF Goal
<1>13. CASE RevokeTokens(h)
    <2>1. j.op \in {"refresh", "logout", "reset"}
        BY <1>1, <1>13 DEF RevokeTokens, StepsOf
    <2>2. \/ job' = [job EXCEPT ![h].pc = "updatePassword", ![h].seen = {}]
          \/ Return(h, NoPair) \/ Throw(h, "Unauthorized")
        BY <1>13, <2>1 DEF RevokeTokens
    <2>3. CASE job' = [job EXCEPT ![h].pc = "updatePassword", ![h].seen = {}]
        BY <2>3, OtherMoves DEF Goal
    <2> QED BY <1>3, <1>4, <2>2, <2>3
<1>14. CASE ConsumeLink(h)
    <2>1. \/ job' = [job EXCEPT ![h].pc = "revoke", ![h].seen = LiveTokens] \/ Throw(h, "Unauthorized")
        BY <1>14 DEF ConsumeLink
    <2> QED BY <1>3, <2>1, OtherMoves DEF Goal
<1>15. CASE CommandFails(h)
    <2>1. (j.pc = "mail" /\ Goto(h, "deleteLink")) \/ Throw(h, "ServiceUnavailable")
        BY <1>15 DEF CommandFails, At
    <2>2. CASE j.pc = "mail" /\ Goto(h, "deleteLink")
        BY <2>2, GotoJobMoves DEF Goal
    <2> QED BY <1>3, <2>1, <2>2
<1> QED BY <1>5, <1>6, <1>7, <1>8, <1>9, <1>10, <1>11, <1>12, <1>13, <1>14, <1>15 DEF AnyStep, HandlerStep

\* The tables of links and tokens in the steps of a handler.
LEMMA GivenAre ==
    ASSUME Held, NEW h \in Handlers
    PROVE  /\ Given(job[h], NextPair, NextLink)
           /\ link \in [Links -> {"absent", "live", "used", "deleted"}]
           /\ \A l \in Links : link[l] # "absent" <=> l < NextLink
           /\ MaxLinks \in Nat /\ NextLink \in 1..(MaxLinks + 1)
           /\ mailbox \subseteq IssuedBefore(NextLink) \ {NoLink}
BY AccountAssumption DEF Held, AllGiven, LinkTable

\* Changing a link that was issued creates none.
LEMMA OneLink ==
    ASSUME Held, NEW l \in IssuedBefore(NextLink), NEW st \in {"live", "used", "deleted"},
           link' = [link EXCEPT ![l] = st]
    PROVE  /\ link' \in [Links -> {"absent", "live", "used", "deleted"}]
           /\ \A x \in Links : link'[x] = "absent" <=> link[x] = "absent"
<1>1. /\ link \in [Links -> {"absent", "live", "used", "deleted"}]
      /\ \A x \in Links : link[x] # "absent" <=> x < NextLink
      /\ NextLink \in Nat
    BY AccountAssumption DEF Held, LinkTable
<1>2. l \in Links => link[l] # "absent"
    BY <1>1 DEF IssuedBefore, Links
<1>3. link' \in [Links -> {"absent", "live", "used", "deleted"}]
    BY <1>1
<1>4. \A x \in Links : link'[x] = IF x = l THEN st ELSE link[x]
    BY <1>1
<1> QED BY <1>2, <1>3, <1>4

LEMMA HandlerLinks ==
    ASSUME TypeInv, Held, NEW h \in Handlers, AnyStep(h), ~CreateLink(h)
    PROVE  /\ link' \in [Links -> {"absent", "live", "used", "deleted"}]
           /\ \A l \in Links : link'[l] = "absent" <=> link[l] = "absent"
           /\ mailbox' \subseteq mailbox \cup (IssuedBefore(NextLink) \ {NoLink})
<1> DEFINE j == job[h]
<1>1. /\ Given(j, NextPair, NextLink) /\ link \in [Links -> {"absent", "live", "used", "deleted"}]
      /\ JobOK(j, NextPair) /\ StepsOf(j.op, j.pc)
    BY GivenAre DEF TypeInv, Jobs, JobOK
<1>2. CASE InvalidateLinks(h)
    <2>1. link' = [l \in Links |-> IF link[l] = "live" THEN "used" ELSE link[l]] /\ mailbox' = mailbox
        BY <1>2 DEF InvalidateLinks
    <2> QED BY <1>1, <2>1
<1>3. CASE MailLink(h)
    <2>1. mailbox' = mailbox \cup {j.tok} /\ link' = link /\ j.op = "forgot" /\ j.pc = "mail"
        BY <1>3 DEF MailLink, At, stored
    <2>2. j.tok \in IssuedBefore(NextLink) \ {NoLink}
        BY <1>1, <2>1 DEF Given
    <2> QED BY <1>1, <2>1, <2>2
<1>4. CASE DeleteLink(h)
    <2>1. /\ mailbox' = mailbox /\ link' = [link EXCEPT ![j.tok] = "deleted"] /\ j.op = "forgot"
        BY <1>4 DEF DeleteLink, At
    <2>2. j.tok \in IssuedBefore(NextLink)
        BY <1>1, <2>1 DEF Given
    <2> QED BY <2>1, <2>2, OneLink
<1>5. CASE ConsumeLink(h) \/ CommandFails(h) \/ HandlerDies(h)
    <2>1. /\ mailbox' = mailbox
          /\ \/ link' = link
             \/ j.op = "reset" /\ \E st \in {"live", "used"} : link' = [link EXCEPT ![j.tok] = st]
        BY <1>5 DEF ConsumeLink, CommandFails, HandlerDies, At
    <2>2. j.op = "reset" => j.tok \in IssuedBefore(NextLink)
        BY <1>1 DEF Given
    <2>3. CASE link' = link
        BY <1>1, <2>1, <2>3
    <2>4. CASE link' # link
        BY <2>1, <2>2, <2>4, OneLink
    <2> QED BY <2>3, <2>4
<1>6. CASE ~\/ InvalidateLinks(h) \/ MailLink(h) \/ DeleteLink(h) \/ ConsumeLink(h)
            \/ CommandFails(h) \/ HandlerDies(h)
    <2>1. UNCHANGED <<link, mailbox>>
        BY <1>6 DEF AnyStep, HandlerStep, stored, FindByEmail, CreateUser, VerifyPassword,
           IssueTokensForUser, FindToken, LockRotation, Rotate, CacheRotation, WaitForCachedRotation,
           UnlockRotation, Blacklist, SnapshotTokens, RevokeTokens, FindLink, UpdatePassword,
           UserServiceTimeout
    <2> QED BY <1>1, <2>1
<1> QED BY <1>2, <1>3, <1>4, <1>5, <1>6

LEMMA HandlerTokens ==
    ASSUME TypeInv, Held, NEW h \in Handlers, AnyStep(h),
           IssuedBefore(NextPair) \subseteq IssuedBefore(NextPair')
    PROVE  TokenSets'
<1> DEFINE j == job[h]
<1>1. Given(j, NextPair, NextLink) /\ TokenSets
    BY GivenAre DEF Held
<1>2. UNCHANGED <<expired, checking, verified>>
    <2>1. UNCHANGED game /\ UNCHANGED expired
        BY DEF AnyStep, HandlerStep, FindByEmail, CreateUser, VerifyPassword, IssueTokensForUser,
           FindToken, LockRotation, Rotate, CacheRotation, WaitForCachedRotation, UnlockRotation,
           Blacklist, SnapshotTokens, RevokeTokens, InvalidateLinks, CreateLink, MailLink, DeleteLink,
           FindLink, ConsumeLink, UpdatePassword, CommandFails, UserServiceTimeout, HandlerDies
    <2> QED BY <2>1 DEF game
<1>3. CASE Blacklist(h)
    <2>1. /\ blacklist' \subseteq blacklist \cup {j.tok} /\ j.op = "logout" /\ rotationLock' = rotationLock
        BY <1>3 DEF Blacklist, At
    <2>2. j.tok \in IssuedBefore(NextPair) \ {NoPair}
        BY <1>1, <2>1 DEF Given
    <2> QED BY <1>1, <1>2, <2>1, <2>2 DEF TokenSets
<1>4. CASE LockRotation(h)
    <2>1. j.op = "refresh" /\ rotationLock' = rotationLock \cup {j.tok} /\ blacklist' = blacklist
        BY <1>4 DEF LockRotation, At
    <2>2. j.tok \in Pairs
        BY <2>1, PresentedWasIssued
    <2> QED BY <1>1, <1>2, <2>1, <2>2 DEF TokenSets
<1>5. CASE ~Blacklist(h) /\ ~LockRotation(h)
    <2>1. blacklist' = blacklist /\ rotationLock' \subseteq rotationLock
        BY <1>5 DEF AnyStep, HandlerStep, redis, FindByEmail, CreateUser, VerifyPassword,
           IssueTokensForUser, FindToken, Rotate, CacheRotation, WaitForCachedRotation, UnlockRotation,
           SnapshotTokens, RevokeTokens, InvalidateLinks, CreateLink, MailLink, DeleteLink,
           FindLink, ConsumeLink, UpdatePassword, CommandFails, UserServiceTimeout, HandlerDies
    <2> QED BY <1>1, <1>2, <2>1 DEF TokenSets
<1> QED BY <1>3, <1>4, <1>5

LEMMA CreateLinkHeld ==
    ASSUME TypeInv, Held, NEW h \in Handlers, CreateLink(h),
           IssuedBefore(NextPair) \subseteq IssuedBefore(NextPair')
    PROVE  LinkTable' /\ AllGiven' /\ IssuedBefore(NextLink) \subseteq IssuedBefore(NextLink')
<1> DEFINE j == job[h]
           k == [j EXCEPT !.pc = "mail", !.tok = NextLink]
           n == NextLink
           made == {l \in Links : link[l] # "absent"}
<1>1. /\ j.op = "forgot" /\ j.pc = "createLink" /\ j \in Job /\ mailbox' = mailbox
      /\ link' = [link EXCEPT ![n] = "live"]
      /\ \A g \in Handlers : job'[g] = IF g = h THEN k ELSE job[g]
    BY DEF CreateLink, At, TypeInv, Jobs
<1>2. h \in Linkers /\ h \notin Linkers' /\ Linkers' = Linkers \ {h}
    <2>1. k.pc = "mail"
        BY <1>1 DEF Job
    <2> HIDE DEF k
    <2> QED BY <1>1, <2>1 DEF Linkers, LinkingJob
<1>3. Cardinality(Linkers') = Cardinality(Linkers) - 1 /\ Cardinality(Linkers') \in Nat
    BY <1>2, LinkersAreFinite, FS_RemoveElement
<1>4. n \in 1..(MaxLinks + 1) /\ n + Cardinality(Linkers) <= MaxLinks + 1 /\ MaxLinks \in Nat
    BY AccountAssumption DEF Held, LinkTable
<1>5. n \in Links
    BY <1>3, <1>4, LinkersAreFinite DEF Links
<1>6. /\ link \in [Links -> {"absent", "live", "used", "deleted"}]
      /\ \A l \in Links : link[l] # "absent" <=> l < n
    BY DEF Held, LinkTable
<1>7. \A l \in Links : link'[l] # "absent" <=> link[l] # "absent" \/ l = n
    BY <1>1, <1>5, <1>6
<1>8. NextLink' = n + 1
    <2>1. {l \in Links : link'[l] # "absent"} = made \cup {n}
        BY <1>5, <1>7
    <2>2. n \notin made /\ IsFiniteSet(made)
        <3>1. IsFiniteSet(Links) /\ made \subseteq Links
            BY FS_Interval, AccountAssumption DEF Links
        <3> QED BY <1>4, <1>6, <3>1, FS_Subset
    <2>3. Cardinality(made \cup {n}) = Cardinality(made) + 1
        BY <2>2, FS_AddElement
    <2> HIDE DEF made
    <2>4. NextLink' = Cardinality(made \cup {n}) + 1 /\ n = Cardinality(made) + 1
        BY <2>1 DEF NextLink, made
    <2> QED BY <2>3, <2>4
<1> HIDE DEF n
<1>9. \A l \in Links : link'[l] # "absent" <=> l < n + 1
    <2>1. Links \subseteq Nat
        BY DEF Links
    <2> QED BY <1>4, <1>6, <1>7, <2>1
<1>10. IssuedBefore(n) \subseteq IssuedBefore(n + 1) /\ n \in IssuedBefore(n + 1) \ {NoLink}
    BY <1>4 DEF IssuedBefore, NoLink
<1>11. mailbox' \subseteq IssuedBefore(n + 1) \ {NoLink}
    BY <1>1, <1>10 DEF Held, LinkTable, n
<1>12. link' \in [Links -> {"absent", "live", "used", "deleted"}]
    BY <1>1, <1>6
<1>13. LinkTable'
    BY <1>3, <1>4, <1>8, <1>9, <1>11, <1>12, LinkersAreFinite DEF LinkTable
<1>14. \A g \in Handlers : Given(job'[g], NextPair', n + 1)
    <2> TAKE g \in Handlers
    <2>1. Given(job[g], NextPair, n)
        BY DEF Held, AllGiven, n
    <2>2. CASE g # h
        BY <1>1, <1>10, <2>1, <2>2, GivenGrows
    <2>3. CASE g = h
        <3>1. job'[g] = [j EXCEPT !.pc = "mail", !.tok = n] /\ Given(j, NextPair, n)
            BY <1>1, <2>1, <2>3 DEF n
        <3>2. job'[g].pc = "mail" /\ job'[g].tok = n /\ job'[g].op = "forgot" /\ job'[g].res = j.res
            BY <1>1, <3>1 DEF Job
        <3> QED BY <1>10, <3>1, <3>2 DEF Given
    <2> QED BY <2>2, <2>3
<1> QED BY <1>8, <1>10, <1>13, <1>14 DEF AllGiven, n

\* A call arrives.
LEMMA ServeHeld ==
    ASSUME TypeInv, Held, NEW h \in Handlers, NEW op \in Served \cup {"refresh"}, NEW t, NEW s, NEW tok,
           NEW pwd, Serve(h, op, t, s, tok, pwd), UNCHANGED <<row, link, mailbox>>,
           op \in {"register", "login"} => tok \in IssuedBefore(NextPair),
           op = "logout" => tok \in IssuedBefore(NextPair) \ {NoPair},
           op \in {"forgot", "reset"} => tok \in IssuedBefore(NextLink)
    PROVE  LinkTable' /\ AllGiven'
<1> DEFINE k == [Idle EXCEPT !.op = op, !.pc = FirstStep(op), !.tab = t, !.slot = s, !.tok = tok,
                             !.pwd = pwd]
<1>1. job[h] = Idle /\ \A g \in Handlers : job'[g] = IF g = h THEN k ELSE job[g]
    BY DEF Serve, TypeInv, Jobs
<1>2. k.op = op /\ k.tok = tok /\ k.res = 0 /\ k.pc = FirstStep(op)
    BY DEF Idle
<1>3. FirstStep(op) \notin {"mail", "deleteLink"} /\ op # "none"
    BY DEF FirstStep, Served, Forms
<1> HIDE DEF k
<1>4. NextPair' = NextPair /\ NextLink' = NextLink
    BY DEF NextPair, NextLink
<1>5. AllGiven'
    <2> SUFFICES ASSUME NEW g \in Handlers PROVE Given(job'[g], NextPair, NextLink)
        BY <1>4 DEF AllGiven
    <2>1. CASE g # h
        BY <1>1, <2>1 DEF Held, AllGiven
    <2>2. CASE g = h
        BY <1>1, <1>2, <1>3, <2>2 DEF Given, Statuses
    <2> QED BY <2>1, <2>2
<1>6. NextLink + Cardinality(Linkers') <= MaxLinks + 1
    <2>1. CASE op # "forgot"
        <3>1. Linkers' = Linkers
            BY <1>1, <1>2, <2>1 DEF Linkers, LinkingJob, Idle
        <3> QED BY <3>1 DEF Held, LinkTable
    <2>2. CASE op = "forgot"
        <3> DEFINE F == {g \in Handlers : job[g].op = "forgot"}
        <3>1. NextLink + Cardinality(F) <= MaxLinks
            BY <2>2 DEF Serve, Room, IssuingOps
        <3>2. IsFiniteSet(F) /\ Cardinality(F) \in Nat
            <4>1. F \subseteq Handlers
                OBVIOUS
            <4> QED BY <4>1, AccountAssumption, FS_Subset, FS_CardinalityType
        <3>3. Linkers' \subseteq F \cup {h}
            BY <1>1 DEF Linkers, LinkingJob
        <3>4. h \notin F
            BY <1>1 DEF Idle
        <3>5. Cardinality(F \cup {h}) = Cardinality(F) + 1 /\ IsFiniteSet(F \cup {h})
            BY <3>2, <3>4, FS_AddElement
        <3>6. Cardinality(Linkers') <= Cardinality(F \cup {h})
            BY <3>3, <3>5, FS_Subset
        <3>7. NextLink \in Nat /\ MaxLinks \in Nat
            BY AccountAssumption DEF Held, LinkTable
        <3> HIDE DEF F
        <3> QED BY <3>1, <3>2, <3>5, <3>6, <3>7, LinkersAreFinite
    <2> QED BY <2>1, <2>2
<1>7. LinkTable'
    BY <1>4, <1>6 DEF Held, LinkTable
<1> QED BY <1>5, <1>7

\* The pages.
RequestKept(t, s) ==
    \/ req'[t][s] = NoRequest
    \/ /\ req'[t][s].kind = req[t][s].kind /\ req'[t][s].link = req[t][s].link
       /\ req'[t][s].used = req[t][s].used \/ req'[t][s].used \in IssuedBefore(NextPair)
RequestsKept == \A t \in Tabs, s \in Slots : RequestKept(t, s)

LEMMA LinksPositive == Held => NextLink \in Nat \ {0} /\ NoLink \in IssuedBefore(NextLink)
<1> SUFFICES ASSUME Held PROVE NextLink \in Nat \ {0} /\ NoLink \in IssuedBefore(NextLink)
    OBVIOUS
<1>1. NextLink \in 1..(MaxLinks + 1) /\ MaxLinks \in Nat
    BY AccountAssumption DEF Held, LinkTable
<1> QED BY <1>1 DEF IssuedBefore, NoLink

LEMMA PagesKept ==
    ASSUME TypeInv, Held, IssuedBefore(NextPair) \subseteq IssuedBefore(NextPair'),
           IssuedBefore(NextLink) \subseteq IssuedBefore(NextLink'), RequestsKept,
           \A t \in Tabs : /\ tab'[t].booting => tab[t].booting \/ \A s \in Slots : req'[t][s] = NoRequest
                           /\ ~(tab'[t].user /\ tab'[t].booting)
    PROVE  Pages'
<1>1. NoPair \in IssuedBefore(NextPair') /\ NoLink \in IssuedBefore(NextLink')
    BY NextPairPositive, LinksPositive
<1> SUFFICES ASSUME NEW t \in Tabs, NEW s \in Slots PROVE Carries(t, s)'
    BY DEF Pages
<1>2. Carries(t, s) /\ RequestKept(t, s)
    BY DEF Held, Pages, RequestsKept
<1>3. CASE req'[t][s] = NoRequest
    BY <1>1, <1>3 DEF Carries, NoRequest
<1>4. CASE req'[t][s] # NoRequest
    BY <1>2, <1>4 DEF Carries, RequestKept
<1> QED BY <1>3, <1>4

LEMMA NothingSent == UNCHANGED req => RequestsKept
BY DEF RequestsKept, RequestKept

LEMMA DoneKept ==
    ASSUME TypeInv, NEW t \in Tabs, NEW s \in Slots, Done(t, s)
    PROVE  RequestsKept
<1>1. req \in [Tabs -> [Slots -> RequestType]]
    BY DEF TypeInv, Clients
<1>2. \A u \in Tabs, v \in Slots : req'[u][v] = IF u = t /\ v = s THEN NoRequest ELSE req[u][v]
    BY <1>1 DEF Done
<1> QED BY <1>2 DEF RequestsKept, RequestKept

LEMMA MovesKept ==
    ASSUME TypeInv, NEW t \in Tabs, NEW s \in Slots, NEW pc, req' = [req EXCEPT ![t][s].pc = pc]
    PROVE  RequestsKept
<1> DEFINE r == [req[t][s] EXCEPT !.pc = pc]
<1>1. req \in [Tabs -> [Slots -> RequestType]] /\ req[t][s] \in RequestType
    BY DEF TypeInv, Clients
<1>2. \A u \in Tabs, v \in Slots : req'[u][v] = IF u = t /\ v = s THEN r ELSE req[u][v]
    BY <1>1
<1>3. r.kind = req[t][s].kind /\ r.link = req[t][s].link /\ r.used = req[t][s].used
    BY <1>1 DEF RequestType
<1> HIDE DEF r
<1> QED BY <1>2, <1>3 DEF RequestsKept, RequestKept

LEMMA AfterRefreshKept ==
    ASSUME TypeInv, NEW t \in Tabs, NEW p \in IssuedBefore(NextPair), AfterRefresh(t, p)
    PROVE  RequestsKept
<1> DEFINE again(s) == [req[t][s] EXCEPT !.pc = "sent", !.used = p, !.retried = TRUE]
<1>1. req \in [Tabs -> [Slots -> RequestType]]
    BY DEF TypeInv, Clients
<1>2. \A u \in Tabs, s \in Slots :
         \/ req'[u][s] = req[u][s] \/ req'[u][s] = NoRequest \/ (u = t /\ req'[u][s] = again(s))
    BY <1>1 DEF AfterRefresh
<1>3. \A s \in Slots : /\ again(s).kind = req[t][s].kind /\ again(s).link = req[t][s].link
                       /\ again(s).used = p
    BY <1>1 DEF RequestType
<1> HIDE DEF again
<1> QED BY <1>2, <1>3 DEF RequestsKept, RequestKept

\* A tab c becomes d, with kind the request that ends.
Tidy(c, d) == (d.booting => c.booting) /\ ~(d.user /\ d.booting)

LEMMA TidyTabs ==
    ASSUME NEW n, NEW c \in TabType(n), ~(c.user /\ c.booting), NEW p, NEW kind
    PROVE  /\ Tidy(c, c) /\ Tidy(c, [c EXCEPT !.refreshing = TRUE])
           /\ Tidy(c, [applyTokens(c, p) EXCEPT !.refreshing = FALSE])
           /\ Tidy(c, [clearSession(c) EXCEPT !.refreshing = FALSE, !.booting = FALSE])
           /\ Tidy(c, Failed(c, kind)) /\ Tidy(c, Failed(clearSession(c), kind))
           /\ (kind \in {"register", "login"} => ~c.booting) => Tidy(c, Succeeded(c, kind, p))
<1>1. /\ Tidy(c, c) /\ Tidy(c, [c EXCEPT !.refreshing = TRUE])
      /\ Tidy(c, [applyTokens(c, p) EXCEPT !.refreshing = FALSE])
      /\ Tidy(c, [clearSession(c) EXCEPT !.refreshing = FALSE, !.booting = FALSE])
    BY DEF Tidy, TabType, applyTokens, clearSession
<1>2. /\ Tidy(c, clearSession(c)) /\ Tidy(c, clearSession(clearSession(c)))
      /\ Tidy(c, [clearSession(c) EXCEPT !.booting = FALSE])
      /\ Tidy(c, [clearSession(clearSession(c)) EXCEPT !.booting = FALSE])
    BY DEF Tidy, TabType, clearSession
<1>3. Tidy(c, Failed(c, kind)) /\ Tidy(c, Failed(clearSession(c), kind))
    BY <1>1, <1>2 DEF Failed
<1>4. ASSUME ~c.booting PROVE Tidy(c, [applyTokens(c, p) EXCEPT !.user = TRUE])
    BY <1>4 DEF Tidy, TabType, applyTokens
<1>5. Tidy(c, [c EXCEPT !.user = TRUE, !.booting = FALSE])
    BY DEF Tidy, TabType
<1>6. (kind \in {"register", "login"} => ~c.booting) => Tidy(c, Succeeded(c, kind, p))
    BY <1>1, <1>2, <1>4, <1>5 DEF Succeeded
<1> QED BY <1>1, <1>3, <1>6

\* One tab changes, and no page is loaded.
LEMMA OnePage ==
    ASSUME TypeInv, Held, UNCHANGED <<row, link>>, RequestsKept, NEW t \in Tabs, NEW c,
           tab' = [tab EXCEPT ![t] = c], Tidy(tab[t], c)
    PROVE  Pages'
<1>1. NextPair' = NextPair /\ NextLink' = NextLink
    BY DEF NextPair, NextLink
<1>2. \A u \in Tabs : tab'[u] = IF u = t THEN c ELSE tab[u]
    BY DEF TypeInv, Clients
<1>3. \A u \in Tabs : /\ tab'[u].booting => tab[u].booting
                      /\ ~(tab'[u].user /\ tab'[u].booting)
    BY <1>2 DEF Tidy, Held, Pages
<1> QED BY <1>1, <1>3, PagesKept

LEMMA SamePages ==
    ASSUME TypeInv, Held, IssuedBefore(NextPair) \subseteq IssuedBefore(NextPair'),
           IssuedBefore(NextLink) \subseteq IssuedBefore(NextLink'), RequestsKept, UNCHANGED tab
    PROVE  Pages'
BY PagesKept DEF Held, Pages

LEMMA UnauthorizedPages ==
    ASSUME TypeInv, Held, UNCHANGED <<row, link>>, NEW t \in Tabs, NEW s \in Slots, Unauthorized(t, s)
    PROVE  Pages'
<1> DEFINE c == Failed(tab[t], req[t][s].kind)
<1>1. tab[t] \in TabType(NextPair) /\ ~(tab[t].user /\ tab[t].booting)
    BY TabIs DEF Held, Pages
<1>2. CASE req' = [req EXCEPT ![t][s].pc = "unauthorized"] /\ UNCHANGED tab
    <2>1. NextPair' = NextPair /\ NextLink' = NextLink
        BY DEF NextPair, NextLink
    <2> QED BY <1>2, <2>1, MovesKept, SamePages
<1>3. CASE Done(t, s) /\ tab' = [tab EXCEPT ![t] = Failed(@, req[t][s].kind)]
    <2>1. tab' = [tab EXCEPT ![t] = c]
        BY <1>3 DEF TypeInv, Clients
    <2>2. Tidy(tab[t], c)
        BY <1>1, TidyTabs
    <2> HIDE DEF c
    <2> QED BY <1>3, <2>1, <2>2, DoneKept, OnePage
<1> QED BY <1>2, <1>3 DEF Unauthorized

LEMMA EndsPages ==
    ASSUME TypeInv, Held, UNCHANGED <<row, link>>, NEW h \in Handlers, job[h].tab \in Tabs,
           job[h].op # "none", NEW status, NEW p \in IssuedBefore(NextPair), Ends(h, status, p)
    PROVE  Pages'
<1> DEFINE t == job[h].tab
           s == job[h].slot
           c == tab[t]
           kind == req[t][s].kind
<1>1. /\ tab \in [Tabs -> TabType(NextPair)] /\ c \in TabType(NextPair) /\ ~(c.user /\ c.booting)
      /\ NoPair \in IssuedBefore(NextPair)
    BY TabIs, NextPairPositive DEF Held, Pages, TypeInv, Clients
<1>2. CASE job[h].op = "refresh"
    <2> DEFINE d == [applyTokens(c, p) EXCEPT !.refreshing = FALSE]
               e == [clearSession(c) EXCEPT !.refreshing = FALSE, !.booting = FALSE]
    <2>1. /\ AfterRefresh(t, p) \/ AfterRefresh(t, NoPair)
          /\ tab' = [tab EXCEPT ![t] = d] \/ tab' = [tab EXCEPT ![t] = e]
        BY <1>1, <1>2 DEF Ends, RefreshEnds
    <2>2. Tidy(c, d) /\ Tidy(c, e)
        BY <1>1, TidyTabs
    <2> HIDE DEF d, e
    <2> QED BY <1>1, <2>1, <2>2, AfterRefreshKept, OnePage
<1>3. CASE job[h].op # "refresh"
    <2> DEFINE d == Succeeded(c, kind, p)
               e == Failed(c, kind)
    <2>1. s \in Slots /\ ServedEnds(t, s, status, p)
        BY <1>3 DEF Ends, TypeInv, Jobs, Job, JobOK
    <2>2. \/ Unauthorized(t, s)
          \/ Done(t, s) /\ (tab' = [tab EXCEPT ![t] = d] \/ tab' = [tab EXCEPT ![t] = e])
        BY <1>1, <2>1 DEF ServedEnds
    <2>3. Tidy(c, d) /\ Tidy(c, e)
        <3>1. Carries(t, s)
            BY <2>1 DEF Held, Pages
        <3> QED BY <1>1, <3>1, TidyTabs DEF Carries
    <2> HIDE DEF d, e
    <2> QED BY <2>1, <2>2, <2>3, UnauthorizedPages, DoneKept, OnePage
<1> QED BY <1>2, <1>3

LEMMA SendPages ==
    ASSUME TypeInv, Held, NEW t \in Tabs, NEW s \in Slots, NEW kind, NEW pwd,
           NEW l \in IssuedBefore(NextLink), kind \in {"register", "login"} => ~tab[t].booting,
           Send(t, s, kind, pwd, l)
    PROVE  Pages'
<1> DEFINE r == [pc |-> "sent", kind |-> kind, used |-> tab[t].access, retried |-> FALSE, pwd |-> pwd,
                 link |-> l]
<1>1. /\ UNCHANGED <<authVars, tab>> /\ req' = [req EXCEPT ![t][s] = r]
      /\ req \in [Tabs -> [Slots -> RequestType]]
    BY DEF Send, TypeInv, Clients
<1>2. NextPair' = NextPair /\ NextLink' = NextLink
    BY <1>1 DEF NextPair, NextLink, authVars, stored
<1>3. \A u \in Tabs, v \in Slots : req'[u][v] = IF u = t /\ v = s THEN r ELSE req[u][v]
    BY <1>1
<1>4. r.kind = kind /\ r.used \in IssuedBefore(NextPair) /\ r.link = l
    <2>1. tab[t].access \in IssuedBefore(NextPair)
        BY TabIs DEF TabType
    <2> QED BY <2>1
<1> HIDE DEF r
<1>5. \A u \in Tabs, v \in Slots : Carries(u, v)'
    <2> TAKE u \in Tabs, v \in Slots
    <2>1. Carries(u, v)
        BY DEF Held, Pages
    <2> QED BY <1>1, <1>2, <1>3, <1>4, <2>1 DEF Carries
<1> QED BY <1>1, <1>5 DEF Held, Pages

\* The steps of the system.
LEMMA PairsGrow ==
    ASSUME TypeInv, [Next]_vars
    PROVE  IssuedBefore(NextPair) \subseteq IssuedBefore(NextPair')
<1>1. NextPair \in Nat
    BY NextPairPositive
<1>2. ASSUME row' = row PROVE NextPair' = NextPair
    BY <1>2 DEF NextPair
<1>3. NextPair' = NextPair \/ NextPair' = NextPair + 1
    <2>1. CASE QuietStep \/ ArrivalStep
        BY <1>2, <2>1 DEF QuietStep, ArrivalStep, Tables0
    <2>2. CASE TokenStep
        <3>1. PICK h \in Handlers :
                 \/ VerifyPassword(h) \/ CreateUser(h) \/ RevokeTokens(h) \/ ConsumeLink(h)
                 \/ UpdatePassword(h) \/ UserServiceTimeout(h) \/ IssueTokensForUser(h) \/ Rotate(h)
            BY <2>2 DEF TokenStep
        <3>2. CASE \/ VerifyPassword(h) \/ CreateUser(h) \/ ConsumeLink(h)
                   \/ UpdatePassword(h) \/ UserServiceTimeout(h)
            BY <1>2, <3>2 DEF VerifyPassword, CreateUser, ConsumeLink, UpdatePassword,
               UserServiceTimeout, stored
        <3>3. CASE RevokeTokens(h)
            <4>1. \A p \in Pairs : row'[p] = "absent" <=> row[p] = "absent"
                BY <3>3, RevokeRows
            <4> QED BY <4>1, SameRows
        <3>4. CASE IssueTokensForUser(h)
            BY <3>4, IssueSteps
        <3>5. CASE Rotate(h)
            <4>1. CASE row[job[h].tok] = "live"
                BY <3>5, <4>1, RotateSteps
            <4>2. CASE row[job[h].tok] # "live"
                <5>1. row' = row
                    BY <3>5, <4>2 DEF Rotate, StillLive
                <5> QED BY <1>2, <5>1
            <4> QED BY <4>1, <4>2
        <3> QED BY <3>1, <3>2, <3>3, <3>4, <3>5
    <2>3. CASE \E p \in Pairs : RefreshTokenExpires(p)
        <3>1. \A p \in Pairs : row'[p] = "absent" <=> row[p] = "absent"
            BY <2>3 DEF RefreshTokenExpires, TypeInv, Tables
        <3> QED BY <3>1, SameRows
    <2> QED BY <2>1, <2>2, <2>3, NextSteps DEF Steps
<1> QED BY <1>1, <1>3 DEF IssuedBefore

LEMMA HandlerHeld ==
    ASSUME TypeInv, Held, NEW h \in Handlers, AnyStep(h), UNCHANGED <<tab, req>>,
           IssuedBefore(NextPair) \subseteq IssuedBefore(NextPair')
    PROVE  Held'
<1>1. LinkTable' /\ AllGiven' /\ IssuedBefore(NextLink) \subseteq IssuedBefore(NextLink')
    <2>1. CASE CreateLink(h)
        BY <2>1, CreateLinkHeld
    <2>2. CASE ~CreateLink(h)
        BY <2>2, HandlerMoves, HandlerLinks, LinksKept
    <2> QED BY <2>1, <2>2
<1> QED BY <1>1, HandlerTokens, NothingSent, SamePages DEF Held

\* The tables are left alone, and so are the handlers or all but their callers.
LEMMA TablesHeld ==
    ASSUME Held, UNCHANGED <<row, link, mailbox>>, \A h \in Handlers : JobMove(job[h], job'[h])
    PROVE  LinkTable' /\ AllGiven' /\ NextLink' = NextLink /\ NextPair' = NextPair
<1>1. NextPair' = NextPair
    BY DEF NextPair
<1>2. link' \in [Links -> {"absent", "live", "used", "deleted"}]
    BY DEF Held, LinkTable
<1> QED BY <1>1, <1>2, LinksKept

LEMMA TokensKept ==
    ASSUME Held, UNCHANGED <<row, expired, blacklist, checking, verified, rotationLock>>
    PROVE  TokenSets'
<1>1. NextPair' = NextPair
    BY DEF NextPair
<1> QED BY <1>1 DEF Held, TokenSets

LEMMA AuthHeld ==
    ASSUME Held, UNCHANGED authVars
    PROVE  LinkTable' /\ AllGiven' /\ TokenSets'
<1>1. UNCHANGED <<row, link, mailbox, job, expired, blacklist, checking, verified, rotationLock>>
    BY DEF authVars, stored, redis, game
<1>2. \A h \in Handlers : JobMove(job[h], job'[h])
    BY <1>1, SameJobsMove
<1> QED BY <1>1, <1>2, TablesHeld, TokensKept

LEMMA FormHeld ==
    ASSUME TypeInv, Held, NEW t \in Tabs, NEW s \in Slots,
           \/ Browse(t, s) \/ SubmitLogin(t, s) \/ SubmitRegister(t, s)
           \/ SubmitForgotPassword(t, s) \/ SubmitResetPassword(t, s) \/ BootProfile(t, s)
    PROVE  Held'
<1>1. UNCHANGED authVars
    BY FormType
<1>2. NoLink \in IssuedBefore(NextLink) /\ mailbox \subseteq IssuedBefore(NextLink)
    BY LinksPositive DEF Held, LinkTable
<1>3. CASE Browse(t, s)
    <2>1. PICK kind \in {"me", "logout"} : Send(t, s, kind, NoPassword, NoLink)
        BY <1>3 DEF Browse
    <2> QED BY <1>1, <1>2, <2>1, AuthHeld, SendPages DEF Held
<1>4. CASE SubmitLogin(t, s)
    <2>1. PICK pwd \in scenario.typed : Send(t, s, "login", pwd, NoLink)
        BY <1>4 DEF SubmitLogin
    <2>2. ~tab[t].booting
        BY <1>4 DEF SubmitLogin
    <2> QED BY <1>1, <1>2, <2>1, <2>2, AuthHeld, SendPages DEF Held
<1>5. CASE SubmitRegister(t, s)
    <2>1. PICK pwd \in scenario.typed : Send(t, s, "register", pwd, NoLink)
        BY <1>5 DEF SubmitRegister
    <2>2. ~tab[t].booting
        BY <1>5 DEF SubmitRegister
    <2> QED BY <1>1, <1>2, <2>1, <2>2, AuthHeld, SendPages DEF Held
<1>6. CASE SubmitForgotPassword(t, s)
    BY <1>1, <1>2, <1>6, AuthHeld, SendPages DEF Held, SubmitForgotPassword
<1>7. CASE SubmitResetPassword(t, s)
    <2>1. PICK pwd \in scenario.typed, l \in mailbox : Send(t, s, "reset", pwd, l)
        BY <1>7 DEF SubmitResetPassword
    <2> QED BY <1>1, <1>2, <2>1, AuthHeld, SendPages DEF Held
<1>8. CASE BootProfile(t, s)
    BY <1>1, <1>2, <1>8, AuthHeld, SendPages DEF Held, BootProfile
<1> QED BY <1>3, <1>4, <1>5, <1>6, <1>7, <1>8

LEMMA ReloadHeld ==
    ASSUME TypeInv, Held, NEW t \in Tabs, Reload(t)
    PROVE  Held'
<1> DEFINE c == [SignedOut EXCEPT !.stored = tab[t].stored, !.booting = tab[t].stored # NoPair]
<1>1. UNCHANGED <<row, link, mailbox, expired, blacklist, checking, verified, rotationLock>>
    BY DEF Reload, stored, redis, game
<1>2. \A h \in Handlers : JobMove(job[h], job'[h])
    <2> TAKE h \in Handlers
    <2> DEFINE k == [job[h] EXCEPT !.tab = NoTab]
    <2>1. job'[h] = job[h] \/ job'[h] = Idle \/ job'[h] = k
        BY DEF Reload
    <2>2. k.op = job[h].op /\ k.tok = job[h].tok /\ k.res = job[h].res /\ k.pc = job[h].pc
        BY DEF TypeInv, Jobs, Job
    <2> HIDE DEF k
    <2>3. CASE job'[h] = k
        BY <2>2, <2>3 DEF JobMove, LinkingJob
    <2> QED BY <2>1, <2>3, SameJobsMove DEF JobMove
<1>3. LinkTable' /\ AllGiven' /\ TokenSets' /\ NextPair' = NextPair /\ NextLink' = NextLink
    BY <1>1, <1>2, TablesHeld, TokensKept
<1>4. /\ \A u \in Tabs : tab'[u] = IF u = t THEN c ELSE tab[u]
      /\ \A u \in Tabs, s \in Slots : req'[u][s] = IF u = t THEN NoRequest ELSE req[u][s]
    BY DEF Reload, TypeInv, Clients
<1>5. ~c.user
    BY DEF SignedOut
<1> HIDE DEF c
<1>6. RequestsKept
    BY <1>4 DEF RequestsKept, RequestKept
<1>7. \A u \in Tabs : /\ tab'[u].booting => tab[u].booting \/ \A s \in Slots : req'[u][s] = NoRequest
                      /\ ~(tab'[u].user /\ tab'[u].booting)
    BY <1>4, <1>5 DEF Held, Pages
<1> QED BY <1>3, <1>6, <1>7, PagesKept DEF Held

LEMMA DuplicateHeld ==
    ASSUME TypeInv, Held, NEW t \in Tabs, NEW u \in Tabs, DuplicateTab(t, u)
    PROVE  Held'
<1> DEFINE c == [tab[u] EXCEPT !.stored = tab[t].stored, !.booting = TRUE]
<1>1. UNCHANGED <<authVars, req>> /\ tab[u] = SignedOut /\ \A s \in Slots : req[u][s] = NoRequest
    BY DEF DuplicateTab, Free
<1>2. \A v \in Tabs : tab'[v] = IF v = u THEN c ELSE tab[v]
    BY DEF DuplicateTab, TypeInv, Clients
<1>3. ~c.user
    BY <1>1 DEF SignedOut
<1> HIDE DEF c
<1>4. \A v \in Tabs : /\ tab'[v].booting => tab[v].booting \/ \A s \in Slots : req'[v][s] = NoRequest
                      /\ ~(tab'[v].user /\ tab'[v].booting)
    BY <1>1, <1>2, <1>3 DEF Held, Pages
<1>5. NextPair' = NextPair /\ NextLink' = NextLink
    BY <1>1 DEF authVars, stored, NextPair, NextLink
<1> QED BY <1>1, <1>4, <1>5, AuthHeld, NothingSent, PagesKept DEF Held

\* A refresh is started.
LEMMA StartHeld ==
    ASSUME TypeInv, Held, UNCHANGED <<row, link, mailbox, expired, redis, game>>, RequestsKept,
           NEW t \in Tabs, NEW h \in Handlers, StartRefresh(t, h),
           tab' = [tab EXCEPT ![t].refreshing = TRUE]
    PROVE  Held'
<1> DEFINE c == [tab[t] EXCEPT !.refreshing = TRUE]
<1>1. LinkTable' /\ AllGiven'
    <2>1. Serve(h, "refresh", t, NoSlot, tab[t].stored, NoPassword)
        BY DEF StartRefresh
    <2> QED BY <2>1, ServeHeld
<1>2. TokenSets'
    BY TokensKept DEF redis, game
<1>3. tab' = [tab EXCEPT ![t] = c]
    OBVIOUS
<1>4. Tidy(tab[t], c)
    BY TabIs, TidyTabs DEF Held, Pages
<1> HIDE DEF c
<1> QED BY <1>1, <1>2, <1>3, <1>4, OnePage DEF Held

LEMMA Refresh401Held ==
    ASSUME TypeInv, Held, NEW t \in Tabs, NEW s \in Slots, RefreshAfter401(t, s)
    PROVE  Held'
<1>1. UNCHANGED <<row, link, mailbox, expired, redis, game>>
    BY DEF RefreshAfter401, stored
<1>2. TokenSets'
    BY <1>1, TokensKept DEF redis, game
<1>3. ASSUME job' = job PROVE LinkTable' /\ AllGiven' /\ NextPair' = NextPair /\ NextLink' = NextLink
    BY <1>1, <1>3, SameJobsMove, TablesHeld
<1>4. CASE req' = [req EXCEPT ![t][s].pc = "joined"] /\ UNCHANGED <<tab, job, overlap>>
    BY <1>2, <1>3, <1>4, MovesKept, SamePages DEF Held
<1>5. CASE /\ tab' = [tab EXCEPT ![t] = Failed(clearSession(@), req[t][s].kind)]
           /\ Done(t, s) /\ UNCHANGED <<job, overlap>>
    <2> DEFINE c == Failed(clearSession(tab[t]), req[t][s].kind)
    <2>1. tab' = [tab EXCEPT ![t] = c]
        BY <1>5 DEF TypeInv, Clients
    <2>2. Tidy(tab[t], c)
        BY TabIs, TidyTabs DEF Held, Pages
    <2> HIDE DEF c
    <2> QED BY <1>1, <1>2, <1>3, <1>5, <2>1, <2>2, DoneKept, OnePage DEF Held
<1>6. CASE /\ \E h \in Handlers : StartRefresh(t, h)
           /\ tab' = [tab EXCEPT ![t].refreshing = TRUE]
           /\ req' = [req EXCEPT ![t][s].pc = "joined"]
    BY <1>1, <1>6, MovesKept, StartHeld
<1> QED BY <1>4, <1>5, <1>6 DEF RefreshAfter401

LEMMA DispatchHeld ==
    ASSUME TypeInv, Held, NEW t \in Tabs, NEW s \in Slots, Dispatch(t, s)
    PROVE  Held'
<1> DEFINE r == req[t][s]
<1>1. Carries(t, s) /\ tab[t] \in TabType(NextPair) /\ ~(tab[t].user /\ tab[t].booting)
    BY TabIs DEF Held, Pages
<1>2. CASE Unauthorized(t, s) /\ UNCHANGED authVars
    BY <1>2, AuthHeld, UnauthorizedPages DEF Held, authVars, stored
<1>3. CASE Done(t, s) /\ tab' = [tab EXCEPT ![t] = Succeeded(@, r.kind, NoPair)] /\ UNCHANGED authVars
    <2> DEFINE c == Succeeded(tab[t], r.kind, NoPair)
    <2>1. tab' = [tab EXCEPT ![t] = c]
        BY <1>3 DEF TypeInv, Clients
    <2>2. Tidy(tab[t], c)
        BY <1>1, TidyTabs DEF Carries
    <2> HIDE DEF c
    <2>3. UNCHANGED <<row, link>>
        BY <1>3 DEF authVars, stored
    <2> QED BY <1>3, <2>1, <2>2, <2>3, AuthHeld, DoneKept, OnePage DEF Held
<1>4. CASE /\ r.kind \in Protected => VerifySession(r.used)
           /\ \E h \in Handlers : AuthController(h, t, s) \/ PasswordRoutes(h, t, s)
           /\ req' = [req EXCEPT ![t][s].pc = "serving"]
           /\ UNCHANGED <<stored, redis, expired, mailbox, game, origin, signedWith, tab>>
    <2>1. UNCHANGED <<row, link, mailbox, expired, blacklist, checking, verified, rotationLock>>
        BY <1>4 DEF stored, redis, game
    <2>2. PICK h \in Handlers : AuthController(h, t, s) \/ PasswordRoutes(h, t, s)
        BY <1>4
    <2>3. LinkTable' /\ AllGiven'
        <3>1. CASE AuthController(h, t, s)
            <4>1. r.kind \in {"register", "login", "logout"} /\ Serve(h, r.kind, t, s, r.used, r.pwd)
                BY <3>1 DEF AuthController
            <4>2. r.used \in IssuedBefore(NextPair)
                BY <1>1 DEF Carries
            <4>3. r.kind = "logout" => r.used # NoPair
                BY <1>4 DEF Protected, VerifySession
            <4>4. r.kind \in Served
                BY <4>1 DEF Served, Forms
            <4> QED BY <2>1, <4>1, <4>2, <4>3, <4>4, ServeHeld
        <3>2. CASE Serve(h, "forgot", t, s, NoPair, NoPassword)
            <4>1. NoPair \in IssuedBefore(NextLink) /\ "forgot" \in Served
                BY LinksPositive DEF NoPair, NoLink, Served, Forms
            <4> QED BY <2>1, <3>2, <4>1, ServeHeld
        <3>3. CASE Serve(h, "reset", t, s, r.link, r.pwd)
            <4>1. r.link \in IssuedBefore(NextLink) /\ "reset" \in Served
                BY <1>1 DEF Carries, Served, Forms
            <4> QED BY <2>1, <3>3, <4>1, ServeHeld
        <3> QED BY <2>2, <3>1, <3>2, <3>3 DEF PasswordRoutes
    <2>4. TokenSets'
        BY <2>1, TokensKept
    <2>5. Pages'
        <3>1. NextPair' = NextPair /\ NextLink' = NextLink
            BY <2>1 DEF NextPair, NextLink
        <3> QED BY <1>4, <3>1, MovesKept, SamePages
    <2> QED BY <2>3, <2>4, <2>5 DEF Held
<1> QED BY <1>2, <1>3, <1>4 DEF Dispatch

LEMMA ReceiveHeld ==
    ASSUME TypeInv, Held, NEW h \in Handlers, Receive(h) \/ Timeout(h)
    PROVE  Held'
<1>1. JobOK(job[h], NextPair) /\ job[h] \in Job /\ job \in [Handlers -> Job]
    BY DEF TypeInv, Jobs
<1>2. job[h].tab \in Tabs /\ job[h].op # "none"
    BY <1>1 DEF Receive, Timeout, JobOK, Job, StepsOf
<1>3. job[h].out \in IssuedBefore(NextPair) /\ NoPair \in IssuedBefore(NextPair)
    BY <1>1, NextPairPositive DEF JobOK
<1>4. UNCHANGED <<row, link, mailbox, expired, blacklist, checking, verified, rotationLock>>
    BY DEF Receive, Timeout, stored, redis, game
<1>5. Pages'
    BY <1>2, <1>3, <1>4, EndsPages DEF Receive, Timeout
<1>6. \A g \in Handlers : JobMove(job[g], job'[g])
    <2> DEFINE k == [job[h] EXCEPT !.tab = NoTab]
    <2>1. /\ \A g \in Handlers : g # h => job'[g] = job[g]
          /\ job'[h] = Idle \/ job'[h] = k
        BY <1>1 DEF Receive, Timeout
    <2>2. k.op = job[h].op /\ k.tok = job[h].tok /\ k.res = job[h].res /\ k.pc = job[h].pc
        BY <1>1 DEF Job
    <2> HIDE DEF k
    <2>3. JobMove(job[h], job'[h])
        BY <2>1, <2>2 DEF JobMove, LinkingJob
    <2> QED BY <2>1, <2>3, SameJobsMove
<1> QED BY <1>4, <1>5, <1>6, TablesHeld, TokensKept DEF Held

\* The tokens of one pair get old or are cached.
LEMMA TokenHeld ==
    ASSUME TypeInv, Held, NEW p \in IssuedBefore(NextPair) \ {NoPair},
           UNCHANGED <<link, mailbox, job, tab, req, blacklist>>, NextPair' = NextPair,
           expired' \subseteq expired \cup {p}, checking' \subseteq checking \cup {p},
           verified' \subseteq verified \cup checking, rotationLock' \subseteq rotationLock
    PROVE  Held'
<1>1. \A h \in Handlers : JobMove(job[h], job'[h])
    BY SameJobsMove
<1>2. link' \in [Links -> {"absent", "live", "used", "deleted"}]
    BY DEF Held, LinkTable
<1>3. LinkTable' /\ AllGiven' /\ NextLink' = NextLink
    BY <1>1, <1>2, LinksKept
<1>4. TokenSets'
    BY DEF Held, TokenSets
<1>5. Pages'
    BY <1>3, NothingSent, SamePages
<1> QED BY <1>3, <1>4, <1>5 DEF Held

LEMMA HeldSteps ==
    ASSUME TypeInv, Held, [Next]_vars
    PROVE  Held'
<1>1. IssuedBefore(NextPair) \subseteq IssuedBefore(NextPair')
    BY PairsGrow
<1>2. CASE UNCHANGED vars
    <2>1. UNCHANGED authVars /\ UNCHANGED <<tab, req>>
        BY <1>2 DEF vars, clientVars
    <2>2. UNCHANGED <<row, link>>
        BY <2>1 DEF authVars, stored
    <2>3. NextPair' = NextPair /\ NextLink' = NextLink
        BY <2>2 DEF NextPair, NextLink
    <2> QED BY <2>1, <2>3, AuthHeld, NothingSent, SamePages DEF Held
<1>3. ASSUME NEW t \in Tabs, NEW s \in Slots,
             \/ Browse(t, s) \/ SubmitLogin(t, s) \/ SubmitRegister(t, s)
             \/ SubmitForgotPassword(t, s) \/ SubmitResetPassword(t, s) \/ BootProfile(t, s)
      PROVE  Held'
    BY <1>3, FormHeld
<1>4. ASSUME NEW t \in Tabs, NEW s \in Slots, Dispatch(t, s) \/ RefreshAfter401(t, s) PROVE Held'
    BY <1>4, DispatchHeld, Refresh401Held
<1>5. ASSUME NEW t \in Tabs, Reload(t) PROVE Held'
    BY <1>5, ReloadHeld
<1>6. ASSUME NEW t \in Tabs, OpenSocket(t) \/ TokenExpires(t) PROVE Held'
    <2>1. tab[t].access \in IssuedBefore(NextPair) \ {NoPair}
        BY <1>6, TabIs DEF OpenSocket, TokenExpires, TabType
    <2>2. /\ UNCHANGED <<row, link, mailbox, job, tab, req, blacklist, rotationLock, verified>>
          /\ expired' \subseteq expired \cup {tab[t].access}
          /\ checking' \subseteq checking \cup {tab[t].access}
        BY <1>6 DEF OpenSocket, TokenExpires, VerifyToken, AccessTokenExpires, clientVars, stored,
           redis, game
    <2>3. NextPair' = NextPair
        BY <2>2 DEF NextPair
    <2> QED BY <2>1, <2>2, <2>3, TokenHeld
<1>7. ASSUME NEW t \in Tabs, NEW u \in Tabs, DuplicateTab(t, u) PROVE Held'
    BY <1>7, DuplicateHeld
<1>8. ASSUME NEW t \in Tabs, NEW h \in Handlers, BootRefresh(t, h) PROVE Held'
    BY <1>8, NothingSent, StartHeld DEF BootRefresh, stored
<1>9. ASSUME NEW h \in Handlers, Receive(h) \/ Timeout(h) PROVE Held'
    BY <1>9, ReceiveHeld
<1>10. ASSUME NEW h \in Handlers, AnyStep(h), UNCHANGED <<tab, req>> PROVE Held'
    BY <1>1, <1>10, HandlerHeld
<1>11. ASSUME NEW p \in Pairs, CacheVerified(p) \/ EntryExpires(p), UNCHANGED clientVars PROVE Held'
    <2>1. p \in checking \cup verified
        BY <1>11 DEF CacheVerified, EntryExpires
    <2>2. p \in IssuedBefore(NextPair) \ {NoPair}
        BY <2>1 DEF Held, TokenSets
    <2>3. /\ UNCHANGED <<row, link, mailbox, job, tab, req, blacklist, rotationLock, expired>>
          /\ checking' \subseteq checking /\ verified' \subseteq verified \cup checking
        BY <1>11 DEF CacheVerified, EntryExpires, clientVars, stored, redis
    <2>4. NextPair' = NextPair
        BY <2>3 DEF NextPair
    <2> QED BY <2>2, <2>3, <2>4, TokenHeld
<1>12. CASE Fault
    <2>1. UNCHANGED <<tab, req>>
        BY <1>12 DEF Fault
    <2>2. CASE \E h \in Handlers : CommandFails(h) \/ UserServiceTimeout(h) \/ HandlerDies(h)
        BY <1>10, <2>1, <2>2 DEF AnyStep
    <2>3. CASE \E p \in Pairs : RotationExpires(p) \/ RefreshTokenExpires(p)
        <3>1. PICK p \in Pairs : RotationExpires(p) \/ RefreshTokenExpires(p)
            BY <2>3
        <3>2. /\ UNCHANGED <<link, mailbox, job, blacklist, expired, checking, verified>>
              /\ rotationLock' \subseteq rotationLock
            BY <3>1 DEF RotationExpires, RefreshTokenExpires, stored, redis, game
        <3>3. NextPair' = NextPair
            <4>1. \A q \in Pairs : row'[q] = "absent" <=> row[q] = "absent"
                BY <3>1 DEF RotationExpires, RefreshTokenExpires, stored, TypeInv, Tables
            <4> QED BY <4>1, SameRows
        <3>4. LinkTable' /\ AllGiven' /\ NextLink' = NextLink
            <4>1. \A h \in Handlers : JobMove(job[h], job'[h])
                BY <3>2, SameJobsMove
            <4>2. link' \in [Links -> {"absent", "live", "used", "deleted"}]
                BY <3>2 DEF Held, LinkTable
            <4> QED BY <1>1, <3>2, <4>1, <4>2, LinksKept
        <3>5. TokenSets'
            BY <3>2, <3>3 DEF Held, TokenSets
        <3>6. Pages'
            BY <2>1, <3>3, <3>4, NothingSent, SamePages
        <3> QED BY <3>4, <3>5, <3>6 DEF Held
    <2> QED BY <1>12, <2>2, <2>3 DEF Fault
<1>13. ASSUME NEW h \in Handlers, HandlerStep(h), UNCHANGED clientVars PROVE Held'
    BY <1>10, <1>13 DEF clientVars, AnyStep
<1> QED BY <1>2, <1>3, <1>4, <1>5, <1>6, <1>7, <1>8, <1>9, <1>11, <1>12, <1>13 DEF Next

LEMMA InitHeld == Init => Held
<1> SUFFICES ASSUME Init PROVE Held
    OBVIOUS
<1>1. /\ link = [l \in Links |-> "absent"] /\ mailbox = {} /\ job = [h \in Handlers |-> Idle]
      /\ expired = {} /\ blacklist = {} /\ checking = {} /\ verified = {} /\ rotationLock = {}
    BY DEF Init, AuthInit
<1>2. NextLink = 1
    <2>1. {l \in Links : link[l] # "absent"} = {}
        BY <1>1
    <2> QED BY <2>1, FS_EmptySet DEF NextLink
<1>3. LinkTable
    <2>1. Linkers = {}
        BY <1>1 DEF Linkers, LinkingJob, Idle
    <2>2. Cardinality(Linkers) = 0
        BY <2>1, FS_EmptySet
    <2> QED BY <1>1, <1>2, <2>2, AccountAssumption DEF LinkTable, Links
<1>4. 0 \in IssuedBefore(NextPair) /\ 0 \in IssuedBefore(NextLink)
    BY <1>2, InitType, NextPairPositive DEF IssuedBefore, NoPair
<1>5. AllGiven
    BY <1>1 DEF AllGiven, Given, Idle, Statuses
<1>6. TokenSets
    BY <1>1 DEF TokenSets
<1>7. Pages
    <2>1. \A t \in Tabs, s \in Slots : req[t][s] = NoRequest /\ tab[t] = SignedOut
        BY DEF Init
    <2>2. \A t \in Tabs : tab[t] = SignedOut
        BY DEF Init
    <2> QED BY <1>4, <2>1, <2>2 DEF Pages, Carries, NoRequest, SignedOut, NoPair, NoLink
<1> QED BY <1>3, <1>5, <1>6, <1>7 DEF Held

\* The tables, the keys, the calls and the tabs keep their types, for any number of tabs
\* and handlers and whatever fails: all tokens and links that are kept, sent, revoked or
\* cached anywhere are ones that were issued, and a page that shows a user has ended its
\* bootstrap.
THEOREM AccountsTypeCorrect == Spec => []TypeOK
<1>1. Init => TypeInv /\ Held
    BY InitType, InitHeld
<1>2. TypeInv /\ Held /\ [Next]_vars => (TypeInv /\ Held)'
    BY NextSteps, HeldSteps
<1>3. TypeInv /\ Held => TypeOK
    <2> SUFFICES ASSUME TypeInv, Held PROVE TypeOK
        OBVIOUS
    <2>1. /\ NextPair \in 1..(MaxPairs + 1) /\ NextLink \in 1..(MaxLinks + 1)
          /\ MaxPairs \in Nat /\ MaxLinks \in Nat
        BY AccountAssumption DEF TypeInv, RowsInOrder, Held, LinkTable
    <2>2. /\ IssuedBefore(NextPair) \ {NoPair} = 1..(NextPair - 1)
          /\ IssuedBefore(NextPair) \subseteq Pairs \cup {NoPair}
          /\ IssuedBefore(NextLink) \subseteq Links \cup {NoLink}
        BY <2>1 DEF IssuedBefore, Pairs, Links, NoPair, NoLink
    <2>3. mailbox \subseteq Links
        BY <2>2 DEF Held, LinkTable
    <2>4. job \in [Handlers -> JobType]
        <3>1. job \in [Handlers -> Job]
            BY DEF TypeInv, Jobs
        <3>2. ASSUME NEW h \in Handlers PROVE job[h] \in JobType
            <4>1. job[h] \in Job /\ JobOK(job[h], NextPair) /\ Given(job[h], NextPair, NextLink)
                BY DEF TypeInv, Jobs, Held, AllGiven
            <4>2. job[h].op \in {"none", "register", "login", "refresh", "logout", "forgot", "reset"}
                BY <4>1 DEF JobOK, StepsOf
            <4>3. job[h].tok \in Pairs \cup Links \cup {NoPair}
                BY <2>2, <4>1, <4>2 DEF JobOK, Given, NoPair, NoLink
            <4>4. job[h].out \in Pairs \cup {NoPair} /\ job[h].res \in {0, 200, 401, 409, 503}
                BY <2>2, <4>1 DEF JobOK, Given, Statuses
            <4> QED BY <4>1, <4>3, <4>4 DEF Job, JobType
        <3> QED BY <3>1, <3>2
    <2>5. tab \in [Tabs -> TabType(NextPair)] /\ \A t \in Tabs : ~(tab[t].user /\ tab[t].booting)
        BY DEF TypeInv, Clients, Held, Pages
    <2>6. expired \cup blacklist \cup checking \cup verified \subseteq 1..(NextPair - 1)
        BY <2>2 DEF Held, TokenSets
    <2>7. rotationLock \subseteq Pairs /\ link \in [Links -> {"absent", "live", "used", "deleted"}]
        BY DEF Held, TokenSets, LinkTable
    <2> QED BY <2>3, <2>4, <2>5, <2>6, <2>7 DEF TypeOK, TypeInv, Tables, TabType, IssuedBefore
<1> QED BY <1>1, <1>2, <1>3, PTL DEF Spec
=============================================================================
