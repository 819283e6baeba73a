----------------------------- MODULE LadderProofs -----------------------------
(***************************************************************************)
(* Proofs about the ladder of module Ladder, for any number of players,    *)
(* matches, seasons and workers and whatever the expected score is: a      *)
(* match counts once for each of its players, a season is archived once,   *)
(* at most one season is active, and a standing is marked rewarded only    *)
(* after its mail.  None rests on the lock of a reset or on BullMQ         *)
(* delivering a job once: the unique keys the writes meet suffice.         *)
(***************************************************************************)
EXTENDS Ladder, FiniteSetTheorems, SequenceTheorems, WellFoundedInduction, TLAPS

(* What the proofs need to know of the state.  The ratings are left open. *)

Fields == {"pc", "job", "owner", "season", "read", "next", "batch", "size", "ok"}
LockSteps == {"close", "lock", "count", "snapshot", "archive", "countActive", "activate", "mails",
              "enqueue", "mark", "release"}

\* The steps of a worker that name a match, a job of the season queue and a season; the
\* reward mails are for a season of A, those that have been archived.
WorkerOK(k, A) ==
    /\ DOMAIN k = Fields
    /\ k.pc \in {"persist", "commit"} => k.job[2] \in Matches
    /\ k.pc = "resolve" => k.job[2] \in Seasons \cup {NoSeason}
    /\ k.pc \in LockSteps => k.season \in Seasons
    /\ k.pc \in {"enqueue", "mark"} => k.season \in A

ArchivedSeasons == {s \in Seasons : Archived(s)}

WorkersOK == DOMAIN work = Workers /\ \A w \in Workers : WorkerOK(work[w], ArchivedSeasons)

StandingFields == {"finalRating", "rank", "league", "rewarded"}
StandingsOK ==
    /\ DOMAIN standing = Seasons
    /\ \A s \in Seasons : Archived(s) =>
          DOMAIN standing[s] = Players /\ \A p \in Players : DOMAIN standing[s][p] = StandingFields

Persisted == {m \in Matches : matchRow[m] # Empty}
RatingsOK ==
    /\ DOMAIN elo = Players /\ \A p \in Players : elo[p].games \in Nat
    /\ DOMAIN matchRow = Matches /\ IsFiniteSet(Persisted)
    /\ era \in Nat /\ \A m \in Persisted : matchRow[m].era \in 0..era
    /\ {"elo", "outcomes"} \subseteq DOMAIN scenario
    /\ \A p \in Players : scenario.elo[p].games \in Nat
    /\ scenario.outcomes \subseteq {"A", "B", "DRAW"}

Inv == WorkersOK /\ StandingsOK /\ RatingsOK /\ CountedOnce

-----------------------------------------------------------------------------
(* The steps of the workers. *)

LEMMA IdleOK == ASSUME NEW A PROVE WorkerOK(Idle, A)
BY DEF WorkerOK, Idle, Fields, LockSteps

LEMMA Monotone == ASSUME NEW k, NEW A, NEW B, A \subseteq B, WorkerOK(k, A) PROVE WorkerOK(k, B)
BY DEF WorkerOK

\* A worker goes on to another step with the same job and season.
LEMMA Moves ==
    ASSUME WorkersOK, NEW w \in Workers, NEW pc,
           pc \in LockSteps => work[w].season \in Seasons,
           pc \notin {"persist", "commit", "resolve", "enqueue", "mark"}
    PROVE  WorkerOK([work[w] EXCEPT !.pc = pc], ArchivedSeasons)
<1> DEFINE j == work[w]
           k == [j EXCEPT !.pc = pc]
<1>1. DOMAIN j = Fields
    BY DEF WorkersOK, WorkerOK
<1>2. DOMAIN k = Fields /\ k.pc = pc /\ k.job = j.job /\ k.season = j.season
    BY <1>1 DEF Fields
<1> HIDE DEF k
<1>3. WorkerOK(k, ArchivedSeasons)
    BY <1>2 DEF WorkerOK
<1> QED BY <1>3 DEF k

Becomes(w, k) == work' = [work EXCEPT ![w] = k] /\ WorkerOK(k, ArchivedSeasons)

LEMMA GotoMoves ==
    ASSUME WorkersOK, NEW w \in Workers, NEW pc, Goto(w, pc),
           pc \in LockSteps => work[w].season \in Seasons,
           pc \notin {"persist", "commit", "resolve", "enqueue", "mark"}
    PROVE  \E k : Becomes(w, k)
<1>1. work' = [work EXCEPT ![w] = [work[w] EXCEPT !.pc = pc]]
    BY DEF Goto
<1> QED BY <1>1, Moves DEF Becomes

LEMMA ThrowMoves ==
    ASSUME WorkersOK, NEW w \in Workers, ThrowLocked(w), work[w].season \in Seasons
    PROVE  \E k : Becomes(w, k)
<1> DEFINE j == work[w]
           k == [j EXCEPT !.pc = "release", !.ok = FALSE]
<1>1. DOMAIN j = Fields
    BY DEF WorkersOK, WorkerOK
<1>2. DOMAIN k = Fields /\ k.pc = "release" /\ k.job = j.job /\ k.season = j.season
    BY <1>1 DEF Fields
<1>3. work' = [work EXCEPT ![w] = k]
    BY DEF ThrowLocked, WorkersOK
<1> HIDE DEF k
<1>4. WorkerOK(k, ArchivedSeasons)
    BY <1>2 DEF WorkerOK
<1> QED BY <1>3, <1>4 DEF Becomes

LEMMA SettleMoves ==
    ASSUME NEW w \in Workers, NEW outcome, Settle(w, outcome)
    PROVE  \E k : Becomes(w, k)
BY IdleOK DEF Settle, Becomes

\* The jobs of the queues.
LEMMA JobNames ==
    ASSUME NEW j \in JobIds
    PROVE  \/ j[1] = "match-ended" /\ j[2] \in Matches
           \/ j[1] = "season-reset" /\ j[2] \in Seasons \cup {NoSeason}
BY DEF JobIds, MatchJob, ResetJob, CronJob

LEMMA TakeMoves ==
    ASSUME NEW w \in Workers, NEW j \in JobIds, createWorker(w, j)
    PROVE  \E k : Becomes(w, k)
<1> DEFINE pc == IF j[1] = "match-ended" THEN "persist" ELSE "resolve"
           k == [Idle EXCEPT !.pc = pc, !.job = j, !.owner = TRUE]
<1>1. work' = [work EXCEPT ![w] = k]
    BY DEF createWorker
<1>2. \/ pc = "persist" /\ j[2] \in Matches
      \/ pc = "resolve" /\ j[2] \in Seasons \cup {NoSeason}
    BY JobNames
<1> HIDE DEF pc
<1>3. DOMAIN k = Fields /\ k.pc = pc /\ k.job = j
    BY DEF Idle, Fields
<1> HIDE DEF k
<1>4. WorkerOK(k, ArchivedSeasons)
    BY <1>2, <1>3 DEF WorkerOK, LockSteps
<1> QED BY <1>1, <1>4 DEF Becomes

\* A worker keeps its job and goes on with a season.
LEMMA Continues ==
    ASSUME NEW w, NEW k, NEW pc, NEW s, work' = [work EXCEPT ![w] = k], DOMAIN k = Fields, k.pc = pc,
           k.season = s, pc \in LockSteps \cup {"invalidate"}, s \in Seasons \/ pc = "invalidate",
           pc \in {"enqueue", "mark"} => s \in ArchivedSeasons
    PROVE  \E l : Becomes(w, l)
<1>1. WorkerOK(k, ArchivedSeasons)
    BY DEF WorkerOK, LockSteps
<1> QED BY <1>1 DEF Becomes

LEMMA ResolveMoves ==
    ASSUME WorkersOK, NEW w \in Workers, resolveSeason(w)
    PROVE  \E k : Becomes(w, k)
<1> DEFINE j == work[w]
           s == j.job[2]
<1>1. DOMAIN j = Fields /\ s \in Seasons \cup {NoSeason} /\ DOMAIN work = Workers
    BY DEF WorkersOK, WorkerOK, resolveSeason, At
<1>2. ASSUME NEW x \in Seasons, NEW pc \in {"lock", "close"},
             work' = [work EXCEPT ![w].pc = pc, ![w].season = x]
      PROVE  \E k : Becomes(w, k)
    <2> DEFINE k == [j EXCEPT !.pc = pc, !.season = x]
    <2>1. work' = [work EXCEPT ![w] = k]
        BY <1>1, <1>2
    <2>2. DOMAIN k = Fields /\ k.pc = pc /\ k.season = x
        BY <1>1 DEF Fields
    <2> HIDE DEF k
    <2> QED BY <2>1, <2>2, Continues DEF LockSteps
<1>3. \/ \E x \in Seasons : work' = [work EXCEPT ![w].pc = "lock", ![w].season = x]
      \/ \E x \in Seasons : work' = [work EXCEPT ![w].pc = "close", ![w].season = x]
      \/ work' = [work EXCEPT ![w] = Idle]
    <2>1. CASE s # NoSeason
        <3>1. s \in Seasons
            BY <1>1, <2>1
        <3> QED BY <2>1, <3>1 DEF resolveSeason
    <2>2. CASE s = NoSeason /\ pendingResets # {}
        BY <2>2 DEF resolveSeason
    <2>3. CASE s = NoSeason /\ pendingResets = {} /\ expiredActive # {}
        <3>1. expiredActive \subseteq Seasons
            BY DEF expiredActive
        <3>2. \E x \in expiredActive : work' = [work EXCEPT ![w].pc = "close", ![w].season = x]
            BY <2>3 DEF resolveSeason
        <3> QED BY <3>1, <3>2
    <2>4. CASE s = NoSeason /\ pendingResets = {} /\ expiredActive = {}
        BY <2>4 DEF resolveSeason, Settle
    <2> QED BY <2>1, <2>2, <2>3, <2>4
<1> QED BY <1>2, <1>3, IdleOK DEF Becomes

LEMMA PersistMoves ==
    ASSUME WorkersOK, NEW w \in Workers, PersistRead(w) \/ PersistCommit(w)
    PROVE  \E k : Becomes(w, k)
<1> DEFINE j == work[w]
<1>1. DOMAIN j = Fields /\ j.job[2] \in Matches /\ DOMAIN work = Workers
    BY DEF WorkersOK, WorkerOK, PersistRead, PersistCommit, At
<1>2. CASE Goto(w, "invalidate")
    BY <1>2, GotoMoves DEF LockSteps
<1>3. CASE work' = [work EXCEPT ![w].pc = "commit", ![w].read = elo]
    <2> DEFINE k == [j EXCEPT !.pc = "commit", !.read = elo]
    <2>1. work' = [work EXCEPT ![w] = k]
        BY <1>1, <1>3
    <2>2. DOMAIN k = Fields /\ k.pc = "commit" /\ k.job = j.job
        BY <1>1 DEF Fields
    <2> HIDE DEF k
    <2>3. WorkerOK(k, ArchivedSeasons)
        BY <1>1, <2>2 DEF WorkerOK, LockSteps
    <2> QED BY <2>1, <2>3 DEF Becomes
<1>4. CASE work' = [work EXCEPT ![w].pc = "invalidate", ![w].read = Empty]
    <2> DEFINE k == [j EXCEPT !.pc = "invalidate", !.read = Empty]
    <2>1. work' = [work EXCEPT ![w] = k]
        BY <1>1, <1>4
    <2>2. DOMAIN k = Fields /\ k.pc = "invalidate"
        BY <1>1 DEF Fields
    <2> HIDE DEF k
    <2> QED BY <2>1, <2>2, Continues
<1> QED BY <1>2, <1>3, <1>4 DEF PersistRead, PersistCommit

\* The steps of a reset.
ResetStep(w) ==
    \/ CloseExpired(w) \/ acquire(w) \/ CountStandings(w) \/ ReadRatings(w)
    \/ archiveStandingsAndSoftReset(w) \/ CountActive(w) \/ activateNextSeasonIfNeeded(w)
    \/ FetchBatch(w) \/ enqueueSeasonRewardMail(w) \/ MarkRewarded(w) \/ release(w)

LEMMA ResetMoves ==
    ASSUME WorkersOK, NEW w \in Workers, ResetStep(w)
    PROVE  \E k : Becomes(w, k)
<1> DEFINE j == work[w]
           s == j.season
<1>1. /\ DOMAIN j = Fields /\ DOMAIN work = Workers
      /\ j.pc \in {"enqueue", "mark"} => s \in ArchivedSeasons
    BY DEF WorkersOK, WorkerOK
<1>2. j.pc \in LockSteps /\ s \in Seasons
    BY DEF WorkersOK, WorkerOK, LockSteps, ResetStep, CloseExpired, acquire, CountStandings,
       ReadRatings, archiveStandingsAndSoftReset, CountActive, activateNextSeasonIfNeeded,
       FetchBatch, enqueueSeasonRewardMail, MarkRewarded, release, At
<1>3. ASSUME NEW pc, Goto(w, pc), pc \in {"lock", "count", "countActive", "snapshot", "mails", "invalidate"}
      PROVE  \E k : Becomes(w, k)
    BY <1>2, <1>3, GotoMoves DEF LockSteps
<1>4. ASSUME NEW pc \in LockSteps \ {"enqueue", "mark"}, NEW x,
             work' = [work EXCEPT ![w].pc = pc, ![w].read = x]
      PROVE  \E k : Becomes(w, k)
    <2> DEFINE k == [j EXCEPT !.pc = pc, !.read = x]
    <2>1. work' = [work EXCEPT ![w] = k]
        BY <1>1, <1>4
    <2>2. DOMAIN k = Fields /\ k.pc = pc /\ k.season = s
        BY <1>1 DEF Fields
    <2> HIDE DEF k
    <2> QED BY <1>2, <2>1, <2>2, Continues
<1>5. CASE CloseExpired(w) \/ acquire(w) \/ CountStandings(w)
    BY <1>3, <1>5, SettleMoves DEF CloseExpired, acquire, CountStandings
<1>6. CASE ReadRatings(w)
    BY <1>4, <1>6 DEF ReadRatings, LockSteps
<1>7. CASE archiveStandingsAndSoftReset(w)
    <2>1. ThrowLocked(w) \/ work' = [work EXCEPT ![w].pc = "countActive", ![w].read = Empty]
        BY <1>7 DEF archiveStandingsAndSoftReset
    <2> QED BY <1>2, <1>4, <2>1, ThrowMoves DEF LockSteps
<1>8. CASE CountActive(w)
    <2> DEFINE x == CHOOSE t \in Upcoming : \A u \in Upcoming : t <= u
               k == [j EXCEPT !.pc = "activate", !.next = x]
    <2>1. Goto(w, "mails") \/ work' = [work EXCEPT ![w].pc = "activate", ![w].next = x]
        BY <1>8 DEF CountActive
    <2> HIDE DEF x
    <2>2. DOMAIN k = Fields /\ k.pc = "activate" /\ k.season = s
        BY <1>1 DEF Fields
    <2>3. Goto(w, "mails") \/ work' = [work EXCEPT ![w] = k]
        BY <1>1, <2>1
    <2> HIDE DEF k
    <2> QED BY <1>2, <1>3, <2>2, <2>3, Continues DEF LockSteps
<1>9. CASE activateNextSeasonIfNeeded(w)
    BY <1>2, <1>3, <1>9, ThrowMoves DEF activateNextSeasonIfNeeded
<1>10. CASE FetchBatch(w)
    <2>1. PICK batch \in SUBSET Undistributed(s) :
            work' = [work EXCEPT ![w].pc = IF batch = {} THEN "release" ELSE "enqueue",
                                 ![w].batch = batch, ![w].size = Cardinality(batch)]
        BY <1>10 DEF FetchBatch
    <2> DEFINE size == Cardinality(batch)
               pc == IF batch = {} THEN "release" ELSE "enqueue"
               k == [j EXCEPT !.pc = pc, !.batch = batch, !.size = size]
    <2>2. pc \in {"release", "enqueue"} /\ (pc = "enqueue" => s \in ArchivedSeasons)
        BY <1>2 DEF Undistributed, ArchivedSeasons
    <2>3. work' = [work EXCEPT ![w] = k]
        BY <1>1, <2>1
    <2> HIDE DEF pc, size
    <2>4. DOMAIN k = Fields /\ k.pc = pc /\ k.season = s
        BY <1>1 DEF Fields
    <2> HIDE DEF k
    <2> QED BY <1>2, <2>2, <2>3, <2>4, Continues DEF LockSteps
<1>11. CASE enqueueSeasonRewardMail(w)
    <2> DEFINE k == [j EXCEPT !.pc = "mark"]
    <2>1. work' = [work EXCEPT ![w] = k] /\ j.pc = "enqueue"
        BY <1>11 DEF enqueueSeasonRewardMail, Goto, At
    <2>2. DOMAIN k = Fields /\ k.pc = "mark" /\ k.season = s
        BY <1>1 DEF Fields
    <2> HIDE DEF k
    <2> QED BY <1>1, <1>2, <2>1, <2>2, Continues DEF LockSteps
<1>12. CASE MarkRewarded(w)
    <2> DEFINE rest == j.batch \ {Current(w)}
               full == j.size = MAIL_BATCH_SIZE
               pc == CASE rest # {} -> "enqueue"
                       [] rest = {} /\ full -> "mails"
                       [] OTHER -> "release"
               k == [j EXCEPT !.batch = rest, !.pc = pc]
    <2>1. work' = [work EXCEPT ![w] = k] /\ j.pc = "mark"
        BY <1>1, <1>12 DEF MarkRewarded, At
    <2>2. pc \in {"enqueue", "mails", "release"}
        OBVIOUS
    <2> HIDE DEF pc, rest
    <2>3. DOMAIN k = Fields /\ k.pc = pc /\ k.season = s
        BY <1>1 DEF Fields
    <2> HIDE DEF k
    <2> QED BY <1>1, <1>2, <2>1, <2>2, <2>3, Continues DEF LockSteps
<1>13. CASE release(w)
    BY <1>3, <1>13, SettleMoves DEF release
<1> QED BY <1>5, <1>6, <1>7, <1>8, <1>9, <1>10, <1>11, <1>12, <1>13 DEF ResetStep

LEMMA FaultMoves ==
    ASSUME WorkersOK, NEW w \in Workers, StepFails(w) \/ Stalls(w)
    PROVE  \E k : Becomes(w, k)
<1> DEFINE j == work[w]
<1>1. DOMAIN j = Fields /\ DOMAIN work = Workers /\ WorkerOK(j, ArchivedSeasons)
    BY DEF WorkersOK, WorkerOK
<1>2. CASE StepFails(w)
    <2>1. HoldsReset(w) => j.season \in Seasons
        BY <1>1 DEF WorkerOK, HoldsReset, LockSteps
    <2> QED BY <1>2, <2>1, ThrowMoves, SettleMoves DEF StepFails
<1>3. CASE Stalls(w)
    <2> DEFINE k == [j EXCEPT !.owner = FALSE]
    <2>1. work' = [work EXCEPT ![w] = Idle] \/ work' = [work EXCEPT ![w] = k]
        BY <1>1, <1>3 DEF Stalls
    <2>2. DOMAIN k = Fields /\ k.pc = j.pc /\ k.season = j.season /\ k.job = j.job
        BY <1>1 DEF Fields
    <2> HIDE DEF k
    <2>3. WorkerOK(k, ArchivedSeasons)
        BY <1>1, <2>2 DEF WorkerOK
    <2> QED BY <2>1, <2>3, IdleOK DEF Becomes
<1> QED BY <1>2, <1>3

LEMMA NextMoves ==
    ASSUME WorkersOK, [Next]_vars
    PROVE  work' = work \/ \E w \in Workers : \E k : Becomes(w, k)
<1>1. CASE UNCHANGED vars
    BY <1>1 DEF vars
<1>2. ASSUME NEW w \in Workers, WorkerStep(w) \/ StepFails(w) \/ Stalls(w)
      PROVE  \E k : Becomes(w, k)
    <2>1. CASE Invalidate(w)
        BY <2>1, SettleMoves DEF Invalidate
    <2> QED BY <1>2, <2>1, PersistMoves, ResolveMoves, ResetMoves, FaultMoves DEF WorkerStep, ResetStep
<1>3. ASSUME NEW w \in Workers, NEW j \in JobIds, createWorker(w, j)
      PROVE  \E k : Becomes(w, k)
    BY <1>3, TakeMoves
<1>4. CASE \E m \in Matches : publishMatchEnded(m)
    BY <1>4 DEF publishMatchEnded
<1>5. CASE \E s \in Seasons : createSeason(s) \/ SeasonExpires(s) \/ closeSeason(s) \/ LockExpires(s)
    BY <1>5 DEF createSeason, SeasonExpires, closeSeason, LockExpires
<1>6. CASE CronFires \/ enqueueSeasonReset \/ EnqueueFails \/ Rollback
    BY <1>6 DEF CronFires, enqueueSeasonReset, EnqueueFails, Rollback
<1>7. CASE ReadBoard \/ FillCache \/ CacheExpires \/ invalidateLeaderboardCache
    BY <1>7 DEF ReadBoard, FillCache, CacheExpires, invalidateLeaderboardCache
<1> QED BY <1>1, <1>2, <1>3, <1>4, <1>5, <1>6, <1>7 DEF Next

-----------------------------------------------------------------------------
(* The steps that write ratings, matches and standings. *)

Tables == <<elo, matchRow, era, standing>>
SameScenario ==
    /\ DOMAIN scenario' = DOMAIN scenario
    /\ scenario'.elo = scenario.elo /\ scenario'.outcomes = scenario.outcomes

LEMMA NextTables ==
    ASSUME RatingsOK, [Next]_vars
    PROVE  /\ SameScenario
           /\ \/ UNCHANGED Tables
              \/ \E w \in Workers :
                    PersistCommit(w) \/ archiveStandingsAndSoftReset(w) \/ MarkRewarded(w)
<1>1. {"elo", "outcomes"} \subseteq DOMAIN scenario
    BY DEF RatingsOK
<1>2. ASSUME NEW x, scenario' = [scenario EXCEPT !.faults = x] \/ scenario' = [scenario EXCEPT !.closes = x]
      PROVE  SameScenario
    BY <1>1, <1>2 DEF SameScenario
<1>3. scenario' = scenario => SameScenario
    BY DEF SameScenario
<1>4. CASE UNCHANGED vars
    BY <1>3, <1>4 DEF vars, ratingVars, seasonVars, Tables
<1>5. ASSUME NEW w \in Workers, StepFails(w) \/ Stalls(w)
      PROVE  SameScenario /\ UNCHANGED Tables
    BY <1>2, <1>5 DEF StepFails, Stalls, ratingVars, seasonVars, Tables
<1>6. ASSUME NEW w \in Workers, NEW j \in JobIds, createWorker(w, j)
      PROVE  SameScenario /\ UNCHANGED Tables
    BY <1>3, <1>6 DEF createWorker, ratingVars, seasonVars, Tables
<1>7. CASE \E m \in Matches : publishMatchEnded(m)
    BY <1>3, <1>7 DEF publishMatchEnded, ratingVars, seasonVars, Tables
<1>8. ASSUME NEW s \in Seasons, createSeason(s) \/ SeasonExpires(s)
      PROVE  SameScenario /\ UNCHANGED Tables
    BY <1>3, <1>8 DEF createSeason, SeasonExpires, ratingVars, Tables
<1>9. ASSUME NEW s \in Seasons, closeSeason(s)
      PROVE  SameScenario /\ UNCHANGED Tables
    BY <1>2, <1>9 DEF closeSeason, ratingVars, Tables
<1>10. ASSUME NEW s \in Seasons, LockExpires(s)
       PROVE  SameScenario /\ UNCHANGED Tables
    <2>1. scenario' = scenario \/ scenario' = [scenario EXCEPT !.faults = scenario.faults - 1]
        BY <1>10 DEF LockExpires
    <2> QED BY <1>2, <1>3, <1>10, <2>1 DEF LockExpires, ratingVars, Tables
<1>11. CASE CronFires \/ enqueueSeasonReset \/ Rollback
    BY <1>3, <1>11 DEF CronFires, enqueueSeasonReset, Rollback, ratingVars, seasonVars, Tables
<1>12. CASE EnqueueFails
    BY <1>2, <1>12 DEF EnqueueFails, ratingVars, seasonVars, Tables
<1>13. CASE ReadBoard \/ FillCache \/ CacheExpires \/ invalidateLeaderboardCache
    BY <1>3, <1>13 DEF ReadBoard, FillCache, CacheExpires, invalidateLeaderboardCache, ratingVars,
       seasonVars, Tables
<1>14. ASSUME NEW w \in Workers,
              PersistRead(w) \/ Invalidate(w) \/ resolveSeason(w) \/ CloseExpired(w) \/ acquire(w)
              \/ CountStandings(w) \/ ReadRatings(w)
       PROVE  SameScenario /\ UNCHANGED Tables
    BY <1>3, <1>14 DEF PersistRead, Invalidate, resolveSeason, CloseExpired, acquire, CountStandings,
       ReadRatings, ratingVars, seasonVars, Tables
<1>15. ASSUME NEW w \in Workers,
              CountActive(w) \/ activateNextSeasonIfNeeded(w) \/ FetchBatch(w)
              \/ enqueueSeasonRewardMail(w) \/ release(w)
       PROVE  SameScenario /\ UNCHANGED Tables
    BY <1>3, <1>15 DEF CountActive, activateNextSeasonIfNeeded, FetchBatch, enqueueSeasonRewardMail,
       release, ratingVars, seasonVars, Tables
<1>16. ASSUME NEW w \in Workers,
              PersistCommit(w) \/ archiveStandingsAndSoftReset(w) \/ MarkRewarded(w)
       PROVE  SameScenario
    BY <1>3, <1>16 DEF PersistCommit, archiveStandingsAndSoftReset, MarkRewarded
<1>17. ASSUME NEW w \in Workers, WorkerStep(w)
       PROVE  /\ SameScenario
              /\ \/ UNCHANGED Tables
                 \/ PersistCommit(w) \/ archiveStandingsAndSoftReset(w) \/ MarkRewarded(w)
    BY <1>14, <1>15, <1>16, <1>17 DEF WorkerStep
<1> QED BY <1>4, <1>5, <1>6, <1>7, <1>8, <1>9, <1>10, <1>11, <1>12, <1>13, <1>17 DEF Next

\* The standings of a season: inserted once, then only marked.
Rewritten(s) ==
    \E p \in Players : \/ standing'[s][p].finalRating # standing[s][p].finalRating
                       \/ standing'[s][p].rank # standing[s][p].rank

LEMMA ArchiveStanding ==
    ASSUME Inv, NEW w \in Workers, archiveStandingsAndSoftReset(w)
    PROVE  /\ StandingsOK' /\ ArchivedSeasons \subseteq ArchivedSeasons'
           /\ \A s \in Seasons : Archived(s) => standing'[s] = standing[s]
           /\ era' # era => \E s \in Seasons : ~Archived(s) /\ standing'[s] # Empty
<1> DEFINE s == work[w].season
<1>1. s \in Seasons /\ DOMAIN standing = Seasons
    BY DEF Inv, WorkersOK, WorkerOK, LockSteps, StandingsOK, archiveStandingsAndSoftReset, At
<1>2. CASE UNCHANGED <<standing, elo, era>>
    BY <1>2 DEF Inv, StandingsOK, ArchivedSeasons, Archived, Seasons
<1>3. CASE ~Archived(s) /\ \E rank \in Rankings(work[w].read) :
              standing' = [standing EXCEPT ![s] = [p \in Players |->
                  [finalRating |-> work[w].read[p].rating, rank |-> rank[p],
                   league |-> getLeagueForRating(work[w].read[p].rating), rewarded |-> FALSE]]]
    <2>1. PICK rank : standing' = [standing EXCEPT ![s] = [p \in Players |->
                  [finalRating |-> work[w].read[p].rating, rank |-> rank[p],
                   league |-> getLeagueForRating(work[w].read[p].rating), rewarded |-> FALSE]]]
        BY <1>3
    <2> DEFINE final(p) == work[w].read[p].rating
               league(p) == getLeagueForRating(final(p))
               line(p) == [finalRating |-> final(p), rank |-> rank[p], league |-> league(p), rewarded |-> FALSE]
               new == [p \in Players |-> line(p)]
    <2>2. standing' = [standing EXCEPT ![s] = new]
        BY <2>1
    <2> HIDE DEF final, league
    <2>3. \A p \in Players : DOMAIN line(p) = StandingFields
        BY DEF StandingFields
    <2> HIDE DEF line
    <2>4. DOMAIN new = Players /\ \A p \in Players : DOMAIN new[p] = StandingFields
        BY <2>3
    <2> HIDE DEF new
    <2>5. new # Empty
        <3>1. DOMAIN Empty = {}
            BY DEF Empty
        <3> QED BY <2>4, <3>1, LadderAssumption
    <2>6. DOMAIN standing' = Seasons /\ \A t \in Seasons : standing'[t] = IF t = s THEN new ELSE standing[t]
        BY <1>1, <2>2
    <2>7. StandingsOK'
        BY <2>4, <2>6 DEF Inv, StandingsOK, Archived, Seasons
    <2>8. ArchivedSeasons \subseteq ArchivedSeasons'
        BY <1>3, <2>6 DEF ArchivedSeasons, Archived, Seasons
    <2> QED BY <1>1, <1>3, <2>5, <2>6, <2>7, <2>8
<1> QED BY <1>2, <1>3 DEF archiveStandingsAndSoftReset, StandingsExist

LEMMA MarkStanding ==
    ASSUME Inv, NEW w \in Workers, MarkRewarded(w)
    PROVE  /\ StandingsOK' /\ ArchivedSeasons \subseteq ArchivedSeasons'
           /\ \A s \in Seasons : Archived(s) => ~Rewritten(s)
<1> DEFINE s == work[w].season
           who == Current(w)
<1>1. s \in Seasons /\ Archived(s) /\ DOMAIN standing = Seasons
    BY DEF Inv, WorkersOK, WorkerOK, LockSteps, StandingsOK, MarkRewarded, At, ArchivedSeasons
<1>2. standing' = [standing EXCEPT ![s][who].rewarded = TRUE]
    BY DEF MarkRewarded
<1>3. DOMAIN standing[s] = Players /\ \A p \in Players : DOMAIN standing[s][p] = StandingFields
    BY <1>1 DEF Inv, StandingsOK
<1> DEFINE line == [standing[s][who] EXCEPT !.rewarded = TRUE]
           new == [standing[s] EXCEPT ![who] = line]
<1>4. who \in Players => /\ DOMAIN line = StandingFields /\ line.rank = standing[s][who].rank
                         /\ line.finalRating = standing[s][who].finalRating
    BY <1>3 DEF StandingFields
<1>5. standing' = [standing EXCEPT ![s] = new]
    BY <1>2
<1> HIDE DEF who, line
<1>6. DOMAIN new = Players /\ \A p \in Players : new[p] = IF p = who THEN line ELSE standing[s][p]
    BY <1>3
<1> HIDE DEF new
<1>7. DOMAIN standing' = Seasons /\ \A t \in Seasons : standing'[t] = IF t = s THEN new ELSE standing[t]
    BY <1>1, <1>5
<1>8. new # Empty
    <2>1. DOMAIN Empty = {}
        BY DEF Empty
    <2> QED BY <1>6, <2>1, LadderAssumption
<1>9. \A p \in Players : DOMAIN new[p] = StandingFields
    BY <1>3, <1>4, <1>6
<1>10. StandingsOK'
    BY <1>6, <1>7, <1>9 DEF Inv, StandingsOK, Archived, Seasons
<1>11. ArchivedSeasons \subseteq ArchivedSeasons'
    BY <1>7, <1>8 DEF ArchivedSeasons, Archived, Seasons
<1>12. \A t \in Seasons : Archived(t) => ~Rewritten(t)
    BY <1>4, <1>6, <1>7 DEF Rewritten
<1> QED BY <1>10, <1>11, <1>12

-----------------------------------------------------------------------------
(* Matches that count. *)

LEMMA CountedIsFinite ==
    ASSUME RatingsOK, NEW p
    PROVE  IsFiniteSet(Counted(p)) /\ Cardinality(Counted(p)) \in Nat /\ Counted(p) \subseteq Persisted
<1>1. Counted(p) \subseteq Persisted
    BY DEF Counted, Persisted
<1>2. IsFiniteSet(Persisted)
    BY DEF RatingsOK
<1> QED BY <1>1, <1>2, FS_Subset, FS_CardinalityType

\* The ratings are only read.
LEMMA SameRatings ==
    ASSUME Inv, SameScenario, UNCHANGED <<elo, matchRow, era>>
    PROVE  RatingsOK' /\ CountedOnce'
<1>1. Persisted' = Persisted /\ \A p : Counted(p)' = Counted(p)
    BY DEF Persisted, Counted
<1>2. RatingsOK'
    BY <1>1 DEF Inv, RatingsOK, SameScenario
<1>3. CountedOnce'
    BY <1>1 DEF Inv, CountedOnce, SameScenario
<1> QED BY <1>2, <1>3

\* A match is inserted, with one game more for both players.
LEMMA CommitRatings ==
    ASSUME Inv, SameScenario, NEW w \in Workers, PersistCommit(w)
    PROVE  RatingsOK' /\ CountedOnce'
<1> DEFINE m == MatchOf(w)
           a == Sides[m][1]
           b == Sides[m][2]
           read == work[w].read
<1>1. m \in Matches
    BY DEF Inv, WorkersOK, WorkerOK, PersistCommit, At, MatchOf
<1>2. a \in Players /\ b \in Players /\ a # b
    BY <1>1, LadderAssumption
<1>3. era' = era
    BY DEF PersistCommit
<1>4. CASE UNCHANGED <<elo, matchRow>>
    BY <1>3, <1>4, SameRatings
<1>5. CASE matchRow[m] = Empty /\ ~UNCHANGED <<elo, matchRow>>
    <2>1. PICK outcome :
            /\ elo' = [elo EXCEPT
                   ![a] = [rating |-> read[a].rating + computeElo(read[a], read[b], outcome).A,
                           games |-> @.games + 1],
                   ![b] = [rating |-> read[b].rating + computeElo(read[a], read[b], outcome).B,
                           games |-> @.games + 1]]
            /\ matchRow' = [matchRow EXCEPT ![m] =
                   [before |-> read, delta |-> computeElo(read[a], read[b], outcome), era |-> era]]
        BY <1>5 DEF PersistCommit, isUniqueMatchConflict
    <2> DEFINE delta == computeElo(read[a], read[b], outcome)
               ra == read[a].rating + delta.A
               rb == read[b].rating + delta.B
               line == [before |-> read, delta |-> delta, era |-> era]
    <2>2. /\ elo' = [elo EXCEPT ![a] = [rating |-> ra, games |-> @.games + 1],
                                ![b] = [rating |-> rb, games |-> @.games + 1]]
          /\ matchRow' = [matchRow EXCEPT ![m] = line]
        BY <2>1
    <2> HIDE DEF delta, ra, rb
    <2>3. line.era = era /\ line # Empty
        <3>1. DOMAIN Empty = {} /\ "era" \in DOMAIN line
            BY DEF Empty
        <3> QED BY <3>1
    <2> HIDE DEF line
    <2>4. /\ DOMAIN elo = Players /\ DOMAIN matchRow = Matches /\ era \in Nat
          /\ \A p \in Players : elo[p].games \in Nat
          /\ IsFiniteSet(Persisted) /\ \A x \in Persisted : matchRow[x].era \in 0..era
        BY DEF Inv, RatingsOK
    <2> HIDE DEF m, a, b
    <2>5. /\ DOMAIN elo' = Players
          /\ \A p \in Players : elo'[p].games = IF p \in {a, b} THEN elo[p].games + 1 ELSE elo[p].games
        BY <1>2, <2>2, <2>4
    <2>6. /\ DOMAIN matchRow' = Matches
          /\ \A x \in Matches : matchRow'[x] = IF x = m THEN line ELSE matchRow[x]
        BY <1>1, <2>2, <2>4
    <2>7. Persisted' = Persisted \cup {m}
        BY <1>1, <2>3, <2>6 DEF Persisted
    <2>8. IsFiniteSet(Persisted')
        BY <2>4, <2>7, FS_AddElement
    <2>9. \A x \in Persisted' : matchRow'[x].era \in 0..era
        BY <2>3, <2>4, <2>6, <2>7 DEF Persisted
    <2>10. \A p \in Players : elo'[p].games \in Nat
        BY <2>4, <2>5
    <2>11. RatingsOK'
        BY <1>3, <2>4, <2>5, <2>6, <2>8, <2>9, <2>10 DEF Inv, RatingsOK, SameScenario
    <2>12. ASSUME NEW p \in Players
           PROVE  Counted(p)' = IF p \in {a, b} THEN Counted(p) \cup {m} ELSE Counted(p)
        <3>1. p \in {Sides[m][1], Sides[m][2]} <=> p \in {a, b}
            BY DEF m, a, b
        <3> QED BY <1>1, <1>3, <1>5, <2>3, <2>6, <3>1 DEF Counted
    <2>13. ASSUME NEW p \in Players
           PROVE  Cardinality(Counted(p)') = IF p \in {a, b} THEN Cardinality(Counted(p)) + 1
                                             ELSE Cardinality(Counted(p))
        <3>1. m \notin Counted(p)
            BY <1>5 DEF Counted, m
        <3>2. IsFiniteSet(Counted(p))
            BY CountedIsFinite DEF Inv
        <3> QED BY <2>12, <3>1, <3>2, FS_AddElement
    <2>14. ASSUME NEW p \in Players
           PROVE  elo'[p].games = Cardinality(Counted(p)') + (IF era' = 0 THEN scenario'.elo[p].games ELSE 0)
        <3> DEFINE base == IF era = 0 THEN scenario.elo[p].games ELSE 0
                   n == Cardinality(Counted(p))
        <3>1. elo[p].games = n + base
            BY DEF Inv, CountedOnce
        <3>2. n \in Nat /\ base \in Nat
            BY CountedIsFinite DEF Inv, RatingsOK
        <3>3. (IF era' = 0 THEN scenario'.elo[p].games ELSE 0) = base
            BY <1>3 DEF SameScenario
        <3> HIDE DEF n, base
        <3>4. Cardinality(Counted(p)') = IF p \in {a, b} THEN n + 1 ELSE n
            BY <2>13 DEF n
        <3> QED BY <2>5, <3>1, <3>2, <3>3, <3>4
    <2> QED BY <2>11, <2>14 DEF CountedOnce
<1> QED BY <1>4, <1>5 DEF PersistCommit, isUniqueMatchConflict

\* The games of everybody start again.
LEMMA ArchiveRatings ==
    ASSUME Inv, SameScenario, NEW w \in Workers, archiveStandingsAndSoftReset(w)
    PROVE  RatingsOK' /\ CountedOnce'
<1>1. matchRow' = matchRow
    BY DEF archiveStandingsAndSoftReset
<1>2. CASE UNCHANGED <<elo, era>>
    BY <1>1, <1>2, SameRatings
<1>3. CASE /\ elo' = [p \in Players |->
                        [rating |-> softResetRating(work[w].read[p].rating), games |-> 0]]
           /\ era' = era + 1
    <2> DEFINE r(p) == softResetRating(work[w].read[p].rating)
    <2>1. elo' = [p \in Players |-> [rating |-> r(p), games |-> 0]]
        BY <1>3
    <2> HIDE DEF r
    <2>2. DOMAIN elo' = Players /\ \A p \in Players : elo'[p].games = 0
        BY <2>1
    <2>3. /\ DOMAIN matchRow = Matches /\ era \in Nat /\ IsFiniteSet(Persisted)
          /\ \A x \in Persisted : matchRow[x].era \in 0..era
        BY DEF Inv, RatingsOK
    <2>4. Persisted' = Persisted
        BY <1>1 DEF Persisted
    <2>5. \A x \in Persisted : matchRow'[x].era \in 0..era' /\ matchRow'[x].era # era'
        BY <1>1, <1>3, <2>3
    <2>6. RatingsOK'
        BY <1>1, <1>3, <2>2, <2>3, <2>4, <2>5 DEF Inv, RatingsOK, SameScenario
    <2>7. ASSUME NEW p \in Players PROVE Cardinality(Counted(p)') = 0
        <3>1. Counted(p)' = {}
            BY <2>4, <2>5 DEF Counted, Persisted
        <3> QED BY <3>1, FS_EmptySet
    <2>8. CountedOnce'
        BY <1>3, <2>2, <2>3, <2>7 DEF CountedOnce
    <2> QED BY <2>6, <2>8
<1> QED BY <1>2, <1>3 DEF archiveStandingsAndSoftReset

-----------------------------------------------------------------------------
LEMMA InitInv == Init => Inv
<1> SUFFICES ASSUME Init PROVE Inv
    OBVIOUS
<1>1. /\ {"elo", "outcomes"} \subseteq DOMAIN scenario /\ scenario.elo \in Snapshot
      /\ scenario.outcomes \subseteq {"A", "B", "DRAW"}
    BY ScenarioAssumption DEF Init
<1>2. elo = scenario.elo /\ matchRow = [m \in Matches |-> Empty] /\ era = 0
      /\ standing = [s \in Seasons |-> Empty] /\ work = [w \in Workers |-> Idle]
    BY DEF Init
<1>3. WorkersOK
    BY <1>2, IdleOK DEF WorkersOK
<1>4. StandingsOK
    BY <1>2 DEF StandingsOK, Archived
<1>5. Persisted = {} /\ \A p \in Players : Counted(p) = {}
    BY <1>2 DEF Persisted, Counted
<1>6. IsFiniteSet({}) /\ Cardinality({}) = 0
    BY FS_EmptySet
<1>7. \A p \in Players : scenario.elo[p].games \in Nat
    BY <1>1 DEF Snapshot, EntryType
<1>8. RatingsOK
    BY <1>1, <1>2, <1>5, <1>6, <1>7 DEF RatingsOK, Snapshot
<1>9. CountedOnce
    <2> SUFFICES ASSUME NEW p \in Players
                 PROVE  elo[p].games = Cardinality(Counted(p))
                                       + (IF era = 0 THEN scenario.elo[p].games ELSE 0)
        BY DEF CountedOnce
    <2>1. Cardinality(Counted(p)) = 0
        BY <1>5, <1>6
    <2>2. elo[p].games = scenario.elo[p].games /\ scenario.elo[p].games \in Nat
        BY <1>2, <1>7
    <2> QED BY <1>2, <2>1, <2>2
<1> QED BY <1>3, <1>4, <1>8, <1>9 DEF Inv

\* What a step does to the standings and to the count of resets.
ArchiveAction ==
    /\ \A s \in Seasons : Archived(s) => \A p \in Players :
          /\ standing'[s][p].finalRating = standing[s][p].finalRating
          /\ standing'[s][p].rank = standing[s][p].rank
    /\ era' # era => \E s \in Seasons : ~Archived(s) /\ standing'[s] # Empty

LEMMA InvSteps ==
    ASSUME Inv, [Next]_vars
    PROVE  Inv' /\ ArchiveAction /\ ArchivedSeasons \subseteq ArchivedSeasons'
<1>1. /\ SameScenario
      /\ \/ UNCHANGED Tables
         \/ \E w \in Workers : PersistCommit(w) \/ archiveStandingsAndSoftReset(w) \/ MarkRewarded(w)
    BY NextTables DEF Inv
<1>2. /\ StandingsOK' /\ ArchivedSeasons \subseteq ArchivedSeasons' /\ ArchiveAction
      /\ RatingsOK' /\ CountedOnce'
    <2>1. ASSUME standing' = standing PROVE StandingsOK' /\ ArchivedSeasons \subseteq ArchivedSeasons'
        BY <2>1 DEF Inv, StandingsOK, ArchivedSeasons, Archived
    <2>2. CASE UNCHANGED Tables
        <3>1. UNCHANGED <<elo, matchRow, era, standing>>
            BY <2>2 DEF Tables
        <3>2. ArchiveAction
            BY <3>1 DEF ArchiveAction
        <3> QED BY <1>1, <2>1, <3>1, <3>2, SameRatings
    <2>3. ASSUME NEW w \in Workers, PersistCommit(w)
          PROVE  /\ StandingsOK' /\ ArchivedSeasons \subseteq ArchivedSeasons' /\ ArchiveAction
                 /\ RatingsOK' /\ CountedOnce'
        <3>1. UNCHANGED <<era, standing>>
            BY <2>3 DEF PersistCommit, seasonVars
        <3>2. ArchiveAction
            BY <3>1 DEF ArchiveAction
        <3> QED BY <1>1, <2>1, <2>3, <3>1, <3>2, CommitRatings
    <2>4. ASSUME NEW w \in Workers, archiveStandingsAndSoftReset(w)
          PROVE  /\ StandingsOK' /\ ArchivedSeasons \subseteq ArchivedSeasons' /\ ArchiveAction
                 /\ RatingsOK' /\ CountedOnce'
        <3>1. ArchiveAction
            BY <2>4, ArchiveStanding DEF ArchiveAction
        <3> QED BY <1>1, <2>4, <3>1, ArchiveStanding, ArchiveRatings
    <2>5. ASSUME NEW w \in Workers, MarkRewarded(w)
          PROVE  /\ StandingsOK' /\ ArchivedSeasons \subseteq ArchivedSeasons' /\ ArchiveAction
                 /\ RatingsOK' /\ CountedOnce'
        <3>1. UNCHANGED <<elo, matchRow, era>>
            BY <2>5 DEF MarkRewarded, ratingVars
        <3>2. ArchiveAction
            BY <2>5, <3>1, MarkStanding DEF ArchiveAction, Rewritten
        <3> QED BY <1>1, <2>5, <3>1, <3>2, MarkStanding, SameRatings
    <2> QED BY <1>1, <2>2, <2>3, <2>4, <2>5
<1>3. WorkersOK'
    <2>1. WorkersOK
        BY DEF Inv
    <2>2. \A w \in Workers : WorkerOK(work[w], ArchivedSeasons')
        BY <1>2, <2>1, Monotone DEF WorkersOK
    <2>3. CASE work' = work
        BY <2>1, <2>2, <2>3 DEF WorkersOK
    <2>4. ASSUME NEW w \in Workers, NEW k, Becomes(w, k) PROVE WorkersOK'
        <3>1. WorkerOK(k, ArchivedSeasons')
            BY <1>2, <2>4, Monotone DEF Becomes
        <3>2. DOMAIN work' = Workers /\ \A v \in Workers : work'[v] = IF v = w THEN k ELSE work[v]
            BY <2>1, <2>4 DEF Becomes, WorkersOK
        <3> QED BY <2>2, <3>1, <3>2 DEF WorkersOK
    <2> QED BY <2>1, <2>3, <2>4, NextMoves
<1> QED BY <1>2, <1>3 DEF Inv

\* Every match counts once for each of its players, however often its job is delivered,
\* whatever stalls or fails and whatever else is persisted meanwhile: persistMatchEnded
\* inserts the match under its primary key in the transaction that increments the games.
THEOREM MatchCountsOnce == Spec => []CountedOnce
<1>1. Inv => CountedOnce
    BY DEF Inv
<1>2. Inv /\ [Next]_vars => Inv'
    BY InvSteps
<1> QED BY <1>1, <1>2, InitInv, PTL DEF Spec

\* A season is archived once, and every soft reset archives one: the unique key of
\* season_standings holds even when the lock of processSeasonReset has expired under a
\* worker and a second one runs beside it.
THEOREM SeasonIsArchivedOnce == Spec => ArchivedOnce
<1>1. Inv /\ [Next]_vars => Inv' /\ [ArchiveAction]_vars
    BY InvSteps
<1> QED BY <1>1, InitInv, PTL DEF Spec, ArchivedOnce, ArchiveAction


-----------------------------------------------------------------------------
(* The rest of the state: seasons, jobs, locks, the leaderboard and the mails. *)

Statuses == {"absent", "upcoming", "active", "closed"}
JobType ==
    [state : {"none", "waiting", "active", "completed", "failed"}, attempts : 0..3, stalled : BOOLEAN]

\* An order of all seasons.
Complete(order) ==
    /\ order \in Seq(Seasons) /\ Len(order) = MaxSeasons
    /\ \A s \in Seasons : \E i \in 1..MaxSeasons : order[i] = s
OneActive == \A s, t \in Seasons : Status(s) = "active" /\ Status(t) = "active" => s = t
Calendar ==
    /\ season \in [Seasons -> [status : Statuses, over : BOOLEAN]]
    /\ OneActive /\ Complete(updatedAt)
    /\ DOMAIN admin = {"pc", "job", "season"}
    /\ admin.pc # "idle" => admin.season \in Seasons

Queues ==
    /\ jobs \in [JobIds -> JobType]
    /\ resetLock \in [Seasons -> Workers \cup {NoWorker}]

Board ==
    /\ elo \in Snapshot
    /\ cache \in Snapshot \cup {Empty} /\ reader \in Snapshot \cup {Empty}

\* What a worker has read for its next step.
Loaded(k) ==
    /\ k.pc \in {"commit", "archive"} => k.read \in Snapshot
    /\ k.pc = "activate" => k.next \in Seasons
    /\ k.pc \in {"enqueue", "mark"} => k.batch \subseteq Players /\ k.batch # {}
Reads == \A w \in Workers : Loaded(work[w])

\* The ranks of a standing, and the mails for it: the one that is to be marked next is
\* on the queue.
Rank(s, p) == standing[s][p].rank
Ranked ==
    \A s \in Seasons : Archived(s) =>
        \A p \in Players : Rank(s, p) \in Nat /\ \A q \in Players : Rank(s, p) = Rank(s, q) => p = q
Mails ==
    /\ mailed \subseteq Seasons \X Players
    /\ RewardedIsMailed
    /\ \A w \in Workers : work[w].pc = "mark" => <<work[w].season, Current(w)>> \in mailed

TypeInv == Inv /\ Calendar /\ Queues /\ Board /\ Reads /\ Ranked /\ Mails

\* A non-empty set of numbers has a least one.
LEMMA LeastNumber ==
    ASSUME NEW S \in SUBSET Nat, S # {}
    PROVE  \E n \in S : \A m \in S : n <= m
<1> DEFINE R == {ss \in Nat \X Nat : ss[1] < ss[2]}
<1>1. IsWellFoundedOn(R, Nat)
    BY NatLessThanWellFounded DEF OpToRel
<1> HIDE DEF R
<1>2. PICK n \in S : \A m \in S : ~ (<<m, n>> \in R)
    BY <1>1, WFMin
<1>3. \A m \in S : ~ (m < n)
    BY <1>2 DEF R
<1> QED BY <1>3

\* The season that was updated comes last.
LEMMA MovedToEnd ==
    ASSUME NEW order, Complete(order), NEW s \in Seasons, NEW i \in DOMAIN order, order[i] = s
    PROVE  Complete(Append(RemoveAt(order, i), s))
<1> DEFINE n == MaxSeasons
           a == SubSeq(order, 1, i - 1)
           b == SubSeq(order, i + 1, n)
           c == a \o b
           d == Append(c, s)
<1>1. n \in Nat /\ order \in Seq(Seasons) /\ Len(order) = n /\ DOMAIN order = 1..n /\ i \in 1..n
    BY LadderAssumption DEF Complete
<1>2. a \in Seq(Seasons) /\ Len(a) = i - 1 /\ \A j \in 1..(i - 1) : a[j] = order[j]
    BY <1>1
<1>3. b \in Seq(Seasons) /\ Len(b) = n - i /\ \A j \in 1..(n - i) : b[j] = order[i + j]
    BY <1>1
<1>4. RemoveAt(order, i) = c
    BY <1>1 DEF RemoveAt
<1> HIDE DEF a, b
<1>5. /\ c \in Seq(Seasons) /\ Len(c) = n - 1
      /\ \A j \in 1..(n - 1) : c[j] = IF j < i THEN order[j] ELSE order[j + 1]
    <2>1. /\ c \in Seq(Seasons) /\ Len(c) = n - 1
          /\ \A j \in 1..Len(a) : c[j] = a[j]
          /\ \A j \in (Len(a) + 1)..(Len(a) + Len(b)) : c[j] = b[j - Len(a)]
        <3>1. \A j \in 1..(Len(a) + Len(b)) : c[j] = IF j <= Len(a) THEN a[j] ELSE b[j - Len(a)]
            BY <1>2, <1>3, ConcatProperties
        <3>2. c \in Seq(Seasons) /\ Len(c) = Len(a) + Len(b)
            BY <1>2, <1>3, ConcatProperties
        <3> HIDE DEF c
        <3> QED BY <1>1, <1>2, <1>3, <3>1, <3>2
    <2> HIDE DEF c
    <2>2. ASSUME NEW j \in 1..(n - 1) PROVE c[j] = IF j < i THEN order[j] ELSE order[j + 1]
        <3>1. CASE j < i
            <4>1. j \in 1..(i - 1) /\ j \in 1..Len(a)
                BY <1>1, <1>2, <3>1
            <4> QED BY <1>2, <2>1, <3>1, <4>1
        <3>2. CASE ~(j < i)
            <4>1. j \in (Len(a) + 1)..(Len(a) + Len(b)) /\ j - Len(a) \in 1..(n - i)
                BY <1>1, <1>2, <1>3, <3>2
            <4>2. b[j - Len(a)] = order[i + (j - Len(a))] /\ i + (j - Len(a)) = j + 1
                BY <1>1, <1>2, <1>3, <4>1
            <4> QED BY <2>1, <3>2, <4>1, <4>2
        <3> QED BY <3>1, <3>2
    <2> QED BY <2>1, <2>2
<1> HIDE DEF c
<1>6. d \in Seq(Seasons) /\ Len(d) = n /\ d[n] = s /\ \A j \in 1..(n - 1) : d[j] = c[j]
    BY <1>1, <1>5
<1> HIDE DEF d
<1>7. ASSUME NEW t \in Seasons PROVE \E j \in 1..n : d[j] = t
    <2>1. PICK j \in 1..n : order[j] = t
        BY DEF Complete
    <2>2. CASE j = i
        BY <1>1, <1>6, <2>1, <2>2
    <2>3. CASE j < i
        <3>1. j \in 1..(n - 1)
            BY <1>1, <2>3
        <3> QED BY <1>1, <1>5, <1>6, <2>1, <2>3, <3>1
    <2>4. CASE j > i
        <3>1. j - 1 \in 1..(n - 1) /\ ~(j - 1 < i) /\ (j - 1) + 1 = j
            BY <1>1, <2>4
        <3>2. c[j - 1] = order[j]
            BY <1>5, <3>1
        <3> QED BY <1>1, <1>6, <2>1, <3>1, <3>2
    <2> QED BY <1>1, <2>2, <2>3, <2>4
<1>8. Complete(d)
    BY <1>6, <1>7 DEF Complete
<1> QED BY <1>4, <1>8 DEF d

LEMMA StatusIsSet ==
    ASSUME Calendar, NEW s \in Seasons, NEW status \in Statuses, SetStatus(s, status),
           status = "active" => Active \ {s} = {}
    PROVE  /\ season' \in [Seasons -> [status : Statuses, over : BOOLEAN]]
           /\ OneActive' /\ Complete(updatedAt)'
<1>1. season \in [Seasons -> [status : Statuses, over : BOOLEAN]] /\ Complete(updatedAt)
    BY DEF Calendar
<1>2. season' \in [Seasons -> [status : Statuses, over : BOOLEAN]]
    BY <1>1 DEF SetStatus
<1>3. \A t \in Seasons : Status(t)' = IF t = s THEN status ELSE Status(t)
    BY <1>1 DEF SetStatus, Status
<1>4. OneActive'
    <2>1. CASE status = "active"
        BY <1>3, <2>1 DEF OneActive, Active
    <2>2. CASE status # "active"
        BY <1>3, <2>2 DEF OneActive, Calendar
    <2> QED BY <2>1, <2>2
<1> DEFINE i == CHOOSE i \in DOMAIN updatedAt : updatedAt[i] = s
<1>5. i \in DOMAIN updatedAt /\ updatedAt[i] = s
    <2>1. \E j \in DOMAIN updatedAt : updatedAt[j] = s
        <3>1. DOMAIN updatedAt = 1..MaxSeasons
            BY <1>1 DEF Complete
        <3> QED BY <1>1, <3>1 DEF Complete
    <2> QED BY <2>1
<1>6. updatedAt' = Append(RemoveAt(updatedAt, i), s)
    BY DEF SetStatus
<1> HIDE DEF i
<1>7. Complete(updatedAt')
    BY <1>1, <1>5, <1>6, MovedToEnd
<1>8. Complete(updatedAt)'
    BY <1>7 DEF Complete
<1> QED BY <1>2, <1>4, <1>8

-----------------------------------------------------------------------------
(* The seasons. *)

\* The steps that write the seasons or the request of the administrator.
LEMMA NextSeasons ==
    ASSUME [Next]_vars
    PROVE  \/ UNCHANGED <<season, updatedAt, admin>>
           \/ \E w \in Workers : CloseExpired(w) \/ activateNextSeasonIfNeeded(w)
           \/ \E s \in Seasons : createSeason(s) \/ SeasonExpires(s) \/ closeSeason(s)
           \/ enqueueSeasonReset \/ EnqueueFails \/ Rollback
<1>1. CASE UNCHANGED vars
    BY <1>1 DEF vars, seasonVars
<1>2. ASSUME NEW w \in Workers, StepFails(w) \/ Stalls(w)
      PROVE  UNCHANGED <<season, updatedAt, admin>>
    BY <1>2 DEF StepFails, Stalls, seasonVars
<1>3. ASSUME NEW w \in Workers, NEW j \in JobIds, createWorker(w, j)
      PROVE  UNCHANGED <<season, updatedAt, admin>>
    BY <1>3 DEF createWorker, seasonVars
<1>4. CASE (\E m \in Matches : publishMatchEnded(m)) \/ CronFires
    BY <1>4 DEF publishMatchEnded, CronFires, seasonVars
<1>5. ASSUME NEW s \in Seasons, LockExpires(s)
      PROVE  UNCHANGED <<season, updatedAt, admin>>
    BY <1>5 DEF LockExpires
<1>6. CASE ReadBoard \/ FillCache \/ CacheExpires \/ invalidateLeaderboardCache
    BY <1>6 DEF ReadBoard, FillCache, CacheExpires, invalidateLeaderboardCache, seasonVars
<1>7. ASSUME NEW w \in Workers,
             PersistRead(w) \/ PersistCommit(w) \/ Invalidate(w) \/ resolveSeason(w) \/ acquire(w)
             \/ CountStandings(w) \/ ReadRatings(w) \/ archiveStandingsAndSoftReset(w)
      PROVE  UNCHANGED <<season, updatedAt, admin>>
    BY <1>7 DEF PersistRead, PersistCommit, Invalidate, resolveSeason, acquire, CountStandings,
       ReadRatings, archiveStandingsAndSoftReset, seasonVars
<1>8. ASSUME NEW w \in Workers,
             CountActive(w) \/ FetchBatch(w) \/ enqueueSeasonRewardMail(w) \/ MarkRewarded(w) \/ release(w)
      PROVE  UNCHANGED <<season, updatedAt, admin>>
    BY <1>8 DEF CountActive, FetchBatch, enqueueSeasonRewardMail, MarkRewarded, release, seasonVars
<1> QED BY <1>1, <1>2, <1>3, <1>4, <1>5, <1>6, <1>7, <1>8 DEF Next, WorkerStep

LEMMA CalendarSteps ==
    ASSUME WorkersOK, Reads, Calendar, [Next]_vars
    PROVE  Calendar'
<1> DEFINE Kept == DOMAIN admin' = {"pc", "job", "season"} /\ (admin'.pc # "idle" => admin'.season \in Seasons)
<1>1. ASSUME UNCHANGED <<season, updatedAt>>, Kept PROVE Calendar'
    BY <1>1 DEF Calendar, OneActive, Status, Complete
<1>2. ASSUME NEW s \in Seasons, NEW status \in Statuses, SetStatus(s, status),
             status = "active" => Active \ {s} = {}, Kept
      PROVE  Calendar'
    BY <1>2, StatusIsSet DEF Calendar
<1>3. admin' = admin => Kept
    BY DEF Calendar
<1>4. CASE UNCHANGED <<season, updatedAt, admin>>
    BY <1>1, <1>3, <1>4
<1>5. ASSUME NEW w \in Workers, CloseExpired(w) PROVE Calendar'
    <2>1. work[w].season \in Seasons /\ admin' = admin
        BY <1>5 DEF WorkersOK, WorkerOK, LockSteps, CloseExpired, At
    <2>2. SetStatus(work[w].season, "closed") \/ UNCHANGED <<season, updatedAt>>
        BY <1>5 DEF CloseExpired
    <2> QED BY <1>1, <1>2, <1>3, <2>1, <2>2 DEF Statuses
<1>6. ASSUME NEW w \in Workers, activateNextSeasonIfNeeded(w) PROVE Calendar'
    <2>1. work[w].next \in Seasons /\ admin' = admin
        BY <1>6 DEF Reads, Loaded, activateNextSeasonIfNeeded, At
    <2>2. \/ UNCHANGED <<season, updatedAt>>
          \/ SetStatus(work[w].next, "active") /\ Active \ {work[w].next} = {}
        BY <1>6 DEF activateNextSeasonIfNeeded
    <2> QED BY <1>1, <1>2, <1>3, <2>1, <2>2 DEF Statuses
<1>7. ASSUME NEW s \in Seasons, createSeason(s) PROVE Calendar'
    <2>1. SetStatus(s, "upcoming") /\ admin' = admin
        BY <1>7 DEF createSeason
    <2> QED BY <1>2, <1>3, <2>1 DEF Statuses
<1>8. ASSUME NEW s \in Seasons, SeasonExpires(s) PROVE Calendar'
    <2>1. season' = [season EXCEPT ![s].over = TRUE] /\ UNCHANGED <<updatedAt, admin>>
        BY <1>8 DEF SeasonExpires
    <2>2. season \in [Seasons -> [status : Statuses, over : BOOLEAN]]
        BY DEF Calendar
    <2>3. /\ season' \in [Seasons -> [status : Statuses, over : BOOLEAN]]
          /\ \A t \in Seasons : season'[t].status = season[t].status
        BY <2>1, <2>2
    <2>4. OneActive'
        BY <2>3 DEF Calendar, OneActive, Status
    <2>5. Complete(updatedAt)'
        BY <2>1 DEF Calendar, Complete
    <2> QED BY <1>3, <2>1, <2>3, <2>4, <2>5 DEF Calendar
<1>9. ASSUME NEW s \in Seasons, closeSeason(s) PROVE Calendar'
    <2>1. /\ SetStatus(s, "closed")
          /\ admin' = [pc |-> "enqueue", job |-> ResetJob(s, scenario.closes), season |-> s]
        BY <1>9 DEF closeSeason
    <2>2. Kept
        BY <2>1
    <2> QED BY <1>2, <2>1, <2>2 DEF Statuses
<1>10. CASE enqueueSeasonReset \/ EnqueueFails
    <2>1. /\ UNCHANGED <<season, updatedAt>> /\ admin.pc = "enqueue"
          /\ admin' = NoRequest \/ admin' = [admin EXCEPT !.pc = "rollback"]
        BY <1>10 DEF enqueueSeasonReset, EnqueueFails, seasonVars
    <2>2. Kept
        BY <2>1 DEF Calendar, NoRequest
    <2> QED BY <1>1, <2>1, <2>2
<1>11. CASE Rollback
    <2>1. admin.season \in Seasons /\ admin' = NoRequest
        BY <1>11 DEF Rollback, Calendar
    <2>2. UNCHANGED <<season, updatedAt>> \/ (SetStatus(admin.season, "active") /\ Active = {})
        BY <1>11 DEF Rollback
    <2>3. Kept
        BY <2>1 DEF NoRequest
    <2> QED BY <1>1, <1>2, <2>1, <2>2, <2>3 DEF Statuses
<1> QED BY <1>4, <1>5, <1>6, <1>7, <1>8, <1>9, <1>10, <1>11, NextSeasons

-----------------------------------------------------------------------------
(* Jobs and locks. *)

LEMMA SettledType ==
    ASSUME NEW job \in JobType, NEW j, NEW outcome
    PROVE  Settled(job, j, outcome) \in JobType
<1> DEFINE st == IF j = CronJob THEN "none" ELSE IF outcome = "ok" THEN "completed" ELSE "failed"
<1>1. st \in {"none", "completed", "failed"}
    OBVIOUS
<1>2. Settled(job, j, outcome) = IF outcome = "error" /\ job.attempts > 1
                                 THEN [job EXCEPT !.state = "waiting", !.attempts = @ - 1]
                                 ELSE [job EXCEPT !.state = st]
    BY DEF Settled
<1> HIDE DEF st
<1>3. [job EXCEPT !.state = st] \in JobType
    BY <1>1 DEF JobType
<1>4. ASSUME job.attempts > 1 PROVE [job EXCEPT !.state = "waiting", !.attempts = @ - 1] \in JobType
    <2> DEFINE a == job.attempts - 1
    <2>1. a \in 0..3
        BY <1>4 DEF JobType
    <2> HIDE DEF a
    <2>2. [job EXCEPT !.state = "waiting", !.attempts = a] \in JobType
        BY <2>1 DEF JobType
    <2> QED BY <2>2 DEF a
<1> QED BY <1>2, <1>3, <1>4

\* One job changes.
LEMMA JobChanges ==
    ASSUME jobs \in [JobIds -> JobType], NEW j, NEW v, jobs' = [jobs EXCEPT ![j] = v],
           j \in JobIds => v \in JobType
    PROVE  jobs' \in [JobIds -> JobType]
OBVIOUS

LEMMA SettleJobs ==
    ASSUME jobs \in [JobIds -> JobType], NEW w, NEW outcome, Settle(w, outcome)
    PROVE  jobs' \in [JobIds -> JobType]
<1> DEFINE j == work[w].job
           v == Settled(jobs[j], j, outcome)
<1>1. jobs' = jobs \/ jobs' = [jobs EXCEPT ![j] = v]
    BY DEF Settle
<1>2. j \in JobIds => v \in JobType
    BY SettledType
<1> HIDE DEF v
<1> QED BY <1>1, <1>2, JobChanges

LEMMA AddJobs ==
    ASSUME jobs \in [JobIds -> JobType], NEW j, NEW attempts \in 0..3, add(j, attempts)
    PROVE  jobs' \in [JobIds -> JobType]
<1> DEFINE v == [state |-> "waiting", attempts |-> attempts, stalled |-> FALSE]
<1>1. jobs' = [jobs EXCEPT ![j] = v] /\ v \in JobType
    BY DEF add, JobType
<1> HIDE DEF v
<1> QED BY <1>1, JobChanges

LEMMA StateJobs ==
    ASSUME jobs \in [JobIds -> JobType], NEW j, NEW st \in {"active", "failed"},
           jobs' = [jobs EXCEPT ![j].state = st]
    PROVE  jobs' \in [JobIds -> JobType]
BY DEF JobType

LEMMA StallJobs ==
    ASSUME jobs \in [JobIds -> JobType], NEW w, Stalls(w)
    PROVE  jobs' \in [JobIds -> JobType]
<1> DEFINE j == work[w].job
           v == IF jobs[j].stalled THEN [jobs[j] EXCEPT !.state = "failed"]
                ELSE [jobs[j] EXCEPT !.state = "waiting", !.stalled = TRUE]
<1>1. jobs' = [jobs EXCEPT ![j] = v]
    BY DEF Stalls
<1>2. j \in JobIds => v \in JobType
    BY DEF JobType
<1> HIDE DEF v
<1> QED BY <1>1, <1>2, JobChanges

LEMMA QueueSteps ==
    ASSUME Queues, [Next]_vars
    PROVE  Queues'
<1>1. jobs \in [JobIds -> JobType] /\ resetLock \in [Seasons -> Workers \cup {NoWorker}]
    BY DEF Queues
<1> DEFINE LockOK == resetLock' \in [Seasons -> Workers \cup {NoWorker}]
           Fine == jobs' \in [JobIds -> JobType] /\ LockOK
<1>2. jobs' = jobs => jobs' \in [JobIds -> JobType]
    BY <1>1
<1>3. resetLock' = resetLock => LockOK
    BY <1>1
<1>4. ASSUME UNCHANGED vars PROVE Fine
    BY <1>2, <1>3, <1>4 DEF vars, seasonVars
<1>5. ASSUME NEW w \in Workers, StepFails(w) PROVE Fine
    <2>1. resetLock' = resetLock /\ (jobs' = jobs \/ Settle(w, "error"))
        BY <1>5 DEF StepFails, seasonVars
    <2> QED BY <1>1, <1>2, <1>3, <2>1, SettleJobs
<1>6. ASSUME NEW w \in Workers, Stalls(w) PROVE Fine
    <2>1. resetLock' = resetLock
        BY <1>6 DEF Stalls, seasonVars
    <2> QED BY <1>1, <1>3, <1>6, <2>1, StallJobs
<1>7. ASSUME NEW w \in Workers, NEW j \in JobIds, createWorker(w, j) PROVE Fine
    <2>1. resetLock' = resetLock /\ jobs' = [jobs EXCEPT ![j].state = "active"]
        BY <1>7 DEF createWorker, seasonVars
    <2> QED BY <1>1, <1>3, <2>1, StateJobs
<1>8. ASSUME (\E m \in Matches : publishMatchEnded(m)) \/ CronFires \/ enqueueSeasonReset \/ EnqueueFails
      PROVE  Fine
    <2>1. resetLock' = resetLock
        BY <1>8 DEF publishMatchEnded, CronFires, enqueueSeasonReset, EnqueueFails, seasonVars
    <2>2. jobs' = jobs \/ \E j, attempts : attempts \in 0..3 /\ add(j, attempts)
        BY <1>8 DEF publishMatchEnded, CronFires, enqueueSeasonReset, EnqueueFails
    <2> QED BY <1>1, <1>2, <1>3, <2>1, <2>2, AddJobs
<1>9. ASSUME NEW s \in Seasons, createSeason(s) \/ SeasonExpires(s) \/ closeSeason(s) PROVE Fine
    BY <1>2, <1>3, <1>9 DEF createSeason, SeasonExpires, closeSeason
<1>10. ASSUME NEW s \in Seasons, LockExpires(s) PROVE Fine
    <2>1. jobs' = jobs /\ resetLock' = [resetLock EXCEPT ![s] = NoWorker]
        BY <1>10 DEF LockExpires
    <2> QED BY <1>1, <2>1
<1>11. ASSUME Rollback \/ ReadBoard \/ FillCache \/ CacheExpires \/ invalidateLeaderboardCache
       PROVE  Fine
    BY <1>2, <1>3, <1>11 DEF Rollback, ReadBoard, FillCache, CacheExpires, invalidateLeaderboardCache,
       seasonVars
<1>12. ASSUME NEW w \in Workers,
              PersistRead(w) \/ PersistCommit(w) \/ CloseExpired(w) \/ CountStandings(w) \/ ReadRatings(w)
              \/ archiveStandingsAndSoftReset(w)
       PROVE  Fine
    BY <1>2, <1>3, <1>12 DEF PersistRead, PersistCommit, CloseExpired, CountStandings, ReadRatings,
       archiveStandingsAndSoftReset, seasonVars
<1>13. ASSUME NEW w \in Workers,
              CountActive(w) \/ activateNextSeasonIfNeeded(w) \/ FetchBatch(w)
              \/ enqueueSeasonRewardMail(w) \/ MarkRewarded(w)
       PROVE  Fine
    BY <1>2, <1>3, <1>13 DEF CountActive, activateNextSeasonIfNeeded, FetchBatch,
       enqueueSeasonRewardMail, MarkRewarded, seasonVars
<1>14. ASSUME NEW w \in Workers, Invalidate(w) PROVE Fine
    <2>1. resetLock' = resetLock /\ Settle(w, "ok")
        BY <1>14 DEF Invalidate, seasonVars
    <2> QED BY <1>1, <1>3, <2>1, SettleJobs
<1>15. ASSUME NEW w \in Workers, resolveSeason(w) PROVE Fine
    <2>1. resetLock' = resetLock
        BY <1>15 DEF resolveSeason, seasonVars
    <2>2. \/ jobs' = jobs \/ Settle(w, "ok")
          \/ jobs' = [jobs EXCEPT ![work[w].job].state = "failed"]
        <3> DEFINE s == work[w].job[2]
        <3>1. CASE s # NoSeason
            BY <1>15, <3>1 DEF resolveSeason
        <3>2. CASE s = NoSeason /\ pendingResets # {}
            BY <1>15, <3>2 DEF resolveSeason
        <3>3. CASE s = NoSeason /\ pendingResets = {} /\ expiredActive # {}
            BY <1>15, <3>3 DEF resolveSeason
        <3>4. CASE s = NoSeason /\ pendingResets = {} /\ expiredActive = {}
            BY <1>15, <3>4 DEF resolveSeason
        <3> QED BY <3>1, <3>2, <3>3, <3>4
    <2> QED BY <1>1, <1>2, <1>3, <2>1, <2>2, SettleJobs, StateJobs
<1>16. ASSUME NEW w \in Workers, acquire(w) PROVE Fine
    <2>1. \/ resetLock' = [resetLock EXCEPT ![work[w].season] = w] /\ jobs' = jobs
          \/ resetLock' = resetLock /\ Settle(w, "error")
        BY <1>16 DEF acquire
    <2> QED BY <1>1, <1>2, <1>3, <2>1, SettleJobs
<1>17. ASSUME NEW w \in Workers, release(w) PROVE Fine
    <2> DEFINE s == work[w].season
    <2>1. /\ resetLock' = [resetLock EXCEPT ![s] = IF resetLock[s] = w THEN NoWorker ELSE resetLock[s]]
          /\ jobs' = jobs \/ Settle(w, "error")
        BY <1>17 DEF release
    <2>2. LockOK
        BY <1>1, <2>1
    <2> QED BY <1>1, <1>2, <2>1, <2>2, SettleJobs
<1>18. Fine
    BY <1>4, <1>5, <1>6, <1>7, <1>8, <1>9, <1>10, <1>11, <1>12, <1>13, <1>14, <1>15, <1>16, <1>17,
       <1>2, <1>3 DEF Next, WorkerStep
<1> QED BY <1>18 DEF Queues

-----------------------------------------------------------------------------
(* The leaderboard. *)

\* Expected scores are numbers of thousandths.
Curve == \A d \in Int : getExpectedScore(d) \in Int

LEMMA EloIsWhole ==
    ASSUME Curve, NEW a \in EntryType, NEW b \in EntryType, NEW outcome \in {"A", "B", "DRAW"}
    PROVE  computeElo(a, b, outcome).A \in Int /\ computeElo(a, b, outcome).B \in Int
<1> DEFINE e == getExpectedScore(a.rating - b.rating)
           s == getScore(outcome)
           ka == getKFactor(a)
           kb == getKFactor(b)
<1>1. e \in Int
    BY DEF Curve, EntryType
<1>2. s \in Int
    BY DEF getScore
<1>3. ka \in Int /\ kb \in Int
    BY DEF getKFactor
<1>4. computeElo(a, b, outcome) = [A |-> Round(ka * (s - e)), B |-> Round(kb * ((1000 - s) - (1000 - e)))]
    BY DEF computeElo
<1> HIDE DEF e, s, ka, kb
<1> DEFINE x == ka * (s - e)
           y == kb * ((1000 - s) - (1000 - e))
<1>5. x \in Int /\ y \in Int
    BY <1>1, <1>2, <1>3
<1> HIDE DEF x, y
<1>6. Round(x) \in Int /\ Round(y) \in Int
    BY <1>5 DEF Round
<1> QED BY <1>4, <1>6 DEF x, y

LEMMA EloSteps ==
    ASSUME Curve, Inv, Reads, elo \in Snapshot, [Next]_vars
    PROVE  elo' \in Snapshot
<1>1. CASE elo' = elo
    BY <1>1
<1>2. ASSUME NEW w \in Workers, PersistCommit(w), elo' # elo PROVE elo' \in Snapshot
    <2> DEFINE m == MatchOf(w)
               a == Sides[m][1]
               b == Sides[m][2]
               read == work[w].read
    <2>1. m \in Matches
        BY <1>2 DEF Inv, WorkersOK, WorkerOK, PersistCommit, At, MatchOf
    <2>2. a \in Players /\ b \in Players
        BY <2>1, LadderAssumption
    <2>3. read \in Snapshot
        BY <1>2 DEF Reads, Loaded, PersistCommit, At
    <2>4. PICK outcome \in scenario.outcomes :
             elo' = [elo EXCEPT
                ![a] = [rating |-> read[a].rating + computeElo(read[a], read[b], outcome).A,
                        games |-> @.games + 1],
                ![b] = [rating |-> read[b].rating + computeElo(read[a], read[b], outcome).B,
                        games |-> @.games + 1]]
        BY <1>2 DEF PersistCommit
    <2>5. outcome \in {"A", "B", "DRAW"}
        BY <2>4 DEF Inv, RatingsOK
    <2>6. read[a] \in EntryType /\ read[b] \in EntryType
        BY <2>2, <2>3 DEF Snapshot
    <2> DEFINE ra == read[a].rating + computeElo(read[a], read[b], outcome).A
               rb == read[b].rating + computeElo(read[a], read[b], outcome).B
    <2>7. ra \in Int /\ rb \in Int
        BY <2>5, <2>6, EloIsWhole DEF EntryType
    <2>8. elo' = [elo EXCEPT ![a] = [rating |-> ra, games |-> @.games + 1],
                             ![b] = [rating |-> rb, games |-> @.games + 1]]
        BY <2>4
    <2> HIDE DEF ra, rb, a, b
    <2> QED BY <2>2, <2>7, <2>8 DEF Snapshot, EntryType
<1>3. ASSUME NEW w \in Workers, archiveStandingsAndSoftReset(w), elo' # elo PROVE elo' \in Snapshot
    <2> DEFINE read == work[w].read
               r(p) == softResetRating(read[p].rating)
    <2>1. read \in Snapshot
        BY <1>3 DEF Reads, Loaded, archiveStandingsAndSoftReset, At
    <2>2. elo' = [p \in Players |-> [rating |-> r(p), games |-> 0]]
        BY <1>3 DEF archiveStandingsAndSoftReset
    <2>3. \A p \in Players : r(p) \in Int
        BY <2>1 DEF Snapshot, EntryType, softResetRating, Round
    <2> HIDE DEF r
    <2> QED BY <2>2, <2>3 DEF Snapshot, EntryType
<1>4. ASSUME NEW w \in Workers, MarkRewarded(w) PROVE elo' = elo
    BY <1>4 DEF MarkRewarded, ratingVars
<1> QED BY <1>1, <1>2, <1>3, <1>4, NextTables DEF Inv, Tables

\* The cache and its reader change only by the reads of the leaderboard.
LEMMA NextBoard ==
    ASSUME [Next]_vars
    PROVE  \/ UNCHANGED <<cache, reader>>
           \/ ReadBoard \/ FillCache \/ CacheExpires \/ invalidateLeaderboardCache
<1>1. CASE UNCHANGED vars
    BY <1>1 DEF vars, boardVars
<1>2. ASSUME NEW w \in Workers, StepFails(w) \/ Stalls(w) PROVE UNCHANGED <<cache, reader>>
    BY <1>2 DEF StepFails, Stalls, boardVars
<1>3. ASSUME NEW w \in Workers, NEW j \in JobIds, createWorker(w, j) PROVE UNCHANGED <<cache, reader>>
    BY <1>3 DEF createWorker, boardVars
<1>4. CASE (\E m \in Matches : publishMatchEnded(m)) \/ CronFires \/ enqueueSeasonReset \/ EnqueueFails
           \/ Rollback
    BY <1>4 DEF publishMatchEnded, CronFires, enqueueSeasonReset, EnqueueFails, Rollback, boardVars
<1>5. ASSUME NEW s \in Seasons, createSeason(s) \/ SeasonExpires(s) \/ closeSeason(s) \/ LockExpires(s)
      PROVE  UNCHANGED <<cache, reader>>
    BY <1>5 DEF createSeason, SeasonExpires, closeSeason, LockExpires, boardVars
<1>6. ASSUME NEW w \in Workers,
             PersistRead(w) \/ PersistCommit(w) \/ Invalidate(w) \/ resolveSeason(w) \/ CloseExpired(w)
             \/ acquire(w) \/ CountStandings(w) \/ ReadRatings(w)
      PROVE  UNCHANGED <<cache, reader>>
    BY <1>6 DEF PersistRead, PersistCommit, Invalidate, resolveSeason, CloseExpired, acquire,
       CountStandings, ReadRatings, boardVars
<1>7. ASSUME NEW w \in Workers,
             archiveStandingsAndSoftReset(w) \/ CountActive(w) \/ activateNextSeasonIfNeeded(w)
             \/ FetchBatch(w) \/ enqueueSeasonRewardMail(w) \/ MarkRewarded(w) \/ release(w)
      PROVE  UNCHANGED <<cache, reader>>
    BY <1>7 DEF archiveStandingsAndSoftReset, CountActive, activateNextSeasonIfNeeded, FetchBatch,
       enqueueSeasonRewardMail, MarkRewarded, release, boardVars
<1> QED BY <1>1, <1>2, <1>3, <1>4, <1>5, <1>6, <1>7 DEF Next, WorkerStep

LEMMA BoardSteps ==
    ASSUME Curve, Inv, Reads, Board, [Next]_vars
    PROVE  Board'
<1>1. elo' \in Snapshot
    BY EloSteps DEF Board
<1>2. cache' \in Snapshot \cup {Empty} /\ reader' \in Snapshot \cup {Empty}
    BY NextBoard DEF Board, ReadBoard, FillCache, CacheExpires, invalidateLeaderboardCache
<1> QED BY <1>1, <1>2 DEF Board

-----------------------------------------------------------------------------
(* What the workers read. *)

\* A worker that is about to mark a standing is so already, or has just queued the mail.
Marking(w, k) ==
    \/ enqueueSeasonRewardMail(w) /\ k.batch = work[w].batch /\ k.season = work[w].season
    \/ work[w].pc = "mark" /\ k.batch = work[w].batch /\ k.season = work[w].season
Loads(w, k) == work' = [work EXCEPT ![w] = k] /\ Loaded(k) /\ (k.pc = "mark" => Marking(w, k))
Reading == {"commit", "archive", "activate", "enqueue", "mark"}

LEMMA PlainLoads ==
    ASSUME NEW w, NEW k, work' = [work EXCEPT ![w] = k], k.pc \notin Reading
    PROVE  \E l : Loads(w, l)
BY DEF Loads, Loaded, Reading

LEMMA SettleLoads ==
    ASSUME NEW w, NEW outcome, Settle(w, outcome)
    PROVE  \E l : Loads(w, l)
<1>1. Idle.pc \notin Reading
    BY DEF Idle, Reading
<1> QED BY <1>1, PlainLoads DEF Settle

LEMMA GotoLoads ==
    ASSUME WorkersOK, NEW w \in Workers, NEW pc, pc \notin Reading,
           \/ Goto(w, pc)
           \/ \E x : work' = [work EXCEPT ![w].pc = pc, ![w].read = x]
           \/ \E x : work' = [work EXCEPT ![w].pc = pc, ![w].season = x]
           \/ \E x : work' = [work EXCEPT ![w].pc = pc, ![w].ok = x]
    PROVE  \E l : Loads(w, l)
<1> DEFINE j == work[w]
<1>1. DOMAIN j = Fields /\ DOMAIN work = Workers
    BY DEF WorkersOK, WorkerOK
<1>2. CASE Goto(w, pc)
    <2> DEFINE k == [j EXCEPT !.pc = pc]
    <2>1. work' = [work EXCEPT ![w] = k] /\ k.pc = pc
        BY <1>1, <1>2 DEF Goto, Fields
    <2> HIDE DEF k
    <2> QED BY <2>1, PlainLoads
<1>3. ASSUME NEW x, work' = [work EXCEPT ![w].pc = pc, ![w].read = x] PROVE \E l : Loads(w, l)
    <2> DEFINE k == [j EXCEPT !.pc = pc, !.read = x]
    <2>1. work' = [work EXCEPT ![w] = k] /\ k.pc = pc
        BY <1>1, <1>3 DEF Fields
    <2> HIDE DEF k
    <2> QED BY <2>1, PlainLoads
<1>4. ASSUME NEW x, work' = [work EXCEPT ![w].pc = pc, ![w].season = x] PROVE \E l : Loads(w, l)
    <2> DEFINE k == [j EXCEPT !.pc = pc, !.season = x]
    <2>1. work' = [work EXCEPT ![w] = k] /\ k.pc = pc
        BY <1>1, <1>4 DEF Fields
    <2> HIDE DEF k
    <2> QED BY <2>1, PlainLoads
<1>5. ASSUME NEW x, work' = [work EXCEPT ![w].pc = pc, ![w].ok = x] PROVE \E l : Loads(w, l)
    <2> DEFINE k == [j EXCEPT !.pc = pc, !.ok = x]
    <2>1. work' = [work EXCEPT ![w] = k] /\ k.pc = pc
        BY <1>1, <1>5 DEF Fields
    <2> HIDE DEF k
    <2> QED BY <2>1, PlainLoads
<1> QED BY <1>2, <1>3, <1>4, <1>5

LEMMA PersistLoads ==
    ASSUME WorkersOK, elo \in Snapshot, NEW w \in Workers,
           PersistRead(w) \/ PersistCommit(w) \/ ReadRatings(w)
    PROVE  \E l : Loads(w, l)
<1> DEFINE j == work[w]
<1>1. DOMAIN j = Fields /\ DOMAIN work = Workers
    BY DEF WorkersOK, WorkerOK
<1>2. ASSUME NEW pc \in {"commit", "archive"}, work' = [work EXCEPT ![w].pc = pc, ![w].read = elo]
      PROVE  \E l : Loads(w, l)
    <2> DEFINE k == [j EXCEPT !.pc = pc, !.read = elo]
    <2>1. work' = [work EXCEPT ![w] = k] /\ k.pc = pc /\ k.read = elo
        BY <1>1, <1>2 DEF Fields
    <2> HIDE DEF k
    <2> QED BY <1>2, <2>1 DEF Loads, Loaded
<1>3. CASE PersistRead(w)
    <2>1. Goto(w, "invalidate") \/ work' = [work EXCEPT ![w].pc = "commit", ![w].read = elo]
        BY <1>3 DEF PersistRead
    <2>2. "invalidate" \notin Reading
        BY DEF Reading
    <2>3. CASE Goto(w, "invalidate")
        BY <2>2, <2>3, GotoLoads
    <2> QED BY <1>2, <2>1, <2>3
<1>4. CASE PersistCommit(w)
    <2>1. work' = [work EXCEPT ![w].pc = "invalidate", ![w].read = Empty]
        BY <1>4 DEF PersistCommit
    <2>2. "invalidate" \notin Reading
        BY DEF Reading
    <2> QED BY <2>1, <2>2, GotoLoads
<1>5. CASE ReadRatings(w)
    BY <1>2, <1>5 DEF ReadRatings
<1> QED BY <1>3, <1>4, <1>5

LEMMA ResolveLoads ==
    ASSUME WorkersOK, NEW w \in Workers, resolveSeason(w)
    PROVE  \E l : Loads(w, l)
<1> DEFINE s == work[w].job[2]
<1>1. \/ \E x : work' = [work EXCEPT ![w].pc = "lock", ![w].season = x]
      \/ \E x : work' = [work EXCEPT ![w].pc = "close", ![w].season = x]
      \/ work' = [work EXCEPT ![w] = Idle]
    <2>1. CASE s # NoSeason
        BY <2>1 DEF resolveSeason
    <2>2. CASE s = NoSeason /\ pendingResets # {}
        BY <2>2 DEF resolveSeason
    <2>3. CASE s = NoSeason /\ pendingResets = {} /\ expiredActive # {}
        BY <2>3 DEF resolveSeason
    <2>4. CASE s = NoSeason /\ pendingResets = {} /\ expiredActive = {}
        BY <2>4 DEF resolveSeason, Settle
    <2> QED BY <2>1, <2>2, <2>3, <2>4
<1>2. Idle.pc \notin Reading /\ "lock" \notin Reading /\ "close" \notin Reading
    BY DEF Idle, Reading
<1>3. CASE work' = [work EXCEPT ![w] = Idle]
    BY <1>2, <1>3, PlainLoads
<1>4. CASE \E x : work' = [work EXCEPT ![w].pc = "lock", ![w].season = x]
    BY <1>2, <1>4, GotoLoads
<1>5. CASE \E x : work' = [work EXCEPT ![w].pc = "close", ![w].season = x]
    BY <1>2, <1>5, GotoLoads
<1> QED BY <1>1, <1>3, <1>4, <1>5

LEMMA ResetLoads ==
    ASSUME WorkersOK, Reads, NEW w \in Workers, ResetStep(w), ~ReadRatings(w)
    PROVE  \E l : Loads(w, l)
<1> DEFINE j == work[w]
           s == j.season
<1>1. DOMAIN j = Fields /\ DOMAIN work = Workers /\ Loaded(j)
    BY DEF WorkersOK, WorkerOK, Reads
<1>2. ASSUME NEW pc \in {"lock", "count", "countActive", "snapshot", "mails", "invalidate", "release"}
      PROVE  pc \notin Reading
    BY <1>2 DEF Reading
<1>3. ASSUME NEW pc \in {"lock", "count", "countActive", "snapshot", "mails", "invalidate"}, Goto(w, pc)
      PROVE  \E l : Loads(w, l)
    BY <1>2, <1>3, GotoLoads
<1>4. ASSUME ThrowLocked(w) PROVE \E l : Loads(w, l)
    <2>1. work' = [work EXCEPT ![w].pc = "release", ![w].ok = FALSE]
        BY <1>4 DEF ThrowLocked
    <2> QED BY <1>2, <2>1, GotoLoads
<1>5. CASE CloseExpired(w)
    BY <1>3, <1>5 DEF CloseExpired
<1>6. CASE acquire(w)
    BY <1>3, <1>6, SettleLoads DEF acquire
<1>7. CASE CountStandings(w)
    BY <1>3, <1>7 DEF CountStandings
<1>8. CASE archiveStandingsAndSoftReset(w)
    <2>1. ThrowLocked(w) \/ work' = [work EXCEPT ![w].pc = "countActive", ![w].read = Empty]
        BY <1>8 DEF archiveStandingsAndSoftReset
    <2>2. CASE work' = [work EXCEPT ![w].pc = "countActive", ![w].read = Empty]
        BY <1>2, <2>2, GotoLoads
    <2> QED BY <1>4, <2>1, <2>2
<1>9. CASE CountActive(w)
    <2> DEFINE x == CHOOSE t \in Upcoming : \A u \in Upcoming : t <= u
               k == [j EXCEPT !.pc = "activate", !.next = x]
    <2>1. \/ Goto(w, "mails")
          \/ Upcoming # {} /\ work' = [work EXCEPT ![w].pc = "activate", ![w].next = x]
        BY <1>9 DEF CountActive
    <2>2. Upcoming # {} => x \in Seasons
        <3>1. Upcoming \in SUBSET Nat /\ Upcoming \subseteq Seasons
            BY LadderAssumption DEF Upcoming, Seasons
        <3> QED BY <3>1, LeastNumber
    <2> HIDE DEF x
    <2>3. k.pc = "activate" /\ k.next = x
        BY <1>1 DEF Fields
    <2>4. Goto(w, "mails") \/ (Upcoming # {} /\ work' = [work EXCEPT ![w] = k])
        BY <1>1, <2>1
    <2> HIDE DEF k
    <2>5. CASE Upcoming # {} /\ work' = [work EXCEPT ![w] = k]
        BY <2>2, <2>3, <2>5 DEF Loads, Loaded
    <2> QED BY <1>3, <2>4, <2>5
<1>10. CASE activateNextSeasonIfNeeded(w)
    BY <1>3, <1>4, <1>10 DEF activateNextSeasonIfNeeded
<1>11. CASE FetchBatch(w)
    <2>1. PICK batch \in SUBSET Undistributed(s) :
            work' = [work EXCEPT ![w].pc = IF batch = {} THEN "release" ELSE "enqueue",
                                 ![w].batch = batch, ![w].size = Cardinality(batch)]
        BY <1>11 DEF FetchBatch
    <2> DEFINE size == Cardinality(batch)
               pc == IF batch = {} THEN "release" ELSE "enqueue"
               k == [j EXCEPT !.pc = pc, !.batch = batch, !.size = size]
    <2>2. pc \in {"release", "enqueue"} /\ (pc = "enqueue" => batch # {}) /\ batch \subseteq Players
        BY DEF Undistributed
    <2>3. work' = [work EXCEPT ![w] = k]
        BY <1>1, <2>1
    <2> HIDE DEF pc, size
    <2>4. k.pc = pc /\ k.batch = batch
        BY <1>1 DEF Fields
    <2> HIDE DEF k
    <2> QED BY <2>2, <2>3, <2>4 DEF Loads, Loaded
<1>12. CASE enqueueSeasonRewardMail(w)
    <2> DEFINE k == [j EXCEPT !.pc = "mark"]
    <2>1. work' = [work EXCEPT ![w] = k] /\ j.pc = "enqueue"
        BY <1>12 DEF enqueueSeasonRewardMail, Goto, At
    <2>2. k.pc = "mark" /\ k.season = s /\ k.batch = j.batch
        BY <1>1 DEF Fields
    <2> HIDE DEF k
    <2> QED BY <1>1, <1>12, <2>1, <2>2 DEF Loads, Loaded, Marking
<1>13. CASE MarkRewarded(w)
    <2> DEFINE rest == j.batch \ {Current(w)}
               full == j.size = MAIL_BATCH_SIZE
               pc == CASE rest # {} -> "enqueue"
                       [] rest = {} /\ full -> "mails"
                       [] OTHER -> "release"
               k == [j EXCEPT !.batch = rest, !.pc = pc]
    <2>1. work' = [work EXCEPT ![w] = k] /\ j.pc = "mark"
        BY <1>1, <1>13 DEF MarkRewarded, At
    <2>2. pc \in {"enqueue", "mails", "release"} /\ (pc = "enqueue" => rest # {})
        OBVIOUS
    <2>3. rest \subseteq Players
        BY <1>1, <2>1 DEF Loaded
    <2> HIDE DEF pc, rest
    <2>4. k.pc = pc /\ k.batch = rest
        BY <1>1 DEF Fields
    <2> HIDE DEF k
    <2> QED BY <2>1, <2>2, <2>3, <2>4 DEF Loads, Loaded
<1>14. CASE release(w)
    BY <1>3, <1>14, SettleLoads DEF release
<1> QED BY <1>5, <1>6, <1>7, <1>8, <1>9, <1>10, <1>11, <1>12, <1>13, <1>14 DEF ResetStep

LEMMA FaultLoads ==
    ASSUME WorkersOK, Reads, NEW w \in Workers, StepFails(w) \/ Stalls(w)
    PROVE  \E l : Loads(w, l)
<1> DEFINE j == work[w]
<1>1. DOMAIN j = Fields /\ DOMAIN work = Workers /\ Loaded(j)
    BY DEF WorkersOK, WorkerOK, Reads
<1>2. CASE StepFails(w)
    <2>1. work' = [work EXCEPT ![w].pc = "release", ![w].ok = FALSE] \/ Settle(w, "error")
        BY <1>2 DEF StepFails, ThrowLocked
    <2>2. "release" \notin Reading
        BY DEF Reading
    <2> QED BY <2>1, <2>2, SettleLoads, GotoLoads
<1>3. CASE Stalls(w)
    <2> DEFINE k == [j EXCEPT !.owner = FALSE]
    <2>1. work' = [work EXCEPT ![w] = Idle] \/ work' = [work EXCEPT ![w] = k]
        BY <1>1, <1>3 DEF Stalls
    <2>2. /\ k.pc = j.pc /\ k.season = j.season /\ k.batch = j.batch /\ k.read = j.read
          /\ k.next = j.next
        BY <1>1 DEF Fields
    <2> HIDE DEF k
    <2>3. Loaded(k) /\ (k.pc = "mark" => Marking(w, k))
        BY <1>1, <2>2 DEF Loaded, Marking
    <2>4. Idle.pc \notin Reading
        BY DEF Idle, Reading
    <2>5. CASE work' = [work EXCEPT ![w] = Idle]
        BY <2>4, <2>5, PlainLoads
    <2> QED BY <2>1, <2>3, <2>5 DEF Loads
<1> QED BY <1>2, <1>3

LEMMA NextLoads ==
    ASSUME WorkersOK, Reads, elo \in Snapshot, [Next]_vars
    PROVE  work' = work \/ \E w \in Workers : \E l : Loads(w, l)
<1>1. CASE UNCHANGED vars
    BY <1>1 DEF vars
<1>2. ASSUME NEW w \in Workers, WorkerStep(w) \/ StepFails(w) \/ Stalls(w)
      PROVE  \E l : Loads(w, l)
    <2>1. CASE Invalidate(w)
        BY <2>1, SettleLoads DEF Invalidate
    <2>2. CASE ReadRatings(w)
        BY <2>2, PersistLoads
    <2> QED BY <1>2, <2>1, <2>2, PersistLoads, ResolveLoads, ResetLoads, FaultLoads
        DEF WorkerStep, ResetStep
<1>3. ASSUME NEW w \in Workers, NEW j \in JobIds, createWorker(w, j)
      PROVE  \E l : Loads(w, l)
    <2> DEFINE pc == IF j[1] = "match-ended" THEN "persist" ELSE "resolve"
               k == [Idle EXCEPT !.pc = pc, !.job = j, !.owner = TRUE]
    <2>1. work' = [work EXCEPT ![w] = k] /\ pc \notin Reading
        BY <1>3 DEF createWorker, Reading
    <2> HIDE DEF pc
    <2>2. k.pc = pc
        BY DEF Idle
    <2> HIDE DEF k
    <2> QED BY <2>1, <2>2, PlainLoads
<1>4. CASE \E m \in Matches : publishMatchEnded(m)
    BY <1>4 DEF publishMatchEnded
<1>5. CASE \E s \in Seasons : createSeason(s) \/ SeasonExpires(s) \/ closeSeason(s) \/ LockExpires(s)
    BY <1>5 DEF createSeason, SeasonExpires, closeSeason, LockExpires
<1>6. CASE CronFires \/ enqueueSeasonReset \/ EnqueueFails \/ Rollback
    BY <1>6 DEF CronFires, enqueueSeasonReset, EnqueueFails, Rollback
<1>7. CASE ReadBoard \/ FillCache \/ CacheExpires \/ invalidateLeaderboardCache
    BY <1>7 DEF ReadBoard, FillCache, CacheExpires, invalidateLeaderboardCache
<1> QED BY <1>1, <1>2, <1>3, <1>4, <1>5, <1>6, <1>7 DEF Next

\* What each worker holds after a step.
LEMMA WorkerLoads ==
    ASSUME WorkersOK, Reads, elo \in Snapshot, [Next]_vars, NEW w \in Workers
    PROVE  /\ Loaded(work'[w])
           /\ work'[w].pc = "mark" => Marking(w, work'[w])
<1>1. DOMAIN work = Workers /\ Loaded(work[w])
    BY DEF WorkersOK, Reads
<1>2. CASE work'[w] = work[w]
    BY <1>1, <1>2 DEF Marking
<1>3. ASSUME NEW v \in Workers, NEW l, Loads(v, l)
      PROVE  work'[w] = work[w] \/ (v = w /\ work'[w] = l)
    BY <1>1, <1>3 DEF Loads
<1>4. work'[w] = work[w] \/ Loads(w, work'[w])
    BY <1>3, NextLoads
<1> QED BY <1>2, <1>4 DEF Loads

-----------------------------------------------------------------------------
(* Ranks and reward mails. *)

\* The best rank that is left, and that it does not depend on anything else.
Best(s, batch, p) == p \in batch /\ \A q \in batch : Rank(s, p) <= Rank(s, q)

First(lines, batch) == CHOOSE p \in batch : \A q \in batch : lines[p].rank <= lines[q].rank

LEMMA FirstIsLeast ==
    ASSUME NEW lines, NEW batch, batch # {}, \A p \in batch : lines[p].rank \in Nat
    PROVE  /\ First(lines, batch) \in batch
           /\ \A q \in batch : lines[First(lines, batch)].rank <= lines[q].rank
<1> DEFINE ranks == {lines[p].rank : p \in batch}
<1>1. ranks \in SUBSET Nat /\ ranks # {}
    OBVIOUS
<1>2. PICK n \in ranks : \A m \in ranks : n <= m
    BY <1>1, LeastNumber
<1>3. PICK p \in batch : n = lines[p].rank
    BY <1>2
<1>4. \A q \in batch : lines[p].rank <= lines[q].rank
    BY <1>2, <1>3
<1> QED BY <1>4 DEF First

LEMMA CurrentIsFirst == \A w \in Workers : Current(w) = First(standing[work[w].season], work[w].batch)
BY DEF Current, First

LEMMA BestIsUnique ==
    ASSUME Ranked, NEW s \in Seasons, Archived(s), NEW batch \in SUBSET Players, NEW p, NEW q,
           Best(s, batch, p), Best(s, batch, q)
    PROVE  p = q
<1>1. Rank(s, p) \in Nat /\ Rank(s, q) \in Nat /\ Rank(s, p) <= Rank(s, q) /\ Rank(s, q) <= Rank(s, p)
    BY DEF Best, Ranked
<1>2. Rank(s, p) = Rank(s, q)
    BY <1>1
<1> QED BY <1>2 DEF Best, Ranked

\* The ranks of a season that is archived now, and who of it is rewarded.
LEMMA NewStanding ==
    ASSUME Inv, Reads, NEW w \in Workers, archiveStandingsAndSoftReset(w), standing' # standing,
           NEW s \in Seasons, ~Archived(s), Archived(s)'
    PROVE  /\ \A p \in Players : Rank(s, p)' \in Nat /\ \A q \in Players : Rank(s, p)' = Rank(s, q)' => p = q
           /\ \A p \in Players : standing'[s][p].rewarded = FALSE
<1> DEFINE read == work[w].read
           final(p) == read[p].rating
           league(p) == getLeagueForRating(final(p))
<1>1. PICK rank \in Rankings(read) :
         standing' = [standing EXCEPT ![work[w].season] = [p \in Players |->
            [finalRating |-> final(p), rank |-> rank[p], league |-> league(p), rewarded |-> FALSE]]]
    BY DEF archiveStandingsAndSoftReset
<1> HIDE DEF final, league
<1>2. s = work[w].season
    BY <1>1 DEF Inv, StandingsOK, Archived
<1>3. \A p \in Players : standing'[s][p].rank = rank[p] /\ standing'[s][p].rewarded = FALSE
    BY <1>1, <1>2 DEF Inv, StandingsOK
<1>4. DOMAIN read = Players
    BY DEF Reads, Loaded, archiveStandingsAndSoftReset, At, Snapshot
<1>5. Cardinality(Players) \in Nat
    BY LadderAssumption, FS_CardinalityType
<1>6. \A p \in Players : rank[p] \in 1..Cardinality(Players) /\ \A q \in Players : rank[p] = rank[q] => p = q
    BY <1>1, <1>4 DEF Rankings
<1>7. \A p \in Players : rank[p] \in Nat
    BY <1>5, <1>6
<1> QED BY <1>3, <1>6, <1>7 DEF Rank

\* A season is archived by one step only.
LEMMA NewlyArchived ==
    ASSUME Inv, [Next]_vars, NEW s \in Seasons, ~Archived(s), Archived(s)'
    PROVE  standing' # standing /\ \E w \in Workers : archiveStandingsAndSoftReset(w)
<1>1. standing' # standing
    BY DEF Archived
<1>2. ASSUME NEW w \in Workers, MarkRewarded(w) PROVE FALSE
    <2>1. work[w].season \in Seasons /\ Archived(work[w].season)
        BY <1>2 DEF Inv, WorkersOK, WorkerOK, MarkRewarded, At, ArchivedSeasons
    <2>2. standing'[s] = standing[s]
        BY <1>2, <2>1 DEF MarkRewarded, Inv, StandingsOK
    <2> QED BY <2>2 DEF Archived
<1>3. ASSUME NEW w \in Workers, PersistCommit(w) PROVE standing' = standing
    BY <1>3 DEF PersistCommit, seasonVars
<1> QED BY <1>1, <1>2, <1>3, NextTables DEF Inv, Tables

LEMMA RankedSteps ==
    ASSUME Inv, Reads, Ranked, [Next]_vars
    PROVE  Ranked' /\ \A s \in Seasons : Archived(s) =>
                         Archived(s)' /\ \A p \in Players : Rank(s, p)' = Rank(s, p)
<1>1. \A s \in Seasons : Archived(s) =>
         Archived(s)' /\ \A p \in Players : Rank(s, p)' = Rank(s, p)
    BY InvSteps DEF ArchiveAction, Rank, ArchivedSeasons
<1>2. ASSUME NEW s \in Seasons, Archived(s)', ~Archived(s)
      PROVE  \A p \in Players : Rank(s, p)' \in Nat /\ \A q \in Players : Rank(s, p)' = Rank(s, q)' => p = q
    BY <1>2, NewlyArchived, NewStanding
<1>3. ASSUME NEW s \in Seasons, Archived(s)'
      PROVE  \A p \in Players : Rank(s, p)' \in Nat /\ \A q \in Players : Rank(s, p)' = Rank(s, q)' => p = q
    BY <1>1, <1>2, <1>3 DEF Ranked
<1> QED BY <1>1, <1>3 DEF Ranked

\* The queue of mails.
LEMMA NextMails ==
    ASSUME [Next]_vars
    PROVE  mailed' = mailed \/ \E w \in Workers : enqueueSeasonRewardMail(w)
<1>1. CASE UNCHANGED vars
    BY <1>1 DEF vars, seasonVars
<1>2. ASSUME NEW w \in Workers, StepFails(w) \/ Stalls(w) PROVE mailed' = mailed
    BY <1>2 DEF StepFails, Stalls, seasonVars
<1>3. ASSUME NEW w \in Workers, NEW j \in JobIds, createWorker(w, j) PROVE mailed' = mailed
    BY <1>3 DEF createWorker, seasonVars
<1>4. CASE (\E m \in Matches : publishMatchEnded(m)) \/ CronFires \/ enqueueSeasonReset \/ EnqueueFails
           \/ Rollback
    BY <1>4 DEF publishMatchEnded, CronFires, enqueueSeasonReset, EnqueueFails, Rollback, seasonVars
<1>5. ASSUME NEW s \in Seasons, createSeason(s) \/ SeasonExpires(s) \/ closeSeason(s) \/ LockExpires(s)
      PROVE  mailed' = mailed
    BY <1>5 DEF createSeason, SeasonExpires, closeSeason, LockExpires
<1>6. CASE ReadBoard \/ FillCache \/ CacheExpires \/ invalidateLeaderboardCache
    BY <1>6 DEF ReadBoard, FillCache, CacheExpires, invalidateLeaderboardCache, seasonVars
<1>7. ASSUME NEW w \in Workers,
             PersistRead(w) \/ PersistCommit(w) \/ Invalidate(w) \/ resolveSeason(w) \/ CloseExpired(w)
             \/ acquire(w) \/ CountStandings(w) \/ ReadRatings(w)
      PROVE  mailed' = mailed
    BY <1>7 DEF PersistRead, PersistCommit, Invalidate, resolveSeason, CloseExpired, acquire,
       CountStandings, ReadRatings, seasonVars
<1>8. ASSUME NEW w \in Workers,
             archiveStandingsAndSoftReset(w) \/ CountActive(w) \/ activateNextSeasonIfNeeded(w)
             \/ FetchBatch(w) \/ MarkRewarded(w) \/ release(w)
      PROVE  mailed' = mailed
    BY <1>8 DEF archiveStandingsAndSoftReset, CountActive, activateNextSeasonIfNeeded, FetchBatch,
       MarkRewarded, release, seasonVars
<1> QED BY <1>1, <1>2, <1>3, <1>4, <1>5, <1>6, <1>7, <1>8 DEF Next, WorkerStep

\* The mail that is queued is for a player of the season.
LEMMA MailIsQueued ==
    ASSUME Inv, Reads, Ranked, NEW w \in Workers, work[w].pc \in {"enqueue", "mark"}
    PROVE  /\ work[w].season \in Seasons /\ Archived(work[w].season)
           /\ work[w].batch \in SUBSET Players
           /\ Best(work[w].season, work[w].batch, Current(w)) /\ Current(w) \in Players
<1> DEFINE s == work[w].season
<1>1. s \in Seasons /\ Archived(s)
    BY DEF Inv, WorkersOK, WorkerOK, ArchivedSeasons
<1>2. work[w].batch \subseteq Players /\ work[w].batch # {}
    BY DEF Reads, Loaded
<1>3. \A p \in Players : standing[s][p].rank \in Nat
    BY <1>1 DEF Ranked, Rank
<1> DEFINE p == First(standing[s], work[w].batch)
<1>4. p \in work[w].batch /\ \A q \in work[w].batch : standing[s][p].rank <= standing[s][q].rank
    BY <1>2, <1>3, FirstIsLeast
<1>5. Current(w) = p
    BY CurrentIsFirst
<1> HIDE DEF p
<1> QED BY <1>1, <1>2, <1>4, <1>5 DEF Best, Rank

\* A worker that goes on with its batch goes on with the same player.
LEMMA CurrentStays ==
    ASSUME Inv, Reads, Ranked, NEW w \in Workers, work[w].pc \in {"enqueue", "mark"},
           work'[w].season = work[w].season, work'[w].batch = work[w].batch,
           \A s \in Seasons : Archived(s) => \A p \in Players : Rank(s, p)' = Rank(s, p)
    PROVE  Current(w)' = Current(w)
<1>1. PICK s \in Seasons, batch \in SUBSET Players : s = work[w].season /\ batch = work[w].batch
    BY MailIsQueued
<1>2. Archived(s) /\ Best(s, batch, Current(w)) /\ batch # {}
    BY <1>1, MailIsQueued DEF Reads, Loaded
<1>3. \A r \in batch : standing'[s][r].rank = standing[s][r].rank /\ standing[s][r].rank \in Nat
    BY <1>2 DEF Ranked, Rank
<1>4. PICK lines, q : lines = standing'[s] /\ q = First(lines, batch)
    OBVIOUS
<1>5. Current(w)' = q
    BY <1>1, <1>4 DEF Current, First
<1>6. q \in batch /\ \A r \in batch : lines[q].rank <= lines[r].rank
    BY <1>2, <1>3, <1>4, FirstIsLeast
<1>7. Best(s, batch, q)
    BY <1>3, <1>4, <1>6 DEF Best, Rank
<1> QED BY <1>2, <1>5, <1>7, BestIsUnique

LEMMA RewardSteps ==
    ASSUME Inv, Reads, Ranked, Mails, [Next]_vars
    PROVE  RewardedIsMailed'
<1>1. mailed \subseteq mailed'
    BY NextMails DEF enqueueSeasonRewardMail
<1> SUFFICES ASSUME NEW s \in Seasons, Archived(s)', NEW p \in Players, standing'[s][p].rewarded
             PROVE  <<s, p>> \in mailed
    BY <1>1 DEF RewardedIsMailed
<1>2. Archived(s)
    <2> SUFFICES ASSUME ~Archived(s) PROVE FALSE
        OBVIOUS
    <2>1. standing'[s][p].rewarded = FALSE
        BY NewlyArchived, NewStanding
    <2> QED BY <2>1
<1>3. CASE standing'[s] = standing[s]
    BY <1>2, <1>3 DEF Mails, RewardedIsMailed
<1>4. ASSUME NEW w \in Workers, archiveStandingsAndSoftReset(w) PROVE standing'[s] = standing[s]
    BY <1>2, <1>4, ArchiveStanding
<1>5. ASSUME NEW w \in Workers, PersistCommit(w) PROVE standing'[s] = standing[s]
    BY <1>5 DEF PersistCommit, seasonVars
<1>6. ASSUME NEW w \in Workers, MarkRewarded(w) PROVE <<s, p>> \in mailed
    <2>1. PICK t, who : t = work[w].season /\ who = Current(w)
        OBVIOUS
    <2>2. <<t, who>> \in mailed
        BY <1>6, <2>1 DEF Mails, MarkRewarded, At
    <2>3. standing' = [standing EXCEPT ![t][who].rewarded = TRUE]
        BY <1>6, <2>1 DEF MarkRewarded
    <2>4. CASE s = t /\ p = who
        BY <2>2, <2>4
    <2>5. CASE ~(s = t /\ p = who)
        <3>1. standing'[s][p] = standing[s][p]
            BY <1>2, <2>3, <2>5 DEF Inv, StandingsOK
        <3> QED BY <1>2, <3>1 DEF Mails, RewardedIsMailed
    <2> QED BY <2>4, <2>5
<1>7. CASE UNCHANGED Tables
    BY <1>3, <1>7 DEF Tables
<1> QED BY <1>3, <1>4, <1>5, <1>6, <1>7, NextTables DEF Inv

LEMMA MailSteps ==
    ASSUME Inv, Reads, Ranked, Mails, elo \in Snapshot, [Next]_vars
    PROVE  Mails'
<1>1. mailed' \subseteq Seasons \X Players
    <2>1. ASSUME NEW w \in Workers, enqueueSeasonRewardMail(w) PROVE mailed' \subseteq Seasons \X Players
        <3>1. work[w].season \in Seasons /\ Current(w) \in Players
            BY <2>1, MailIsQueued DEF enqueueSeasonRewardMail, At
        <3>2. mailed' = mailed \cup {<<work[w].season, Current(w)>>}
            BY <2>1 DEF enqueueSeasonRewardMail
        <3> QED BY <3>1, <3>2 DEF Mails
    <2> QED BY <2>1, NextMails DEF Mails
<1>2. RewardedIsMailed'
    BY RewardSteps
<1>3. ASSUME NEW w \in Workers, work'[w].pc = "mark"
      PROVE  <<work'[w].season, Current(w)'>> \in mailed'
    <2>1. Marking(w, work'[w])
        BY <1>3, WorkerLoads DEF Inv
    <2>2. work[w].pc \in {"enqueue", "mark"}
        BY <2>1 DEF Marking, enqueueSeasonRewardMail, At
    <2>3. work'[w].season = work[w].season /\ Current(w)' = Current(w)
        <3>1. work'[w].season = work[w].season /\ work'[w].batch = work[w].batch
            BY <2>1 DEF Marking
        <3> QED BY <2>2, <3>1, CurrentStays, RankedSteps
    <2>4. CASE enqueueSeasonRewardMail(w)
        <3>1. mailed' = mailed \cup {<<work[w].season, Current(w)>>}
            BY <2>4 DEF enqueueSeasonRewardMail
        <3> QED BY <2>3, <3>1
    <2>5. CASE work[w].pc = "mark"
        <3>1. <<work[w].season, Current(w)>> \in mailed
            BY <2>5 DEF Mails
        <3>2. mailed \subseteq mailed'
            BY NextMails DEF enqueueSeasonRewardMail
        <3> QED BY <2>3, <3>1, <3>2
    <2> QED BY <2>1, <2>4, <2>5 DEF Marking
<1> QED BY <1>1, <1>2, <1>3 DEF Mails

-----------------------------------------------------------------------------
LEMMA InitTypes == Init => TypeInv
<1> SUFFICES ASSUME Init PROVE TypeInv
    OBVIOUS
<1>1. Inv
    BY InitInv
<1>2. /\ scenario \in Scenarios /\ scenario.elo \in Snapshot
      /\ scenario.seasons \in [Seasons -> {"absent", "upcoming", "active"}]
    BY ScenarioAssumption DEF Init
<1>3. Calendar
    <2>1. /\ season \in [Seasons -> [status : Statuses, over : BOOLEAN]]
          /\ \A s \in Seasons : Status(s) = scenario.seasons[s]
        BY <1>2 DEF Init, Statuses, Status
    <2>2. OneActive
        BY <1>2, <2>1, SingleActiveAssumption DEF OneActive
    <2>3. Complete(updatedAt)
        <3>1. updatedAt = [s \in 1..MaxSeasons |-> s] /\ MaxSeasons \in Nat
            BY LadderAssumption DEF Init, Seasons
        <3> QED BY <3>1 DEF Complete, Seasons
    <2>4. DOMAIN admin = {"pc", "job", "season"} /\ admin.pc = "idle"
        BY DEF Init, NoRequest
    <2> QED BY <2>1, <2>2, <2>3, <2>4 DEF Calendar
<1>4. Queues
    <2>1. [state |-> "none", attempts |-> 0, stalled |-> FALSE] \in JobType
        BY DEF JobType
    <2> QED BY <2>1 DEF Init, Queues
<1>5. Board
    BY <1>2 DEF Init, Board
<1>6. Reads
    BY DEF Init, Reads, Loaded, Idle
<1>7. Ranked /\ RewardedIsMailed
    BY DEF Init, Ranked, RewardedIsMailed, Archived
<1>8. Mails
    BY <1>7 DEF Init, Mails, Idle
<1> QED BY <1>1, <1>3, <1>4, <1>5, <1>6, <1>7, <1>8 DEF TypeInv

LEMMA TypeSteps ==
    ASSUME Curve, TypeInv, [Next]_vars
    PROVE  TypeInv'
<1> USE DEF TypeInv
<1>1. WorkersOK /\ elo \in Snapshot
    BY DEF Inv, Board
<1>2. Inv'
    BY InvSteps
<1>3. Calendar' /\ Queues' /\ Board'
    BY <1>1, CalendarSteps, QueueSteps, BoardSteps
<1>4. Reads'
    BY <1>1, WorkerLoads DEF Reads, Loaded
<1>5. Ranked' /\ Mails'
    BY <1>1, RankedSteps, MailSteps
<1> QED BY <1>2, <1>3, <1>4, <1>5

\* Tables, jobs and locks of the ladder stay well formed, whatever stalls, fails or runs
\* twice: at most one season is active, as activateNextSeasonIfNeeded and the rollback of
\* closeSeason meet the unique index, and the ranks of a standing are distinct.
THEOREM LadderTypeCorrect == Curve => (Spec => []TypeOK)
<1> SUFFICES ASSUME Curve PROVE Spec => []TypeOK
    OBVIOUS
<1>1. TypeInv => TypeOK
    <2> SUFFICES ASSUME TypeInv PROVE TypeOK
        OBVIOUS
    <2>1. Cardinality(Active) <= 1
        <3>1. CASE Active = {}
            BY <3>1, FS_EmptySet
        <3>2. CASE Active # {}
            <4>1. PICK s : s \in Active
                BY <3>2
            <4>2. Active = {s}
                <5>1. OneActive
                    BY DEF TypeInv, Calendar
                <5>2. \A t \in Active : t = s
                    BY <4>1, <5>1 DEF Active, OneActive
                <5> QED BY <4>1, <5>2
            <4>3. Cardinality({s}) = 1
                BY FS_Singleton
            <4> QED BY <4>2, <4>3
        <3> QED BY <3>1, <3>2
    <2>2. \A s \in Seasons : Status(s) \in Statuses
        BY DEF TypeInv, Calendar, Status
    <2>3. ToSet(updatedAt) = Seasons /\ Len(updatedAt) = MaxSeasons
        <3>1. updatedAt \in Seq(Seasons) /\ DOMAIN updatedAt = 1..MaxSeasons /\ Len(updatedAt) = MaxSeasons
            BY DEF TypeInv, Calendar, Complete
        <3>2. \A s \in Seasons : \E i \in 1..MaxSeasons : updatedAt[i] = s
            BY DEF TypeInv, Calendar, Complete
        <3>3. \A i \in 1..MaxSeasons : updatedAt[i] \in Seasons
            BY <3>1
        <3> QED BY <3>1, <3>2, <3>3 DEF ToSet
    <2>4. \A j \in JobIds : /\ jobs[j].state \in {"none", "waiting", "active", "completed", "failed"}
                            /\ jobs[j].attempts \in 0..3
        BY DEF TypeInv, Queues, JobType
    <2>5. \A s \in Seasons : Archived(s) =>
             \A p, q \in Players : standing[s][p].rank = standing[s][q].rank => p = q
        BY DEF TypeInv, Ranked, Rank
    <2> QED BY <2>1, <2>2, <2>3, <2>4, <2>5 DEF TypeOK, TypeInv, Statuses, Queues, Board, Mails
<1>2. TypeInv /\ [Next]_vars => TypeInv'
    BY TypeSteps
<1> QED BY <1>1, <1>2, InitTypes, PTL DEF Spec

\* No reward mail is forgotten: enqueuePendingRewardMails marks a standing only when its mail
\* is on the queue, although two workers may distribute at once and each may stop anywhere.
THEOREM RewardsAreMailed == Curve => (Spec => []RewardedIsMailed)
<1> SUFFICES ASSUME Curve PROVE Spec => []RewardedIsMailed
    OBVIOUS
<1>1. TypeInv => RewardedIsMailed
    BY DEF TypeInv, Mails
<1>2. TypeInv /\ [Next]_vars => TypeInv'
    BY TypeSteps
<1> QED BY <1>1, <1>2, InitTypes, PTL DEF Spec
=============================================================================
