-------------------------------- MODULE Ladder --------------------------------
(***************************************************************************)
(* Ratings and seasons: the match-ended and season-reset processors of     *)
(* job-runner, the admin's season commands and the cached leaderboard of   *)
(* the API, over the shared PostgreSQL tables, Redis and the BullMQ        *)
(* queues.                                                                 *)
(*                                                                         *)
(* A transaction takes two steps: its reads, and its writes with the       *)
(* commit.  Under READ COMMITTED nothing ties the first to the second; the *)
(* unique keys are checked by the writes.                                  *)
(***************************************************************************)
EXTENDS Ratings, Sequences, SequencesExt

CONSTANTS
    Players,
    Matches,
    Sides,          \* for each match the pair of its players
    MaxSeasons,     \* bound: seasons that are ever created
    MaxCloses,      \* bound: closeSeason requests
    Workers,        \* jobs in progress at the same time (WORKER_CONCURRENCY, replicas)
    NoWorker,
    MAIL_BATCH_SIZE,
    Scenarios       \* what a run mixes; see MCLadder

Seasons == 1..MaxSeasons
EntryType == [rating : Int, games : Nat]
Snapshot == [Players -> EntryType]

ASSUME LadderAssumption ==
    /\ Players # {} /\ IsFiniteSet(Players) /\ Sides \in [Matches -> Players \X Players]
    /\ \A m \in Matches : Sides[m][1] # Sides[m][2]
    /\ MaxSeasons \in Nat /\ MaxCloses \in Nat /\ MAIL_BATCH_SIZE \in Nat \ {0} /\ NoWorker \notin Workers

\* The ratings and the seasons a behaviour starts from, what happens in it, and the
\* bounds on closeSeason requests and on faults of the workers or of the API.
ASSUME ScenarioAssumption ==
    Scenarios \subseteq
        [elo : Snapshot, seasons : [Seasons -> {"absent", "upcoming", "active"}],
         matches : SUBSET Matches, outcomes : SUBSET {"A", "B", "DRAW"}, cron : BOOLEAN,
         expires : SUBSET Seasons, closes : 0..MaxCloses, board : BOOLEAN,
         faulty : SUBSET {"worker", "api"}, faults : Nat]
\* seasons_single_active_idx
ASSUME SingleActiveAssumption ==
    \A sc \in Scenarios : \A s, t \in Seasons :
        sc.seasons[s] = "active" /\ sc.seasons[t] = "active" => s = t

VARIABLES
    elo,            \* elo_ratings
    matchRow,       \* matches, with their elo_history
    season,         \* seasons: status, and whether ends_at has passed
    updatedAt,      \* the seasons in the order of updated_at
    standing,       \* season_standings
    jobs,           \* the BullMQ jobs
    work,           \* the job each worker is processing
    resetLock,      \* {prefix}:lock:season-reset:{seasonId}
    admin,          \* the closeSeason request in progress
    cache,          \* leaderboard:top:*, the ratings it was filled with, or Empty
    reader,         \* a GET /leaderboard between its query and its setex, or Empty
    invalidation,   \* a message on the leaderboard:invalidate channel
    mailed,         \* reward mails on the notifications queue
    era,            \* history: how many soft resets were committed
    scenario        \* what the behaviour mixes, and the faults it may still meet

ratingVars == <<elo, matchRow, era>>
seasonVars == <<season, updatedAt, standing, resetLock, mailed>>
boardVars == <<cache, reader, invalidation>>
vars == <<ratingVars, seasonVars, boardVars, jobs, work, admin, scenario>>

NoSeason == 0
Empty == <<>>
MatchJob(m) == <<"match-ended", m, 0>>
ResetJob(s, n) == <<"season-reset", s, n>>     \* of the n-th closeSeason request
CronJob == <<"season-reset", NoSeason, 0>>
JobIds == {MatchJob(m) : m \in Matches} \cup {CronJob}
          \cup {ResetJob(s, n) : s \in Seasons, n \in 1..MaxCloses}
NoJob == <<>>

NoRequest == [pc |-> "idle", job |-> NoJob, season |-> NoSeason]
Idle ==
    [pc |-> "idle", job |-> NoJob, owner |-> FALSE, season |-> NoSeason, read |-> Empty,
     next |-> NoSeason, batch |-> {}, size |-> 0, ok |-> TRUE]

Init ==
    /\ scenario \in Scenarios
    /\ elo = scenario.elo
    /\ matchRow = [m \in Matches |-> Empty]
    /\ season = [s \in Seasons |-> [status |-> scenario.seasons[s], over |-> FALSE]]
    /\ updatedAt = [s \in Seasons |-> s]
    /\ standing = [s \in Seasons |-> Empty]
    /\ jobs = [j \in JobIds |-> [state |-> "none", attempts |-> 0, stalled |-> FALSE]]
    /\ work = [w \in Workers |-> Idle]
    /\ resetLock = [s \in Seasons |-> NoWorker]
    /\ admin = NoRequest
    /\ cache = Empty /\ reader = Empty /\ invalidation = FALSE
    /\ mailed = {} /\ era = 0

\* What may still fail in the behaviour.
MayFail(part) == part \in scenario.faulty /\ scenario.faults > 0

-----------------------------------------------------------------------------
(* Jobs *)

add(j, attempts) == jobs' = [jobs EXCEPT ![j] = [state |-> "waiting", attempts |-> attempts, stalled |-> FALSE]]

\* game-service publishes match-ended (three attempts) ...
publishMatchEnded(m) ==
    /\ m \in scenario.matches /\ jobs[MatchJob(m)].state = "none"
    /\ add(MatchJob(m), 3)
    /\ UNCHANGED <<ratingVars, seasonVars, boardVars, work, admin, scenario>>

\* ... and the repeatable job of the cron scheduler falls due every month (one attempt).
CronFires ==
    /\ scenario.cron /\ jobs[CronJob].state = "none"
    /\ add(CronJob, 1)
    /\ UNCHANGED <<ratingVars, seasonVars, boardVars, work, admin, scenario>>

\* A worker takes a job.
createWorker(w, j) ==
    /\ work[w].pc = "idle" /\ jobs[j].state = "waiting"
    /\ jobs' = [jobs EXCEPT ![j].state = "active"]
    /\ work' = [work EXCEPT ![w] = [Idle EXCEPT
                  !.pc = IF j[1] = "match-ended" THEN "persist" ELSE "resolve",
                  !.job = j, !.owner = TRUE]]
    /\ UNCHANGED <<ratingVars, seasonVars, boardVars, admin, scenario>>

\* The processor returns or throws.  A job that throws is retried while it has attempts
\* left; the cron job comes back at its next date in any case.
Settled(job, j, outcome) ==
    IF outcome = "error" /\ job.attempts > 1
    THEN [job EXCEPT !.state = "waiting", !.attempts = @ - 1]
    ELSE [job EXCEPT !.state = IF j = CronJob THEN "none"
                               ELSE IF outcome = "ok" THEN "completed" ELSE "failed"]

\* A worker that has lost its job to a stall settles nothing.
Settle(w, outcome) ==
    /\ work' = [work EXCEPT ![w] = Idle]
    /\ jobs' = IF work[w].owner THEN [jobs EXCEPT ![work[w].job] = Settled(@, work[w].job, outcome)]
               ELSE jobs

At(w, pc) == work[w].pc = pc
Goto(w, pc) == work' = [work EXCEPT ![w].pc = pc]
\* The finally block of processSeasonReset runs before the exception reaches the worker.
ThrowLocked(w) == work' = [work EXCEPT ![w].pc = "release", ![w].ok = FALSE]

-----------------------------------------------------------------------------
(* MatchPersistenceService.persistMatchEnded *)

MatchOf(w) == work[w].job[2]

\* The match is looked up, then both ratings are read.
PersistRead(w) ==
    /\ At(w, "persist")
    /\ IF matchRow[MatchOf(w)] # Empty THEN Goto(w, "invalidate")
       ELSE work' = [work EXCEPT ![w].pc = "commit", ![w].read = elo]
    /\ UNCHANGED <<ratingVars, seasonVars, boardVars, jobs, admin, scenario>>
isUniqueMatchConflict_Never(m) == FALSE     \* mutant: no unique key
\* The primary key of matches: another delivery has inserted the row since.
isUniqueMatchConflict(m) == matchRow[m] # Empty

\* The match, its rounds and the history are inserted; the ratings are written as
\* computed from what was read, the games are incremented in place.
PersistCommit(w) ==
    LET m == MatchOf(w)
        a == Sides[m][1]
        b == Sides[m][2]
        read == work[w].read
    IN  /\ At(w, "commit")
        /\ IF isUniqueMatchConflict(m) THEN UNCHANGED <<elo, matchRow>>
           ELSE \E outcome \in scenario.outcomes :
                  LET delta == computeElo(read[a], read[b], outcome)
                  IN  /\ elo' = [elo EXCEPT
                            ![a] = [rating |-> read[a].rating + delta.A, games |-> @.games + 1],
                            ![b] = [rating |-> read[b].rating + delta.B, games |-> @.games + 1]]
                      /\ matchRow' = [matchRow EXCEPT ![m] =
                            [before |-> read, delta |-> delta, era |-> era]]
        /\ work' = [work EXCEPT ![w].pc = "invalidate", ![w].read = Empty]
        /\ UNCHANGED <<era, seasonVars, boardVars, jobs, admin, scenario>>

\* The last steps of both processors: publish on the invalidation channel and return.
\* (What tournament progression does then is in module Tournament; the message is kept
\* where someone reads the leaderboard.)
Invalidate(w) ==
    /\ At(w, "invalidate")
    /\ invalidation' = scenario.board
    /\ Settle(w, "ok")
    /\ UNCHANGED <<ratingVars, seasonVars, cache, reader, admin, scenario>>

-----------------------------------------------------------------------------
(* SeasonResetService.processSeasonReset *)

Status(s) == season[s].status
SetStatus(s, status) ==
    /\ season' = [season EXCEPT ![s].status = status]
    /\ updatedAt' = LET i == CHOOSE i \in DOMAIN updatedAt : updatedAt[i] = s
                    IN Append(RemoveAt(updatedAt, i), s)

Archived(s) == standing[s] # Empty
Undistributed(s) == IF Archived(s) THEN {p \in Players : ~standing[s][p].rewarded} ELSE {}
PendingReset_Unarchived(s) == Status(s) = "closed" /\ ~Archived(s)     \* mutant: mails forgotten
\* Closed seasons whose reset or reward mails are pending, and the least recently updated.
PendingReset(s) == Status(s) = "closed" /\ (~Archived(s) \/ Undistributed(s) # {})
pendingResets == {s \in Seasons : PendingReset(s)}
closedPendingReset(s) ==
    /\ s \in pendingResets
    /\ \E i \in DOMAIN updatedAt :
          updatedAt[i] = s /\ \A k \in 1..(i - 1) : updatedAt[k] \notin pendingResets
expiredActive == {s \in Seasons : Status(s) = "active" /\ season[s].over}

\* The season of the job, or the one the cron job finds.
resolveSeason(w) ==
    /\ At(w, "resolve")
    /\ LET s == work[w].job[2]
           Resolved(x) == work' = [work EXCEPT ![w].pc = "lock", ![w].season = x]
       IN  CASE s # NoSeason ->
                  IF Status(s) = "closed" THEN Resolved(s) /\ jobs' = jobs
                  ELSE /\ work' = [work EXCEPT ![w] = Idle]     \* UnrecoverableError
                       /\ jobs' = IF work[w].owner THEN [jobs EXCEPT ![work[w].job].state = "failed"]
                                  ELSE jobs
             [] s = NoSeason /\ pendingResets # {} ->
                  (\E x \in Seasons : closedPendingReset(x) /\ Resolved(x)) /\ jobs' = jobs
             [] s = NoSeason /\ pendingResets = {} /\ expiredActive # {} ->
                  /\ \E x \in expiredActive : work' = [work EXCEPT ![w].pc = "close", ![w].season = x]
                  /\ jobs' = jobs
             [] OTHER -> Settle(w, "ok")     \* noop
    /\ UNCHANGED <<ratingVars, seasonVars, boardVars, admin, scenario>>

\* Closing the expired season is a compare-and-set; whoever lost it finds the row closed.
CloseExpired(w) ==
    LET s == work[w].season
    IN  /\ At(w, "close")
        /\ IF Status(s) = "active" THEN SetStatus(s, "closed") ELSE UNCHANGED <<season, updatedAt>>
        /\ Goto(w, "lock")
        /\ UNCHANGED <<ratingVars, standing, resetLock, mailed, boardVars, jobs, admin, scenario>>

\* SET NX with a ttl; the job throws when the lock is taken.
acquire(w) ==
    LET s == work[w].season
    IN  /\ At(w, "lock")
        /\ IF resetLock[s] = NoWorker
           THEN /\ resetLock' = [resetLock EXCEPT ![s] = w]
                /\ Goto(w, "count") /\ jobs' = jobs
           ELSE UNCHANGED resetLock /\ Settle(w, "error")
        /\ UNCHANGED <<ratingVars, season, updatedAt, standing, mailed, boardVars, admin, scenario>>

\* The standings are counted, then the ratings are read in the transaction.
CountStandings(w) ==
    /\ At(w, "count")
    /\ Goto(w, IF Archived(work[w].season) THEN "countActive" ELSE "snapshot")
    /\ UNCHANGED <<ratingVars, seasonVars, boardVars, jobs, admin, scenario>>

ReadRatings(w) ==
    /\ At(w, "snapshot")
    /\ work' = [work EXCEPT ![w].pc = "archive", ![w].read = elo]
    /\ UNCHANGED <<ratingVars, seasonVars, boardVars, jobs, admin, scenario>>
StandingsExist_Never(s) == FALSE     \* mutant: no unique key
\* The unique key (season_id, user_id) of season_standings.
StandingsExist(s) == Archived(s)

\* The standings are inserted and every rating is written from what was read.
archiveStandingsAndSoftReset(w) ==
    LET s == work[w].season
        read == work[w].read
    IN  /\ At(w, "archive")
        /\ IF StandingsExist(s) THEN ThrowLocked(w) /\ UNCHANGED <<standing, elo, era>>
           ELSE /\ \E rank \in Rankings(read) :
                     standing' = [standing EXCEPT ![s] = [p \in Players |->
                        [finalRating |-> read[p].rating, rank |-> rank[p],
                         league |-> getLeagueForRating(read[p].rating), rewarded |-> FALSE]]]
                /\ elo' = [p \in Players |->
                             [rating |-> softResetRating(read[p].rating), games |-> 0]]
                /\ era' = era + 1
                /\ work' = [work EXCEPT ![w].pc = "countActive", ![w].read = Empty]
        /\ UNCHANGED <<matchRow, season, updatedAt, resetLock, mailed, boardVars, jobs, admin, scenario>>

Active == {s \in Seasons : Status(s) = "active"}
Upcoming == {s \in Seasons : Status(s) = "upcoming"}

\* Nothing is activated when a season is active or none is upcoming; otherwise the
\* upcoming season that was created first.
CountActive(w) ==
    /\ At(w, "countActive")
    /\ IF Active # {} \/ Upcoming = {} THEN Goto(w, "mails")
       ELSE work' = [work EXCEPT ![w].pc = "activate",
                       ![w].next = CHOOSE s \in Upcoming : \A t \in Upcoming : s <= t]
    /\ UNCHANGED <<ratingVars, seasonVars, boardVars, jobs, admin, scenario>>
\* Mutant: no seasons_single_active_idx.
activateNextSeasonIfNeeded_NoIndex(w) ==
    /\ At(w, "activate")
    /\ Goto(w, "mails") /\ SetStatus(work[w].next, "active")
    /\ UNCHANGED <<ratingVars, standing, resetLock, mailed, boardVars, jobs, admin, scenario>>

\* The update names the row only; seasons_single_active_idx refuses a second active one.
activateNextSeasonIfNeeded(w) ==
    /\ At(w, "activate")
    /\ IF Active \ {work[w].next} # {} THEN ThrowLocked(w) /\ UNCHANGED <<season, updatedAt>>
       ELSE Goto(w, "mails") /\ SetStatus(work[w].next, "active")
    /\ UNCHANGED <<ratingVars, standing, resetLock, mailed, boardVars, jobs, admin, scenario>>

\* Batches of standings that are not rewarded, best ranks first, until a short one.
FetchBatch(w) ==
    LET s == work[w].season
        batch == {p \in Undistributed(s) :
                    Cardinality({q \in Undistributed(s) : standing[s][q].rank < standing[s][p].rank})
                      < MAIL_BATCH_SIZE}
    IN  /\ At(w, "mails")
        /\ work' = [work EXCEPT ![w].pc = IF batch = {} THEN "release" ELSE "enqueue",
                                ![w].batch = batch, ![w].size = Cardinality(batch)]
        /\ UNCHANGED <<ratingVars, seasonVars, boardVars, jobs, admin, scenario>>

\* The best rank that is left in the batch.
Current(w) ==
    CHOOSE p \in work[w].batch : \A q \in work[w].batch :
        standing[work[w].season][p].rank <= standing[work[w].season][q].rank

\* The mail is enqueued first ...
enqueueSeasonRewardMail(w) ==
    /\ At(w, "enqueue")
    /\ mailed' = mailed \cup {<<work[w].season, Current(w)>>}
    /\ Goto(w, "mark")
    /\ UNCHANGED <<ratingVars, season, updatedAt, standing, resetLock, boardVars, jobs, admin, scenario>>

\* ... and the standing is marked as rewarded afterwards.
MarkRewarded(w) ==
    LET p == Current(w)
        rest == work[w].batch \ {p}
        full == work[w].size = MAIL_BATCH_SIZE
    IN  /\ At(w, "mark")
        /\ standing' = [standing EXCEPT ![work[w].season][p].rewarded = TRUE]
        /\ work' = [work EXCEPT ![w].batch = rest,
                      ![w].pc = CASE rest # {} -> "enqueue"
                                  [] rest = {} /\ full -> "mails"
                                  [] OTHER -> "release"]
        /\ UNCHANGED <<ratingVars, season, updatedAt, resetLock, mailed, boardVars, jobs, admin, scenario>>

\* The lock is deleted if it still holds the token of this run.
release(w) ==
    LET s == work[w].season
    IN  /\ At(w, "release")
        /\ resetLock' = [resetLock EXCEPT ![s] = IF @ = w THEN NoWorker ELSE @]
        /\ IF work[w].ok THEN Goto(w, "invalidate") /\ jobs' = jobs ELSE Settle(w, "error")
        /\ UNCHANGED <<ratingVars, season, updatedAt, standing, mailed, boardVars, admin, scenario>>

-----------------------------------------------------------------------------
(* SeasonsService of the API: the administrator *)

createSeason(s) ==
    /\ Status(s) = "absent" /\ \A t \in Seasons : Status(t) = "absent" => s <= t
    /\ SetStatus(s, "upcoming")
    /\ UNCHANGED <<ratingVars, standing, resetLock, mailed, boardVars, jobs, work, admin, scenario>>

\* ends_at of the active season passes.
SeasonExpires(s) ==
    /\ s \in scenario.expires /\ Status(s) = "active" /\ ~season[s].over
    /\ season' = [season EXCEPT ![s].over = TRUE]
    /\ UNCHANGED <<ratingVars, updatedAt, standing, resetLock, mailed, boardVars, jobs, work, admin, scenario>>

\* The season is closed by a compare-and-set; any other status is answered by 409.
closeSeason(s) ==
    /\ scenario.closes > 0 /\ admin.pc = "idle" /\ Status(s) = "active"
    /\ SetStatus(s, "closed")
    /\ admin' = [pc |-> "enqueue", job |-> ResetJob(s, scenario.closes), season |-> s]
    /\ scenario' = [scenario EXCEPT !.closes = @ - 1]
    /\ UNCHANGED <<ratingVars, standing, resetLock, mailed, boardVars, jobs, work>>

\* The reset job (three attempts) is enqueued and the request answered.
enqueueSeasonReset ==
    /\ admin.pc = "enqueue"
    /\ add(admin.job, 3)
    /\ admin' = NoRequest
    /\ UNCHANGED <<ratingVars, seasonVars, boardVars, work, scenario>>

\* Redis did not answer: whether or not the job was added, the season is reopened next.
EnqueueFails ==
    /\ admin.pc = "enqueue" /\ MayFail("api")
    /\ \/ add(admin.job, 3)
       \/ UNCHANGED jobs
    /\ admin' = [admin EXCEPT !.pc = "rollback"]
    /\ scenario' = [scenario EXCEPT !.faults = @ - 1]
    /\ UNCHANGED <<ratingVars, seasonVars, boardVars, work>>

\* The rollback fails on the unique index when another season is active by now.
Rollback ==
    LET s == admin.season
    IN  /\ admin.pc = "rollback"
        /\ IF Status(s) = "closed" /\ Active = {} THEN SetStatus(s, "active")
           ELSE UNCHANGED <<season, updatedAt>>
        /\ admin' = NoRequest
        /\ UNCHANGED <<ratingVars, standing, resetLock, mailed, boardVars, jobs, work, scenario>>

-----------------------------------------------------------------------------
(* LeaderboardService and RedisService of the API *)

\* A request finds the key empty and queries the ratings ...
ReadBoard ==
    /\ scenario.board /\ cache = Empty /\ reader = Empty
    /\ reader' = elo
    /\ UNCHANGED <<ratingVars, seasonVars, cache, invalidation, jobs, work, admin, scenario>>

\* ... and stores the answer for thirty seconds.
FillCache ==
    /\ reader # Empty
    /\ cache' = reader /\ reader' = Empty
    /\ UNCHANGED <<ratingVars, seasonVars, invalidation, jobs, work, admin, scenario>>
CacheExpires_Never == FALSE /\ UNCHANGED vars     \* mutant: SET without a ttl

CacheExpires ==
    /\ cache # Empty
    /\ cache' = Empty
    /\ UNCHANGED <<ratingVars, seasonVars, reader, invalidation, jobs, work, admin, scenario>>

\* The subscriber deletes the keys; a message that meets no subscriber is lost.
invalidateLeaderboardCache ==
    /\ invalidation
    /\ invalidation' = FALSE
    /\ \/ cache' = Empty
       \/ MayFail("worker") /\ UNCHANGED cache
    /\ UNCHANGED <<ratingVars, seasonVars, reader, jobs, work, admin, scenario>>

-----------------------------------------------------------------------------
(* Faults *)

\* A command of the worker fails, or the database breaks a deadlock: the transaction is
\* rolled back, a held lock is released by the finally block, and the job throws.
HoldsReset(w) == work[w].pc \in {"count", "snapshot", "archive", "countActive", "activate",
                                 "mails", "enqueue", "mark", "release"}
StepFails(w) ==
    /\ MayFail("worker") /\ work[w].pc \notin {"idle", "release"}
    /\ IF HoldsReset(w) THEN ThrowLocked(w) /\ jobs' = jobs ELSE Settle(w, "error")
    /\ scenario' = [scenario EXCEPT !.faults = @ - 1]
    /\ UNCHANGED <<ratingVars, seasonVars, boardVars, admin>>

\* BullMQ takes the job from a worker that does not renew its lock, once per job; the
\* worker has died, or has only been slow and goes on.
Stalls(w) ==
    LET j == work[w].job
    IN  /\ MayFail("worker") /\ work[w].pc # "idle" /\ work[w].owner
        /\ jobs' = [jobs EXCEPT ![j] = IF @.stalled THEN [@ EXCEPT !.state = "failed"]
                                       ELSE [@ EXCEPT !.state = "waiting", !.stalled = TRUE]]
        /\ \/ work' = [work EXCEPT ![w] = Idle]
           \/ work' = [work EXCEPT ![w].owner = FALSE]
        /\ scenario' = [scenario EXCEPT !.faults = @ - 1]
        /\ UNCHANGED <<ratingVars, seasonVars, boardVars, admin>>

\* SEASON_RESET_LOCK_TTL_SECONDS have passed: the holder has died, or takes too long.
LockExpires(s) ==
    LET alive == \E w \in Workers : resetLock[s] = w /\ work[w].season = s /\ HoldsReset(w)
    IN  /\ resetLock[s] # NoWorker
        /\ alive => MayFail("worker")
        /\ resetLock' = [resetLock EXCEPT ![s] = NoWorker]
        /\ scenario' = IF alive THEN [scenario EXCEPT !.faults = @ - 1] ELSE scenario
        /\ UNCHANGED <<ratingVars, season, updatedAt, standing, mailed, boardVars, jobs, work, admin>>

-----------------------------------------------------------------------------
WorkerStep(w) ==
    \/ PersistRead(w) \/ PersistCommit(w) \/ Invalidate(w)
    \/ resolveSeason(w) \/ CloseExpired(w) \/ acquire(w) \/ CountStandings(w) \/ ReadRatings(w)
    \/ archiveStandingsAndSoftReset(w) \/ CountActive(w) \/ activateNextSeasonIfNeeded(w)
    \/ FetchBatch(w) \/ enqueueSeasonRewardMail(w) \/ MarkRewarded(w) \/ release(w)

Next ==
    \/ \E m \in Matches : publishMatchEnded(m)
    \/ CronFires
    \/ \E w \in Workers, j \in JobIds : createWorker(w, j)
    \/ \E w \in Workers : WorkerStep(w) \/ StepFails(w) \/ Stalls(w)
    \/ \E s \in Seasons : createSeason(s) \/ SeasonExpires(s) \/ closeSeason(s) \/ LockExpires(s)
    \/ enqueueSeasonReset \/ EnqueueFails \/ Rollback
    \/ ReadBoard \/ FillCache \/ CacheExpires \/ invalidateLeaderboardCache

Spec == Init /\ [][Next]_vars

\* Workers take jobs and go on with them, the cron job comes back every month, a lock
\* and a cache entry expire, a request that has begun is finished.
FairSpec ==
    /\ Spec
    /\ \A w \in Workers : WF_vars(WorkerStep(w))
    /\ \A j \in JobIds : WF_vars(\E w \in Workers : createWorker(w, j))
    /\ WF_vars(CronFires)
    /\ \A s \in Seasons : WF_vars(LockExpires(s))
    /\ WF_vars(enqueueSeasonReset \/ Rollback)
    /\ WF_vars(FillCache) /\ WF_vars(CacheExpires)

-----------------------------------------------------------------------------
(* Properties *)

\* The tables, the jobs and the workers have their types; at most one season is active
\* and the ranks of a standing are distinct.
TypeOK ==
    /\ elo \in Snapshot
    /\ \A s \in Seasons : Status(s) \in {"absent", "upcoming", "active", "closed"}
    /\ Cardinality(Active) <= 1
    /\ ToSet(updatedAt) = Seasons /\ Len(updatedAt) = MaxSeasons
    /\ \A s \in Seasons : Archived(s) =>
          \A p, q \in Players : standing[s][p].rank = standing[s][q].rank => p = q
    /\ \A j \in JobIds : jobs[j].state \in {"none", "waiting", "active", "completed", "failed"}
    /\ \A j \in JobIds : jobs[j].attempts \in 0..3
    /\ resetLock \in [Seasons -> Workers \cup {NoWorker}]
    /\ cache \in Snapshot \cup {Empty} /\ reader \in Snapshot \cup {Empty}
    /\ mailed \subseteq Seasons \X Players

\* The matches of a player that were persisted since the last soft reset.
Counted(p) ==
    {m \in Matches : matchRow[m] # Empty /\ matchRow[m].era = era /\ p \in {Sides[m][1], Sides[m][2]}}

\* Every match counts once for each of its players, however often its job is delivered
\* and whatever else is persisted meanwhile: games_played is what the season's history says.
CountedOnce ==
    \A p \in Players :
        elo[p].games = Cardinality(Counted(p)) + (IF era = 0 THEN scenario.elo[p].games ELSE 0)

\* A season is archived once: neither a second reset that runs beside the first, because
\* the lock has expired, nor a later one rewrites its standings or resets the ratings again.
ArchivedOnce ==
    [][/\ \A s \in Seasons : Archived(s) => \A p \in Players :
             /\ standing'[s][p].finalRating = standing[s][p].finalRating
             /\ standing'[s][p].rank = standing[s][p].rank
       /\ era' # era => \E s \in Seasons : ~Archived(s) /\ standing'[s] # Empty]_vars

\* A standing is marked as rewarded only when its mail is on the queue, whatever fails or
\* stalls between the two: a mail may be sent twice, and none is forgotten.
RewardedIsMailed ==
    \A s \in Seasons : Archived(s) =>
        \A p \in Players : standing[s][p].rewarded => <<s, p>> \in mailed

\* Whatever fails, a closed season ends up archived with a reward mail on the queue for
\* every player, or is opened again by the rollback of closeSeason.
SeasonSettles ==
    \A s \in Seasons :
        Status(s) = "closed"
        ~> Status(s) = "active" \/ (Archived(s) /\ \A p \in Players : <<s, p>> \in mailed)

\* Once the ratings have stopped changing, the leaderboard shows them, although an
\* invalidation may be lost or overtaken by a query that is older than it.
LeaderboardCatchesUp ==
    <>[][elo' = elo]_vars => <>[](cache = Empty \/ cache = elo)
====
