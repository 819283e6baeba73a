# Chifoumi: a TLA+ model of the ranked rock-paper-scissors platform

This directory models the parts of the repository where something other than the order of
the source text decides what happens: the match engine of game-service on Redis and
BullMQ, matchmaking and directed matches, tournaments from registration (api) to the
winner (job-runner), accounts and sessions (auth-service and the browser), ratings and
seasons (job-runner and api), the player's game socket, and the pages of the front end
with the reads behind them. TLC checks the models on small instances, and TLAPS proves
nearly all of their safety properties for all parameters.

## 1. The system

| Part | State | Operations | Talks to |
| --- | --- | --- | --- |
| Match rules (`game-service/src/match-session`, `rps`) | `MatchState`: status, round, plays, score, records, winner, end reason | three mutators: play, round timeout, disconnect forfeit | - |
| Match session store | `match:{id}:state`, `match:{id}:lock` (2 s, token) | `create`, `mutateState` (lock, load, save, release) | Redis |
| Match play | `match:{id}:finalized`, `match:byUser:{u}` | `submitPlay`, `handleRoundTimeout`, `handleDisconnectForfeit`, `finalizeMatch` | session store, schedulers, job-runner (match-ended job) |
| Timeout scheduler and worker | delayed job, `match:{id}:timeout-job` | schedule, cancel, fire (one attempt) | BullMQ |
| Forfeit scheduler, worker, reconnection | delayed job and key per player, `ws:user:{u}:socket` | connect, disconnect, schedule, cancel, fire (five attempts) | BullMQ, gateway |
| Matchmaking | sorted set, metadata hash, rate and lock keys, pair locks | `joinQueue`, `leaveQueue`, pairing tick and its Lua script | session store |
| Directed matches | `tournament-match:{t}:match` | claim script, create, release | matchmaking keys, session store |
| Tournaments, API | `Tournament`, `TournamentRegistration` rows | create, open, register, unregister, start | PostgreSQL, generate-bracket queue |
| Bracket generation (job-runner, `packages/bracket`) | `TournamentMatch` rows, Redis lock (600 s) | seeding, byes, pruning, one transaction | PostgreSQL, mail queue |
| Tournament progression | the same rows | `processMatchEnded`: advance or complete, mails | match-ended queue |
| Match persistence | matches, rounds, ratings, rating history | one transaction per match | match-ended queue |
| Seasons | season status, standings, ratings, reset lock (600 s) | create, close and its rollback, reset job, activation, reward mails | cron, PostgreSQL, season queue |
| Leaderboard | Redis cache (30 s) | read, fill, invalidate | user-service, pub/sub from job-runner |
| Accounts (auth-service, user-service) | users, refresh tokens, reset links, rotation cache (30 s) and lock (10 s), access blacklist | register, login, refresh, logout, forgotten and new password | PostgreSQL, Redis, gRPC |
| Socket authentication | token cache (30 s) | handshake | auth-service over gRPC |
| Session of a tab (`AuthContext`, `apiClient`) | access token, stored refresh token, refresh in progress | bootstrap, requests, refresh after a 401, sign in and out | api |
| Event relay, game socket of a tab (`useGameSocket`) | registered socket; queue, match, round and end as the page knows them | connect, resume, events, play, join, leave | Redis pub/sub, socket.io |
| Pages of a tab | query cache of react-query | load, reload, more, page, filter, register | reads of the api |

What is hard about it: every handler awaits between two Redis commands, so handlers of
all instances interleave there; locks and keys expire; delayed jobs race the events
that cancel them; jobs are retried, or not; an instance may die between two commands;
checks are made before a lock or a transaction and used after it. PROJECT.json lists
these hazards at their lines, with the properties that watch them.

What makes each part correct, in a sentence: a match has one history, one result and
one finalization, and it ends; a player is in one match; a queued player is not
forgotten; a bracket is made once, moves exactly the winners on and ends with one player
unbeaten; a match counts once for each of its players; one season is active, and a
closed one is archived once and rewarded; a sign-in has one live refresh token, survives
its rotation and ends with a logout or a new password; a page comes to agree with the
service, shows complete lists, and nothing of another user.

## 2. Modules

| Module | Models | State and actions |
| --- | --- | --- |
| `MatchRules` | the mutators | pure operators with the names of the code (`trySubmitPlay` is `playRejected`, `completesRound` and `afterPlay`; `applyPhaseTimeout` is `timeoutApplies` and `afterTimeout`) |
| `MatchSession` | what a session promises | one variable, the stored state; a play, timeout or forfeit is one atomic step. The abstract specification. |
| `MatchPlay` | match play, store, schedulers, workers, gateway | every handler runs in a slot, one Redis or queue command per step. Implements `MatchSession` (`ImplementsSession`). |
| `Matchmaking` | queue, pairing worker, directed start | the same granularity; a Lua script is one step; a match starts and ends, its inside is `MatchPlay` |
| `Bracket` | seeding and structure of the tree | pure operators |
| `Tournament` | API requests, generate-bracket and match-ended jobs | rows, jobs with attempts, the lock; transactions are steps, except that what a transaction reads early may be old when it commits (`ReadParent`, `FillParent`) |
| `AuthService` | auth-service, the user rows, the token cache of game-service | a handler per gRPC call, one command per step; `Pairs` are the tokens issued together |
| `Accounts` | tabs of one account, composed with `AuthService` | `AuthContext` of each tab and the requests in its slots, from `fetchWithAuth` to the answer |
| `Ratings` | `packages/elo`, `packages/leagues`, the order of the leaderboard | pure operators in integers; the logistic curve is a constant function |
| `Ladder` | match persistence, seasons, cron and workers, leaderboard cache | tables, jobs with attempts and stalls, workers step by step |
| `GameClient` | `useGameSocket`, lobby and match page, gateways, relay | the page, the socket in both directions, published and relayed events, the handlers between them |
| `Browsing` | the other pages and the reads of the api | the tables reduced to what is shown, the query cache, fetches and calls in flight |
| `MatchSessionProofs`, `MatchPlayProofs`, `MatchmakingProofs`, `TournamentProofs`, `AccountsProofs`, `LadderProofs`, `BrowsingProofs`, `GameClientProofs` | theorems and their lemmas (section 5) | inductive invariants |
| `MCMatchSession`, `MCMatchPlay`, `MCMatchmaking`, `MCTournament`, `MCAccounts`, `MCLadder`, `MCGameClient`, `MCBrowsing` | instances for TLC | symmetry sets, ratings, scenarios |

Conventions. A record in `proc` is one running handler: `pc` names the next command.
Identifiers, names and payloads are model values; logging, metrics, wording and mail
texts are left out. Variables under "history" are read by properties only. Definitions
whose name ends in `_Something` and whose comment says Mutant are faults on purpose:
each property is known to fail when the definition it is paired with in PROJECT.json
is replaced.

Scenarios. Where everything at once is too much for TLC, the initial state chooses one of
a set of scenarios of the MC module: which operations take part, and how many clicks,
failures or connections there are. The actions are the same in all of them. What is
mixed in one scenario is what shares state.

Databases. Transactions run under READ COMMITTED: one that reads and later writes is two
steps (`PersistRead` and `PersistCommit`, `ReadRatings` and
`archiveStandingsAndSoftReset`, `SnapshotTokens` and `RevokeTokens`), and only unique keys
and conditions of an UPDATE are checked again by the write. An upsert with an empty
update is a read. `computeDelta` of the reward mail is not modelled.

react-query is external; `Browsing` takes from it that a failed fetch is retried once
from its first page, that data older than five seconds is loaded again when a page is
opened or the window is focused, that an invalidation cancels a fetch under way only when
there is data already, and that `clear()` forgets data and fetches. A request carries the
token of the user who is signed in when it is sent.

Time. `MatchPlay` has no clock: a delayed job may fire at any moment after it was
added. `Matchmaking` has a clock in units of ten seconds, for the rating window. In
`Matchmaking` and `Tournament` a key nobody works under may be found expired; in
`Matchmaking` one that expires under a live holder is a fault. Two assumptions about
speed are made: a mutation of a match takes less than the two seconds of its lock
(`SlowHolder = FALSE`; the save is not fenced, so without this the session is not
implemented), and requests take far less time than ten seconds or a match.

## 3. Runs

| Run | Shows | Bounds |
| --- | --- | --- |
| `session` | books, verdict, symmetry of the two slots | the limits of the code (5 rounds, 2 wins), all moves, one stranger |
| `match_faults` | the handlers implement the atomic session; one finalizer; nobody is freed or told too early; an open socket goes off record only when another one is registered | one-round match; two plays and the round timer with two failing commands and a crash, or a player with two sockets against forfeit and timeout workers, or with three whose connect handlers overtake each other |
| `match_liveness` | the match ends unless its timer was lost, an ended match is published | two rounds, a play handler and a timeout worker, no failures |
| `matchmaking` | one match per entry in the queue, one match per player, one per tournament match, fair windows, nobody waits for ever | two players 300 points apart, two slots, two directed starts, one fault |
| `tournament` | one bracket; slots follow feeders; who loses is out and the winner unbeaten; ready matches announced; completion | up to four players in a bracket of eight, two slots, a draw, one fault |
| `accounts` | one live token per sign-in; rotation does not end the session of a tab; a new password ends all; a revoked token is refused in the end; the start screen ends | two tabs with two requests, two handlers, three pairs, two links, two passwords, one fault or reload |
| `ladder` | a match counts once; a season is archived once, and rewarded whatever fails; the leaderboard catches up; one active season | three players, three matches, two seasons, two workers, two closes, one fault |
| `client` | the page comes to show the round or the end of its match; it does not wait for ever, unless its round lost its timer | three sockets, two matches, two rounds, one lock that a play or the timer finds busy |
| `browsing` | a complete and ordered history; no page past the end; the registration is shown; nothing of another user, the history included | pages of one row, four matches at two instants for one user or two matches for two who use the tab in turn, three registered users, a bracket of two, one failing request |
| `match_blocked` | violation, finding 1 | one play, one timer |
| `matchmaking_race` | violation, finding 2 | three players, one directed start, no fault |
| `tournament_stuck` | violation, finding 3 | three players in a bracket of sixteen |

Why the bounds are enough. The races of a match are between two handlers, or a handler
and a job, over one round: a one-round match has all of them except those of a late
handler with the next round's timer, which `match_liveness` has with two rounds;
`session` covers the rules with the real limits. Pairing, claims and locks involve two
players and two handlers; `matchmaking_race` needs a third player for the second match.
Four players are the fewest with two matches that feed a third at the same time, and
eight is the smallest bracket the API accepts, so byes through two rounds occur as well.
A rotation needs two requests of a token, and a third pair to be wrong about; a second
tab gives the reuse of a copied token. Two workers and one lock are all a season reset can
meet, and the second season is the one to activate. A socket that closes late needs a
newer one, and a third connection resumes what both have missed; it is also what it takes
for the connect handler of an older socket to overwrite the registration of a newer one. Pages of one row make
every boundary of a list occur with two or three rows, and two matches of the same
instant on different pages test the second half of the cursor.
Failures of the connect and disconnect handlers are not part of `match_faults`: with
one its second scenario has more than four million states. `CHECK_DEADLOCK FALSE` is
set where the system really stops: an ended match with silent players, a finished
tournament, tabs whose users do nothing more, a ladder without further matches.
`matchmaking` and `browsing` check deadlock.

Fairness. A handler that was started runs its next command (weak fairness of `Step`): an
event loop does not abandon a promise. BullMQ takes waiting and due jobs, the pairing
interval ticks, time passes, keys expire, the cron job comes again. An answer that was
sent arrives, or the request is timed out and answered by an error; socket.io reconnects;
a round timer that is in the queue fires, and then ends the match or meets a busy lock and
is lost, in the model of the page (`GameClient`) as in that of the match. Players owe nothing in the match and in the
queue: they may stay silent. `TournamentCompletes` assumes that a match that can be
played is played; the caller of the StartMatch gRPC method is not in the repository.

## 4. Findings

1. **A match can stay blocked.** The round-timeout job has one attempt and fails when a
   play holds the lock; no other timer is armed (`NoMatchStaysBlocked`).
2. **A player can be in two matches.** `joinQueue` does not look at `match:byUser` again
   before it enters the queue, and the pairing script does not look at all
   (`OneMatchPerPlayer`).
3. **A tournament can never complete.** With at least three players and at most a
   quarter of the places taken, the last playable match feeds a final nobody else can
   reach (`NoEmptyFinalBranch`).

Of the same origin as 3, and without a run of its own: **a tournament can be won before it is
played.** `prunePlayableMatchesWithEmptySibling` cuts a match from its parent in every round,
not only before the final. With six players in sixteen the fifth and the sixth play a match of
the second round that leads nowhere: its winner is crowned while the other matches are still
to be played, although tournament-progression.service.spec.ts:324 "crowns the tournament
winner when the final match ends". So `TournamentCompletes` asks for eight places, the
fewest the API accepts, that everyone but the winner has been beaten at the end
(`OneLossEach`); of larger brackets with few players this is not true. What is true of all
of them, and proved, is `Knockout`: who loses is out, and who is crowned has lost no match.

Seen while modelling, without a run of their own (see the notes in PROJECT.json):
`releaseClaims` may give back a match the players have already heard of, whose end then
deletes the mappings of the next one (`NoDoubleBooking` leaves this out); a crash between
INCR and EXPIRE shuts a player out of the queue; a tournament can start with one player;
a drawn tournament match stops the bracket; a crash of the bracket job holds its lock
longer than the job's attempts last; the mails for a ready match are lost when the job
crashes before them; after a failing command in `finalizeMatch` nobody finalizes the ended
match again; a player who closes the newer of two open sockets is forfeited; `setUserSocket` writes
without looking, so that a slow connect handler of an older socket replaces the
registration of a newer one, which then hears nothing, and its player is taken for absent
once the older one is removed; two matches
of a player persisted at the same time, or one around a season reset, lose a rating
change, although the comment at season-reset.service.ts:102 rules the latter out; a season
created after the reset is not activated until the next one; an end of a match that finds
no socket is not sent again; a refresh whose answer was lost ends the session, and a late
answer may end a newer one; two requests for a new password at the same time leave two
live links, against the comment at auth.service.ts:178; the lock of a rotation is deleted
without looking whose it is; win rates exceed one after a soft reset, which sets the
games to zero and not the wins; after a lost answer the tournament page may show the old
registration. The docs say the window is 400 points after 60 seconds, the code has
no limit from then on.

## 5. Proofs

Everything below is proved for every value of the constants that satisfies the named
ASSUMEs of the modules: any number of players, slots, sockets, rounds, jobs and faults, any
ratings. Each theorem follows from an inductive invariant, and each invariant was first
checked by TLC on the run of its module.

**The session** (`MatchSessionProofs`).
`TypeCorrect`, `ScoreIsCorrect`, `OutcomeIsCorrect`: `TypeOK`, `ScoreMatchesRounds` and
`OutcomeConsistent` of `MatchSession`. None is inductive alone: `IInv` adds `OpenMatch`,
which says that a stored state is never half way through a resolution, and that in a match
that still waits for moves no side has reached `WINS_TO_END`. Without it the next win could
pass the limit. The lemmas about the mutators are also what `MatchPlayProofs` rests on: the
outcome of a round, counting wins when a record is appended, and that each mutator takes a
sound state (`Sound`) to a sound state. `SlotsAreEqual` (`SidesInterchangeable`): play,
timeout and forfeit commute with exchanging the slots, shown mutator by mutator.

**The handlers** (`MatchPlayProofs`).

- For any `SlowHolder`, so even when a mutation outlives its lock: `PlayTypeCorrect`
  (`TypeOK`), `FinalizationIsExclusive` (`OneFinalizer`: the guard key is set with NX and
  deleted only by the handler that has set it, when it fails inside; so one handler at a
  time finalizes, and a second one may after a failure), `LiveSocketIsKept`
  (`LiveSocketStaysRegistered`, from `ClosedSockets`: whatever a disconnect handler still
  carries is a socket that is closed; a connect handler, of an older socket too, does
  replace the key, and the property says so).
- Under `~SlowHolder`: `PlayImplementsSession` (every step of `MatchPlay` is a step of
  `MatchSession` or leaves its state alone), `FinalStateIsSeen` (`EveryoneSeesFinalState`),
  `FreedAfterEnd` (`FreedOnlyAfterEnd`).

`TypeInv` is `TypeOK` with `LocalOK`, what each label says about the values a handler has
loaded. For the refinement, `SessionInv` adds that two handlers are never between load and
save together (`Exclusive`), that what a handler is about to save is the stored state with
one mutator applied (`SavesMutation`), and that a handler that goes on to finish has a state
that was stored (`KnowsFinalState`). The assumption is needed there: the save of
`mutateState` is not fenced by the lock's token, so a handler whose lock expired overwrites
what the next one stored.

**Matchmaking** (`MatchmakingProofs`). `PlayersAreBookedOnce` (`NoDoubleBooking`),
`TournamentMatchIsUnique` (`TournamentMatchOnce`), `EntryIsUsedOnce` (`OneEntryOneMatch`),
`PairsAreFair` (the action property `FairPairing`). The invariant relates handlers, keys and
matches: a directed start that has claimed a tournament match is the only one, and the key
of the tournament match names what it claimed (`Claims`, `OneClaim`); a match of a
tournament that was not given back is the one on record (`OnRecord`); a regular player has
no match on record while queued and otherwise the live one (`QueuedAreFree`, `Booked`);
ranked matches and the place in the queue are covered by entries (`EntriesCover`); a
chosen pair was within its window when it was listed, and waiting only widens the window
(`ChosenInWindow`). The lock of the pair is not used anywhere: the claim script is atomic.

**Tournament** (`TournamentProofs`). `BracketIsCreatedOnce` (`OneBracket`). Only the holder
of the lock works under it (`Exclusive`), what the second count has seen still holds when
the rows are created (`NoneYet`), and the rows there are account for `created`
(`Accounted`). It rests on the lock of a live holder not expiring: nothing in the database
makes the rows unique.

`TournamentTypeCorrect` (`TypeOK`), `WinnersMoveOn` (`SlotsFollowFeeders`) and
`SecondPlayerIsAnnounced` (`ReadyIsAnnounced`) are about what is played in it. First, what
`buildBracketStructure` makes is a `Tree`, whose later rounds hold only winners: the tree
is made round by round, a bracket has at most ten (`MAX_BRACKET_SIZE_LOG`), and so the
recursion is followed in ten steps without induction (`TenSteps`, `Draft`, `BuiltIsTree`).
Then `PlayInv`: each active job runs in one slot (`Assigned`); a match with a job has both
players, so its slots never change again (`Played`); and what `processMatchEnded` found
before its transaction still holds when it commits (`StillFound`): the match is open, and
the slot of the parent it read as empty can be filled by nobody else. Neither property is
inductive without these, as the parent that was read may be out of date in its other slot.

`LosersAreKnockedOut` (`Knockout`) adds that each player is drawn once, into one slot of the
first round (`DrawnOnce`), that a player in a later round has won every match on the way
there, that nobody gets into the slot that a match cut from its parent would have fed
(`DeadEnds`), and that whoever is crowned has won such a match or the final (`Crowned`). It
holds in brackets of every size, and so also in those that are cut too early.

**Accounts** (`AccountsProofs`, about `Accounts` composed with `AuthService`).
`TokenIsReplacedOnce` (`OneLiveTokenPerSignIn`) and `ResetIsEffective`
(`ResetEndsOldSessions`). Every step of the composed system is one of four kinds: it
touches no token, a request arrives, the token tables change, or a token expires; the
invariants are shown for each kind. Rotation needs only that the origin of a pair is not
younger than the pair (`OriginsAreOlder`): the conditional revoke in the transaction decides
who replaces the token, and the rotation lock plays no part. For the reset, `ResetSound`
says where each running handler is: which rows the snapshot still has to revoke
(`SeenAll`, `NoneLeft`), that no pair is being issued beside it (`Apart`), and that whoever
was let in knew the current password (`LetInKnows`), all unless something overlapped.

`SessionIsKept` (`SessionSurvivesRotation`) joins the two halves of the composition. While
all is calm (`CalmSound`) a tab shares one refresh between its requests (`OneRefreshEach`,
`refreshPromise` of the code), tabs keep different tokens (`TokensApart`), a token that is
presented is live until it is replaced, and so is its replacement until the tab has it
(`PresentedIsLive`, `AnswersAreNew`), no lock is left behind by a refresh that is over
(`LocksAreHeld`), and nobody revokes all tokens (`NobodyLeaves`). Calm leaves out logouts and
password resets, failures and expired locks, a page left in the middle of a refresh, and
duplicated tabs: two tabs with one token that present it one after the other do look like a
reuse to auth-service, which revokes every session (auth.service.ts:96). That its lock and
its cache do no worse for them is `OneLiveTokenPerSignIn`.

`AccountsTypeCorrect` (`TypeOK`) says in full what `TypeInv` says only as far as the others
need it. `Held` adds that reset links are issued in order and that one is left for every
handler that may still create one (`LinkTable`), that what a handler was given
(`AllGiven`), what is cached, blacklisted or expired (`TokenSets`) and what a request
carries was issued, and that nobody signs in on a page that is bootstrapping (`Pages`).

**Ladder** (`LadderProofs`). `MatchCountsOnce` (`CountedOnce`) and `SeasonIsArchivedOnce`
(the action property `ArchivedOnce`), for any expected-score function. Ratings are written
in the transaction that inserts the match under its primary key, and standings in the one
that resets the ratings, so neither the lock of the season reset nor the delivery of jobs
matters. `WorkersOK` says what a worker between its read and its commit may hold and that
the season it rewards is archived, `StandingsOK` and `RatingsOK` that the rows are whole.

`LadderTypeCorrect` (`TypeOK`) and `RewardsAreMailed` (`RewardedIsMailed`: a standing is
marked rewarded only when its mail is on the queue, so a reset that stalls or runs twice may
repeat a mail but records none that was not sent) are about the rest of the tables. Both have the hypothesis `Curve`, that the
expected score is an integer for every difference of ratings; it is stated in the theorems
because TLC cannot evaluate a quantifier over all integers. `TypeInv` adds that at most one
season is active and the order of `updated_at` is a permutation (`Calendar`), what jobs,
board and cache hold (`Queues`, `Board`), what a worker has read (`Reads`), that ranks are
distinct (`Ranked`), and that the batch a worker marks is in the mails (`Mails`). That
`CHOOSE` finds the best player who is left is the least-number principle again
(`LeastNumber`).

**Pages** (`BrowsingProofs`). `ListsHaveTheirPage` (`NeverPastTheEnd`), `HistoryIsComplete`
(`HistoryComplete`), `RegistrationIsShown` (`RegistrationShown`), `DataIsOnesOwn`
(`OwnDataOnly`). For each query a step of the system is one of a few moves of its fetch
(`Moves`), forgets the user's queries, or happens elsewhere, and the invariants are shown
for these moves: what is cached or on its way was right when it was read, and of the user who
is signed in (`Loaded`), the
pages of a history are a chain, each continuing where the one before stopped (`Chain`,
`History`), and the answer that is shown of a tournament agrees with the table unless a fetch
or a call that will tell is still under way (`Told`, `Registration`). That a page of a
history ends at the right row needs the least row not yet shown, which is found by the
least-number principle (`LeastNumber`) in place of induction.

**The page of a match** (`GameClientProofs`). `ThePageCatchesUp` (`ViewConverges`). An event
is in the outbox of a handler, among the reads of the relay, or on the wire, and the relay
may deliver two events in another order than they were published in. The argument: each
event that would leave the page wrong is followed by one that puts it right (`Ordered`,
`Covered`), and while the page is not right one that puts it right is on its way
(`Pending`). It is made three times with the same lemmas, for the match that is shown, its
round and its end (`InPlay`, `RoundShown`, `EndShown`), on top of who is registered and
addressed (`Addressed`) and what the handlers have still to do (`Sequential`). Left out are
a match that begins, moves or ends between the read of a `matchResumed` and its emission, an
older connection that is registered after the open one (both `crossed`), and an end of the
match that found no socket (`missed`).

Every invariant and every action property of the passing runs is proved. Only
model-checked is liveness: fairness and ENABLED are out of the prover's reach. With it goes
`OneLossEach`, which is part of what `TournamentCompletes` says is reached and is not true of
all sizes (section 4).

What the proofs asked of the models: conditions of a CASE that overlap leave the choice
open in TLA+ (TLC takes the first), so the rating window, the K factor and the API's
controllers are chains of IF, in the order of the code; the season to reset is the one
`findFirst` picks by its order (`closedPendingReset`); the scenarios of `Ladder` and
`GameClient` are assumed to be well formed (`ScenarioAssumption`, `ClientAssumption`) and the
standings of `Browsing` to be finitely many, as are the players of `Ladder` and the handlers
of `AuthService`; the scenarios of `Ladder` start with at most one active season (`SingleActiveAssumption`, the partial unique index of
the table); a rating is an integer of either sign, as nothing in `packages/elo` clamps it;
and a season that changes its status moves to the end of `updatedAt` by `RemoveAt`, about
which the provers can reason. The attempt to prove `OneLossEach`
led to the second paragraph of section 4 and to `Knockout`. The attempt to prove `ViewConverges` showed a behaviour outside
TLC's scenarios: a second press of the queue button that is handled only after the match is
over starts another match, and a page that misses its beginning shows its end; the property
now allows the end of a later match.

## 6. Not modelled

- Sending and rendering mails, metrics, health checks, configuration, seeds: no state of
  their own, or run once.
- Formats: tokens, hashes, cursors and payloads are values; validation of requests refuses
  what the models never send. gRPC is a call that may fail or time out.
- The registration of the repeatable season job: `Ladder` starts with it.
- What the front end draws: countdowns, the final screen, formatting. A match in
  `MatchPlay` accepts any play at any time, whatever the page would send.
- Offset pages that shift while users register: the list is right at each read, and the
  code promises no more.
- Several accounts in `AuthService`: tokens of different users share no row and no key.

## 7. State of the plan

The modules, runs and theorems above are what was planned. What could be added: mails as
jobs of their own, the caller of StartMatch once it exists, and several seasons' worth of
leaderboard reads.
