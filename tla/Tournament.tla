------------------------------ MODULE Tournament ------------------------------
(***************************************************************************)
(* A tournament from its creation to its winner.  Players register and     *)
(* leave and an administrator opens and starts it through the API          *)
(* (TournamentsService); job-runner generates the bracket and moves the    *)
(* winners of matches on (GenerateBracketService, the match-ended          *)
(* processor, TournamentProgressionService).  Between them is PostgreSQL   *)
(* (a transaction is one step, except that a value read early in one may   *)
(* be out of date when it commits), a Redis lock, and BullMQ jobs with     *)
(* three attempts.  That a match is started and played is external.        *)
(*                                                                         *)
(* A slot runs one request or one job at a time, of either process.        *)
(***************************************************************************)
EXTENDS Bracket

CONSTANTS
    Users,
    Rating,       \* elo ratings when the bracket is generated
    Slots,        \* requests and jobs that run at the same time
    NoSlot,
    Leavers,      \* bound: the players who may unregister
    MaxDraws,     \* bound: tournament matches that end without a winner
    MaxFaults     \* bound: crashes and failing commands

ASSUME TournamentAssumption ==
    /\ NoOne \notin Users /\ NoSlot \notin Slots /\ IsFiniteSet(Users)
    /\ Rating \in [Users -> Nat]
    /\ Leavers \subseteq Users /\ MaxDraws \in Nat /\ MaxFaults \in Nat

VARIABLES
    status,       \* Tournament.status
    winnerId,     \* Tournament.winnerId
    regs,         \* TournamentRegistration rows
    bracket,      \* TournamentMatch rows: a function on Matches, or NoBracket
    genJobs,      \* generate-bracket jobs, in the order they were queued
    endJobs,      \* match-ended jobs by the tournament match, a subset of Matches
    lock,         \* the slot that holds lock:generate-bracket, or NoSlot
    proc,         \* the handler in each slot
    notified,     \* matches whose players were sent the match-ready mail
    draws, faults, \* counters the bounds are about
    created,      \* history: times the rows of a bracket were created
    late          \* history: the registrations changed behind a started tournament

rows == <<status, winnerId, regs, bracket>>
jobs == <<genJobs, endJobs>>
counters == <<draws, faults>>
history == <<created, late>>
vars == <<rows, jobs, lock, proc, notified, counters, history>>

NoBracket == [m \in {} |-> emptyMatch(m)]
ATTEMPTS == 3
NewJob == [state |-> "waiting", attempts |-> 0]

\* user leaves the tournament, regs is what a job has loaded, m the match of a
\* match-ended job or of a mail, job the number of a generate-bracket job, parent what a
\* transaction has read.
Idle ==
    [pc |-> "idle", user |-> NoOne, regs |-> {}, m |-> <<>>, job |-> 0, parent |-> <<>>]

Init ==
    /\ status = "upcoming" /\ winnerId = NoOne /\ regs = {} /\ bracket = NoBracket
    /\ genJobs = <<>> /\ endJobs = [m \in {} |-> NewJob]
    /\ lock = NoSlot
    /\ proc = [p \in Slots |-> Idle]
    /\ notified = {}
    /\ draws = 0 /\ faults = 0
    /\ created = 0 /\ late = FALSE

At(p, label) == proc[p].pc = label
Goto(p, label) == proc' = [proc EXCEPT ![p].pc = label]
Return(p) == proc' = [proc EXCEPT ![p] = Idle]
Begin(p, handler) == At(p, "idle") /\ proc' = [proc EXCEPT ![p] = handler]

Generating(p) == proc[p].pc \in {"load", "count", "lock", "recount", "create", "mail", "release"}
Progressing(p) == proc[p].pc \in {"persist", "find", "complete", "advance", "fill", "notify", "crown"}

Requesting(p) == proc[p].pc \in {"unregister", "countPlayers", "setInProgress", "enqueue", "rollback"}

HoldsLock(p) == lock = p /\ proc[p].pc \in {"recount", "create", "mail", "release"}

\* The state of the job a slot runs once its processor has returned or thrown.
Settle(p, job) ==
    /\ genJobs' = IF Generating(p) THEN [genJobs EXCEPT ![proc[p].job] = job] ELSE genJobs
    /\ endJobs' = IF Progressing(p)
                  THEN [endJobs EXCEPT ![proc[p].m] = [@ EXCEPT !.state = job.state, !.attempts = job.attempts]]
                  ELSE endJobs
JobOf(p) == IF Generating(p) THEN genJobs[proc[p].job] ELSE endJobs[proc[p].m]
Complete(p) == Return(p) /\ Settle(p, [JobOf(p) EXCEPT !.state = "done"])
\* Any other error: another attempt, as long as there is one.
Throw(p) ==
    LET made == JobOf(p).attempts + 1 IN
    /\ Return(p)
    /\ Settle(p, [JobOf(p) EXCEPT !.attempts = made,
                                  !.state = IF made < ATTEMPTS THEN "waiting" ELSE "failed"])
\* UnrecoverableError
Fail(p) == Return(p) /\ Settle(p, [JobOf(p) EXCEPT !.state = "failed"])

-----------------------------------------------------------------------------
(* TournamentsService *)

\* openRegistration
OpenRegistration ==
    /\ status = "upcoming"
    /\ status' = "registration_open"
    /\ UNCHANGED <<winnerId, regs, bracket, jobs, lock, proc, notified, counters, history>>

RegistrationOpen == status = "registration_open"

\* registerPlayer: the row of the tournament is locked, so nothing else that writes it
\* and no other registration comes in between.
RegisterPlayer(u) ==
    /\ RegistrationOpen
    /\ u \notin regs
    /\ Cardinality(regs) < BracketSize
    /\ regs' = regs \cup {u}
    /\ UNCHANGED <<status, winnerId, bracket, jobs, lock, proc, notified, counters, history>>

\* unregisterPlayer: the status is read ...
UnregisterPlayer(p, u) ==
    /\ status = "registration_open" /\ u \in regs \cap Leavers
    /\ Begin(p, [Idle EXCEPT !.pc = "unregister", !.user = u])
    /\ UNCHANGED <<rows, jobs, lock, notified, counters, history>>

\* ... and the row deleted, whatever the status is by now.
DeleteRegistration(p) ==
    /\ At(p, "unregister")
    /\ regs' = regs \ {proc[p].user}
    /\ late' = (late \/ status # "registration_open")
    /\ Return(p)
    /\ UNCHANGED <<status, winnerId, bracket, jobs, lock, notified, counters, created>>

\* startTournament: the tournament can be started ...
StartTournament(p) ==
    /\ status = "registration_open"
    /\ Begin(p, [Idle EXCEPT !.pc = "countPlayers"])
    /\ UNCHANGED <<rows, jobs, lock, notified, counters, history>>

\* ... NOT_ENOUGH_PLAYERS ...
CountPlayers(p) ==
    /\ At(p, "countPlayers")
    /\ IF Cardinality(regs) < 2 THEN Return(p) ELSE Goto(p, "setInProgress")
    /\ UNCHANGED <<rows, jobs, lock, notified, counters, history>>

\* ... the first of several requests gets it ...
SetInProgress(p) ==
    /\ At(p, "setInProgress")
    /\ IF status = "registration_open"
       THEN status' = "in_progress" /\ Goto(p, "enqueue")
       ELSE Return(p) /\ UNCHANGED status
    /\ UNCHANGED <<winnerId, regs, bracket, jobs, lock, notified, counters, history>>

\* ... and the job is queued.
EnqueueGenerateBracket(p) ==
    /\ At(p, "enqueue")
    /\ genJobs' = Append(genJobs, NewJob)
    /\ Return(p)
    /\ UNCHANGED <<rows, endJobs, lock, notified, counters, history>>

\* The queue reports an error: perhaps it has the job all the same.
EnqueueFails(p) ==
    /\ faults < MaxFaults
    /\ At(p, "enqueue")
    /\ faults' = faults + 1
    /\ \/ UNCHANGED <<genJobs, late>>
       \/ genJobs' = Append(genJobs, NewJob) /\ late' = TRUE
    /\ Goto(p, "rollback")
    /\ UNCHANGED <<rows, endJobs, lock, notified, draws, created>>

RollBack(p) ==
    /\ At(p, "rollback")
    /\ status' = IF status = "in_progress" THEN "registration_open" ELSE status
    /\ Return(p)
    /\ UNCHANGED <<winnerId, regs, bracket, jobs, lock, notified, counters, history>>

-----------------------------------------------------------------------------
(* GenerateBracketService.processGenerateBracket *)

GenerateBracket(p, j) ==
    /\ genJobs[j].state = "waiting"
    /\ Begin(p, [Idle EXCEPT !.pc = "load", !.job = j])
    /\ genJobs' = [genJobs EXCEPT ![j].state = "active"]
    /\ UNCHANGED <<rows, endJobs, lock, notified, counters, history>>

\* The tournament and its registrations.
LoadTournament(p) ==
    /\ At(p, "load")
    /\ IF status = "in_progress"
       THEN proc' = [proc EXCEPT ![p].pc = "count", ![p].regs = regs] /\ UNCHANGED jobs
       ELSE Fail(p)
    /\ UNCHANGED <<rows, lock, notified, counters, history>>

\* already_generated: the mails, which carry the same job ids as before.
CountMatches(p) ==
    /\ At(p, "count")
    /\ IF bracket # NoBracket THEN Complete(p) ELSE Goto(p, "lock") /\ UNCHANGED jobs
    /\ UNCHANGED <<rows, lock, notified, counters, history>>

AcquireLock(p) ==
    /\ At(p, "lock")
    /\ IF lock = NoSlot
       THEN lock' = p /\ Goto(p, "recount") /\ UNCHANGED jobs
       ELSE Throw(p) /\ UNCHANGED lock
    /\ UNCHANGED <<rows, notified, counters, history>>

\* Mutant: the matches are not counted again under the lock.
GeneratedMeanwhile_Ignored == FALSE

GeneratedMeanwhile == bracket # NoBracket

\* already_generated again, or too few registrations.  Either way the lock is released.
RecountMatches(p) ==
    /\ At(p, "recount")
    /\ \/ GeneratedMeanwhile /\ Goto(p, "release") /\ UNCHANGED <<jobs, lock>>
       \/ /\ ~GeneratedMeanwhile /\ Cardinality(proc[p].regs) < 2
          /\ Fail(p) /\ lock' = NoSlot
       \/ /\ ~GeneratedMeanwhile /\ Cardinality(proc[p].regs) >= 2
          /\ Goto(p, "create") /\ UNCHANGED <<jobs, lock>>
    /\ UNCHANGED <<rows, notified, counters, history>>

\* The transaction: it fails when a registration it wants to seed is gone.
CreateMatches(p) ==
    /\ At(p, "create")
    /\ IF proc[p].regs \subseteq regs
       THEN /\ \E seeds \in Seedings(proc[p].regs, Rating) :
                  bracket' = buildBracketStructure(seeds)
            /\ created' = created + 1
            /\ Goto(p, "mail") /\ UNCHANGED <<jobs, lock>>
       ELSE Throw(p) /\ lock' = NoSlot /\ UNCHANGED <<bracket, created>>
    /\ UNCHANGED <<status, winnerId, regs, notified, counters, late>>

\* The tournament-started mails.
MailStarted(p) ==
    /\ At(p, "mail")
    /\ Goto(p, "release")
    /\ UNCHANGED <<rows, jobs, lock, notified, counters, history>>

\* The lock carries a token: a slot deletes only its own.
ReleaseLock(p) ==
    /\ At(p, "release")
    /\ lock' = IF HoldsLock(p) THEN NoSlot ELSE lock
    /\ Complete(p)
    /\ UNCHANGED <<rows, notified, counters, history>>

\* The lock of a dead holder expires after ten minutes.
LockExpire ==
    /\ lock # NoSlot /\ ~HoldsLock(lock)
    /\ lock' = NoSlot
    /\ UNCHANGED <<rows, jobs, proc, notified, counters, history>>

-----------------------------------------------------------------------------
(* Matches and the match-ended job *)

\* A playable match is started by a StartMatch call and ends: won by either side or
\* drawn.  Game-service publishes one job for it.  A request takes far less time than
\* a match.
PlayMatch(m) ==
    /\ \A p \in Slots : ~Requesting(p)
    /\ m \in DOMAIN bracket /\ m \notin DOMAIN endJobs
    /\ Playable(bracket[m])
    /\ \E result \in Sides \cup {"none"} :
          /\ result = "none" => draws < MaxDraws
          /\ draws' = IF result = "none" THEN draws + 1 ELSE draws
          /\ endJobs' = [n \in DOMAIN endJobs \cup {m} |->
                IF n # m THEN endJobs[n]
                ELSE [state |-> "waiting", attempts |-> 0,
                      winner |-> IF result = "none" THEN NoOne ELSE bracket[m].slot[result]]]
    /\ UNCHANGED <<rows, genJobs, lock, proc, notified, faults, history>>

MatchEnded(p, m) ==
    /\ endJobs[m].state = "waiting"
    /\ Begin(p, [Idle EXCEPT !.pc = "persist", !.m = m])
    /\ endJobs' = [endJobs EXCEPT ![m].state = "active"]
    /\ UNCHANGED <<rows, genJobs, lock, notified, counters, history>>

\* persistMatchEnded, in as far as the tournament sees it: the link is set once.
\* Then the leaderboard cache is dropped.
PersistMatchEnded(p) ==
    /\ At(p, "persist")
    /\ bracket' = [bracket EXCEPT ![proc[p].m].linked = TRUE]
    /\ Goto(p, "find")
    /\ UNCHANGED <<status, winnerId, regs, jobs, lock, notified, counters, history>>

WinnerSide(p) == {side \in Sides : bracket[proc[p].m].slot[side] = endJobs[proc[p].m].winner}

\* processMatchEnded: no_winner, already_advanced, not_tournament_match, or one of the
\* two transactions.
FindTournamentMatch(p) ==
    LET m == proc[p].m IN
    /\ At(p, "find")
    /\ IF endJobs[m].winner = NoOne \/ ~Undecided(bracket[m]) \/ WinnerSide(p) = {}
       THEN Complete(p)
       ELSE Goto(p, IF bracket[m].next THEN "advance" ELSE "complete") /\ UNCHANGED jobs
    /\ UNCHANGED <<rows, lock, notified, counters, history>>

\* completeTournament
CompleteTournament(p) ==
    LET m == proc[p].m IN
    /\ At(p, "complete")
    /\ \E side \in WinnerSide(p) : bracket' = [bracket EXCEPT ![m].winnerSlot = side]
    /\ winnerId' = endJobs[m].winner
    /\ status' = "completed"
    /\ Goto(p, "crown")
    /\ UNCHANGED <<regs, jobs, lock, notified, counters, history>>

\* The tournament-completed mail.
CrownWinner(p) ==
    /\ At(p, "crown")
    /\ Complete(p)
    /\ UNCHANGED <<rows, lock, notified, counters, history>>

\* advanceWinner: the transaction reads the parent ...
ReadParent(p) ==
    /\ At(p, "advance")
    /\ proc' = [proc EXCEPT ![p].pc = "fill", ![p].parent = bracket[Parent(proc[p].m)]]
    /\ UNCHANGED <<rows, jobs, lock, notified, counters, history>>

\* Mutant: the parent as it was read decides, not the row the update returns.
BecomesReady_Stale(read, updated, side) ==
    Playable([read EXCEPT !.slot[side] = updated.slot[side]]) /\ ~read.linked

BecomesReady(read, updated, side) == Playable(updated) /\ ~updated.linked

\* ... and fills one of its slots, which may give it its second player.
FillParent(p) ==
    LET m == proc[p].m
        player == endJobs[m].winner
        target == feederTarget(m, proc[p].parent, player)
        decided == [bracket EXCEPT ![m].winnerSlot = CHOOSE side \in WinnerSide(p) : TRUE]
    IN
    /\ At(p, "fill")
    /\ \/ /\ target = {}
          /\ bracket' = decided
          /\ Complete(p)
       \/ \E side \in target :
             /\ bracket' = [decided EXCEPT ![Parent(m)].slot[side] = player]
             /\ IF BecomesReady(proc[p].parent, bracket'[Parent(m)], side)
                THEN Goto(p, "notify") /\ UNCHANGED jobs
                ELSE Complete(p)
    /\ UNCHANGED <<status, winnerId, regs, lock, notified, counters, history>>

\* notifyReadyMatch: the match-ready mails.
NotifyReadyMatch(p) ==
    /\ At(p, "notify")
    /\ notified' = notified \cup {Parent(proc[p].m)}
    /\ Complete(p)
    /\ UNCHANGED <<rows, lock, counters, history>>

-----------------------------------------------------------------------------
(* Failures *)

\* A command fails: a transaction is rolled back, a finally block releases the lock, and
\* the job has one attempt less.
CommandFails(p) ==
    /\ faults < MaxFaults
    /\ faults' = faults + 1
    /\ Generating(p) \/ Progressing(p)
    /\ Throw(p)
    /\ lock' = IF HoldsLock(p) THEN NoSlot ELSE lock
    /\ UNCHANGED <<rows, notified, draws, history>>

\* The process dies: a request is lost, a job is found stalled and run again, and a lock
\* stays.
Crash(p) ==
    /\ faults < MaxFaults
    /\ faults' = faults + 1
    /\ ~At(p, "idle")
    /\ Return(p)
    /\ IF Generating(p) \/ Progressing(p)
       THEN Settle(p, [JobOf(p) EXCEPT !.state = "waiting"])
       ELSE UNCHANGED jobs
    /\ UNCHANGED <<rows, lock, notified, draws, history>>

-----------------------------------------------------------------------------
Step(p) ==
    \/ DeleteRegistration(p)
    \/ CountPlayers(p) \/ SetInProgress(p) \/ EnqueueGenerateBracket(p) \/ RollBack(p)
    \/ LoadTournament(p) \/ CountMatches(p) \/ AcquireLock(p) \/ RecountMatches(p)
    \/ CreateMatches(p) \/ MailStarted(p) \/ ReleaseLock(p)
    \/ PersistMatchEnded(p) \/ FindTournamentMatch(p) \/ CompleteTournament(p)
    \/ CrownWinner(p) \/ ReadParent(p) \/ FillParent(p) \/ NotifyReadyMatch(p)

TakeJob(p) ==
    \/ \E j \in DOMAIN genJobs : GenerateBracket(p, j)
    \/ \E m \in DOMAIN endJobs : MatchEnded(p, m)

Request(p) == StartTournament(p) \/ \E u \in Users : UnregisterPlayer(p, u)

Next ==
    \/ OpenRegistration
    \/ \E u \in Users : RegisterPlayer(u)
    \/ \E p \in Slots : Request(p) \/ TakeJob(p) \/ Step(p)
    \/ \E m \in Matches : PlayMatch(m)
    \/ LockExpire
    \/ \E p \in Slots : EnqueueFails(p) \/ CommandFails(p) \/ Crash(p)

Spec == Init /\ [][Next]_vars

\* Handlers run to completion, a waiting job is taken some day, and the players of a
\* match that can be played play it.
FairSpec ==
    /\ Spec
    /\ \A p \in Slots : WF_vars(Step(p))
    /\ WF_vars(\E p \in Slots : TakeJob(p))
    /\ \A m \in Matches : WF_vars(PlayMatch(m))
-----------------------------------------------------------------------------
(* Properties. *)

Labels ==
    {"idle", "unregister", "countPlayers", "setInProgress", "enqueue", "rollback",
     "load", "count", "lock", "recount", "create", "mail", "release",
     "persist", "find", "complete", "advance", "fill", "notify", "crown"}
MatchRow ==
    [slot : [Sides -> Users \cup {NoOne}], winnerSlot : Sides \cup {"none"},
     next : BOOLEAN, linked : BOOLEAN]

\* Every row and every job is well formed; a match is decided for a player in it.
TypeOK ==
    /\ status \in {"upcoming", "registration_open", "in_progress", "completed"}
    /\ winnerId \in Users \cup {NoOne}
    /\ regs \subseteq Users /\ Cardinality(regs) <= BracketSize
    /\ DOMAIN bracket \in {{}, Matches} /\ bracket \in [DOMAIN bracket -> MatchRow]
    /\ \A m \in DOMAIN bracket : Undecided(bracket[m]) \/ bracket[m].winnerSlot \in Filled(bracket[m])
    /\ \A j \in DOMAIN genJobs : genJobs[j].attempts \in 0..ATTEMPTS
    /\ \A m \in DOMAIN endJobs : m \in Matches /\ endJobs[m].attempts \in 0..ATTEMPTS
    /\ lock \in Slots \cup {NoSlot}
    /\ \A p \in Slots : proc[p].pc \in Labels
    /\ notified \subseteq Matches

PlayersOf(tree) == UNION {{tree[m].slot[side] : side \in Filled(tree[m])} : m \in DOMAIN tree}
Lost(m, u) ==
    /\ Filled(bracket[m]) = Sides /\ ~Undecided(bracket[m])
    /\ bracket[m].slot[Other(bracket[m].winnerSlot)] = u

\* The rows of the bracket are created once, although nothing in the database makes
\* them unique and a job may run again, or next to a second one, at any point.
OneBracket == created <= 1

\* A player is in a slot of a later round exactly because of winning the match that
\* feeds this slot, whatever the order in which matches end and jobs run.
SlotsFollowFeeders ==
    \A m \in DOMAIN bracket : \A side \in Filled(bracket[m]) :
        Round(m) > 1 =>
            LET f == bracket[Feeder(m, side)] IN
            ~Undecided(f) /\ f.slot[f.winnerSlot] = bracket[m].slot[side]

\* Who has lost a match is out: he is in no other match of that round or of a later one.
\* And whoever completeTournament crowns has lost no match.  In brackets of every size,
\* however few players there are.
LosersAreOut ==
    \A m, n \in DOMAIN bracket, side \in Sides :
        Lost(m, bracket[n].slot[side]) /\ Round(n) >= Round(m) => n = m
WinnerIsUnbeaten == \A m \in DOMAIN bracket : winnerId # NoOne => ~Lost(m, winnerId)
Knockout == LosersAreOut /\ WinnerIsUnbeaten

\* When the second player of a match comes in, both are sent the mail, even if the two
\* jobs that fill the match run at the same time; without failures.
ReadyIsAnnounced ==
    faults = 0 =>
        \A m \in DOMAIN bracket :
            /\ Playable(bracket[m]) /\ Round(m) > 1
            /\ \E side \in Sides : Feeder(m, side) \in DOMAIN endJobs
            => \/ m \in notified
               \/ \E p \in Slots : At(p, "notify") /\ Parent(proc[p].m) = m

\* Everyone in the bracket has lost one match, except the winner, who has lost none.
OneLossEach ==
    \A u \in PlayersOf(bracket) :
        Cardinality({m \in DOMAIN bracket : Lost(m, u)}) = IF u = winnerId THEN 0 ELSE 1

\* A tournament that has started comes to its end, and not before everyone but the winner
\* has been beaten, if all its matches are played and won, without failures, without a
\* registration deleted behind the start and without one deleted while the start was
\* between counting the players and its update.
TournamentCompletes ==
    (status = "in_progress")
        ~> \/ status = "completed" /\ OneLossEach
           \/ faults > 0 \/ late \/ draws > 0 \/ Cardinality(regs) < 2

\* The bracket "does not leave a playable match pointing to an empty final branch"
\* (build-bracket-structure.spec.ts).
NoEmptyFinalBranch ==
    \A m \in DOMAIN bracket :
        Playable(bracket[m]) /\ bracket[m].next => ~isBranchEmpty(bracket, Sibling(m))
====
