------------------------------- MODULE MatchPlay -------------------------------
(***************************************************************************)
(* One match inside a cluster of game-service instances.  Redis and the    *)
(* BullMQ queues are shared; every handler (a socket message, a socket     *)
(* opening or closing, a job of a worker) runs in a slot and advances by   *)
(* one Redis or queue command at a time, so the handlers of all instances  *)
(* interleave at every await.  A slot stands for a concurrent execution on *)
(* some instance, not for an instance.                                     *)
(*                                                                         *)
(* Time is abstracted: a delayed job may fire at any moment after it was   *)
(* added.  Keys with a TTL of minutes or more do not expire during a       *)
(* match; the match lock, with its TTL of two seconds, does (LockExpire).  *)
(***************************************************************************)
EXTENDS MatchRules, FiniteSets

CONSTANTS
    PlayHandlers,     \* slots for "play" socket messages
    TimeoutWorkers,   \* slots of the match-timeouts worker
    ForfeitWorkers,   \* slots of the match-disconnect-forfeits worker
    SocketHandlers,   \* slots for socket connections and disconnections
    Matchmaker,       \* the slot that paired the players and starts the match
    NoProc,
    PLAY_ATTEMPTS,    \* 5 in submitPlay
    FORFEIT_ATTEMPTS, \* 5 in match-disconnect.constants.ts
    ClientMoves,      \* bound: the moves clients send
    MaxSockets,       \* bound: sockets a player opens
    Scenarios,        \* what may happen in a behaviour; see MCMatchPlay
    SlowHolder        \* whether the lock may expire under a live holder

Procs == PlayHandlers \cup TimeoutWorkers \cup ForfeitWorkers \cup SocketHandlers
             \cup {Matchmaker}

ASSUME ProcsAssumption == NoProc \notin Procs
ASSUME BoundsAssumption ==
    /\ PLAY_ATTEMPTS \in Nat \ {0}
    /\ FORFEIT_ATTEMPTS \in Nat \ {0}
    /\ ClientMoves \subseteq Move
    /\ MaxSockets \in Nat \ {0}
    /\ \A s \in Scenarios :
          /\ s.moving \subseteq Users /\ s.roaming \subseteq Players
          /\ s.sockets \in 1..MaxSockets /\ s.due \subseteq {"timeouts", "forfeits"}
          /\ s.faults \in Nat /\ s.crashes \in Nat
    /\ SlowHolder \in BOOLEAN

VARIABLES
    match,       \* match:{id}:state
    lock,        \* match:{id}:lock, the slot whose token it holds, or NoProc
    finalized,   \* match:{id}:finalized exists
    byUser,      \* match:byUser:{u} points to this match
    sock,        \* ws:user:{u}:socket, or 0
    tkey,        \* match:{id}:timeoutJob, a job id, or 0
    tjobs,       \* jobs in the match-timeouts queue
    tnext,       \* last job id given out by that queue
    fkey,        \* match:disconnectForfeit:{u}, a job id, or 0
    fjobs,       \* jobs in the match-disconnect-forfeits queue
    fnext,       \* last job id given out by that queue
    published,   \* states added to the match-ended queue
    told,        \* states sent to the players as matchEnded
    opened,      \* number of sockets each player has opened
    live,        \* the sockets of each player that are open
    proc,        \* the handler running in each slot
    faults, crashes, \* failures so far
    scenario,    \* bounds: the users who send moves, the players whose sockets open and
                 \* close and how many, the queues whose delayed jobs come due, the
                 \* commands that fail and the handlers that die
    timerLost    \* history: the timer of the open round was dropped or removed

redis == <<match, lock, finalized, byUser, sock>>
timers == <<tkey, tjobs, tnext>>
forfeits == <<fkey, fjobs, fnext>>
outputs == <<published, told>>
clients == <<opened, live, scenario>>
failures == <<faults, crashes>>
vars == <<redis, timers, forfeits, outputs, clients, proc, failures, timerLost>>

\* A handler: kind, where it is, and its local variables.  state is what mutateState
\* returned (or will save), followUp whether the caller acts on it, key the job id
\* that cancelTimeout or cancelForfeit has read, todo the users left to cancel for.
Idle ==
    [pc |-> "idle", kind |-> "none", user |-> NoUser, round |-> 0, move |-> NoMove,
     state |-> buildInitialState, followUp |-> FALSE, job |-> 0, sid |-> 0,
     key |-> 0, todo |-> {}, tries |-> 0]

Critical == {"load", "save", "abort", "release"}

Init ==
    /\ match = buildInitialState
    /\ lock = NoProc
    /\ finalized = FALSE
    /\ byUser = [u \in Players |-> TRUE]
    /\ sock = [u \in Players |-> 1]
    /\ tkey = 0 /\ tjobs = {} /\ tnext = 0
    /\ fkey = [u \in Players |-> 0] /\ fjobs = {} /\ fnext = 0
    /\ published = {} /\ told = {}
    /\ opened = [u \in Players |-> 1]
    /\ live = [u \in Players |-> {1}]
    /\ proc = [p \in Procs |->
                  IF p = Matchmaker THEN [Idle EXCEPT !.pc = "tget", !.kind = "start"]
                  ELSE Idle]
    /\ faults = 0 /\ crashes = 0
    /\ scenario \in Scenarios
    /\ timerLost = FALSE

-----------------------------------------------------------------------------
(* Control flow of a slot. *)

At(p, label) == proc[p].pc = label
Goto(p, label) == proc' = [proc EXCEPT ![p].pc = label]
Begin(p, handler) == At(p, "idle") /\ proc' = [proc EXCEPT ![p] = handler]

OtherTimeoutJobs(p) ==
    {j \in tjobs : ~(proc[p].kind = "timeout" /\ j.id = proc[p].job)}
OtherForfeitJobs(p) ==
    {j \in fjobs : ~(proc[p].kind = "forfeit" /\ j.id = proc[p].job)}
OwnForfeitJobs(p) == fjobs \ OtherForfeitJobs(p)

\* The handler returns; BullMQ removes the job it was processing.
Return(p) ==
    /\ proc' = [proc EXCEPT ![p] = Idle]
    /\ tjobs' = OtherTimeoutJobs(p)
    /\ fjobs' = OtherForfeitJobs(p)

\* The handler throws.  A timeout job has a single attempt and is removed; a forfeit
\* job is delayed again until its attempts are used up; a socket handler just ends.
Throw(p) ==
    /\ proc' = [proc EXCEPT ![p] = Idle]
    /\ tjobs' = OtherTimeoutJobs(p)
    /\ fjobs' = OtherForfeitJobs(p) \cup
                  {[j EXCEPT !.active = FALSE, !.tries = @ + 1] :
                      j \in {i \in OwnForfeitJobs(p) : i.tries + 1 < FORFEIT_ATTEMPTS}}

-----------------------------------------------------------------------------
(* Handlers starting. *)

\* submitPlay on a "play" message; the client chooses match, round and move.
SubmitPlay(p, u, round, move) ==
    /\ Begin(p, [Idle EXCEPT !.pc = "acquire", !.kind = "play", !.user = u,
                             !.round = round, !.move = move])
    /\ UNCHANGED <<redis, timers, forfeits, outputs, clients, failures, timerLost>>

\* MatchTimeoutWorkerService.processJob
FireTimeout(p, j) ==
    /\ ~j.active
    /\ Begin(p, [Idle EXCEPT !.pc = "acquire", !.kind = "timeout", !.round = j.round,
                             !.job = j.id])
    /\ tjobs' = (tjobs \ {j}) \cup {[j EXCEPT !.active = TRUE]}
    /\ UNCHANGED <<redis, tkey, tnext, forfeits, outputs, clients, failures, timerLost>>

\* MatchDisconnectWorkerService.processJob
FireForfeit(p, j) ==
    /\ ~j.active
    /\ Begin(p, [Idle EXCEPT !.pc = "check", !.kind = "forfeit", !.user = j.user,
                             !.job = j.id])
    /\ fjobs' = (fjobs \ {j}) \cup {[j EXCEPT !.active = TRUE]}
    /\ UNCHANGED <<redis, timers, fkey, fnext, outputs, clients, failures, timerLost>>

\* A player opens a socket: GameGateway.handleConnection
Connect(p, u) ==
    /\ opened[u] < scenario.sockets
    /\ opened' = [opened EXCEPT ![u] = @ + 1]
    /\ live' = [live EXCEPT ![u] = @ \cup {opened[u] + 1}]
    /\ Begin(p, [Idle EXCEPT !.pc = "register", !.kind = "connect", !.user = u,
                             !.sid = opened[u] + 1])
    /\ UNCHANGED <<redis, timers, forfeits, outputs, scenario, failures, timerLost>>

\* A socket of a player closes: GameGateway.handleDisconnect
Disconnect(p, u, sid) ==
    /\ sid \in live[u]
    /\ live' = [live EXCEPT ![u] = @ \ {sid}]
    /\ Begin(p, [Idle EXCEPT !.pc = "inMatch", !.kind = "disconnect", !.user = u,
                             !.sid = sid])
    /\ UNCHANGED <<redis, timers, forfeits, outputs, opened, scenario, failures, timerLost>>

-----------------------------------------------------------------------------
(* MatchSessionService.mutateState, with the three mutators. *)

\* handleDisconnectForfeit returns at once when the player has a socket again.
CheckSocket(p) ==
    /\ At(p, "check")
    /\ IF sock[proc[p].user] # 0
       THEN Return(p)
       ELSE Goto(p, "acquire") /\ UNCHANGED <<tjobs, fjobs>>
    /\ UNCHANGED <<redis, tkey, tnext, fkey, fnext, outputs, clients, failures, timerLost>>

\* Mutant: the lock is set without NX.
AcquireLock_Overwrite(p) ==
    /\ At(p, "acquire")
    /\ lock' = p
    /\ Goto(p, "load")
    /\ UNCHANGED <<match, finalized, byUser, sock, timers, forfeits, outputs, clients,
                   failures, timerLost>>

AcquireLock(p) ==
    /\ At(p, "acquire")
    /\ lock = NoProc
    /\ lock' = p
    /\ Goto(p, "load")
    /\ UNCHANGED <<match, finalized, byUser, sock, timers, forfeits, outputs, clients,
                   failures, timerLost>>

\* MatchSessionLockError: submitPlay tries again, the two job handlers throw.
LockBusy(p) ==
    /\ At(p, "acquire")
    /\ lock # NoProc
    /\ IF proc[p].kind = "play" /\ proc[p].tries + 1 < PLAY_ATTEMPTS
       THEN proc' = [proc EXCEPT ![p].tries = @ + 1] /\ UNCHANGED <<tjobs, fjobs>>
       ELSE Throw(p)
    /\ timerLost' = (timerLost \/ (/\ proc[p].kind = "timeout"
                                   /\ timeoutApplies(match, proc[p].round)))
    /\ UNCHANGED <<redis, tkey, tnext, fkey, fnext, outputs, clients, failures>>

\* Mutant: only a play acts on the state that mutateState returned.
Mutated_PlaysOnly(h, state, followUp) ==
    [Idle EXCEPT !.pc = "save", !.kind = h.kind, !.job = h.job, !.state = state,
                 !.followUp = followUp /\ h.kind = "play"]

\* The locals a handler still reads after the mutator has run.
Mutated(h, state, followUp) ==
    [Idle EXCEPT !.pc = "save", !.kind = h.kind, !.job = h.job, !.state = state,
                 !.followUp = followUp]

\* loadState and the mutator, which runs without an await in between.
LoadState(p) ==
    LET h == proc[p] IN
    /\ At(p, "load")
    /\ \/ /\ h.kind = "play" /\ playRejected(match, h.user, h.round)
          /\ proc' = [proc EXCEPT ![p] = [Idle EXCEPT !.pc = "abort", !.kind = "play"]]
       \/ /\ h.kind = "play" /\ ~playRejected(match, h.user, h.round)
          /\ proc' = [proc EXCEPT ![p] = Mutated(h, afterPlay(match, h.user, h.move),
                                                 completesRound(match, h.user))]
       \/ /\ h.kind = "timeout"
          /\ LET state == afterTimeout(match, h.round) IN
             proc' = [proc EXCEPT ![p] = Mutated(h, state, state.status = "ENDED")]
       \/ /\ h.kind = "forfeit"
          /\ proc' = [proc EXCEPT ![p] = Mutated(h, afterForfeit(match, h.user),
                                                 forfeitApplies(match, h.user))]
    /\ UNCHANGED <<redis, timers, forfeits, outputs, clients, failures, timerLost>>

\* saveState: an unconditional SET, also when the mutator returned the state as it was.
SaveState(p) ==
    /\ At(p, "save")
    /\ match' = proc[p].state
    /\ Goto(p, "release")
    /\ UNCHANGED <<lock, finalized, byUser, sock, timers, forfeits, outputs, clients,
                   failures, timerLost>>

\* releaseLock deletes the key only while it holds the caller's token.
Released(p) == IF lock = p THEN NoProc ELSE lock

\* The finally block, and what the caller does with the state it gets back.
ReleaseLock(p) ==
    /\ At(p, "release")
    /\ lock' = Released(p)
    /\ IF ~proc[p].followUp THEN Return(p)
       ELSE /\ Goto(p, IF proc[p].kind = "play" THEN "notify" ELSE "claim")
            /\ UNCHANGED <<tjobs, fjobs>>
    /\ UNCHANGED <<match, finalized, byUser, sock, tkey, tnext, fkey, fnext, outputs,
                   clients, failures, timerLost>>

\* The mutator threw PlayValidationError: nothing is saved.
AbortMutation(p) ==
    /\ At(p, "abort")
    /\ lock' = Released(p)
    /\ Throw(p)
    /\ UNCHANGED <<match, finalized, byUser, sock, tkey, tnext, fkey, fnext, outputs,
                   clients, failures, timerLost>>

\* The TTL of the lock runs out: always after its holder died, and under a holder
\* that takes longer than MATCH_LOCK_TTL_SECONDS when SlowHolder.
LockExpire ==
    /\ lock # NoProc
    /\ SlowHolder \/ proc[lock].pc \notin Critical
    /\ lock' = NoProc
    /\ UNCHANGED <<match, finalized, byUser, sock, timers, forfeits, outputs, clients,
                   proc, failures, timerLost>>

-----------------------------------------------------------------------------
(* afterRoundResolved, onMatchStarted and the timeout scheduler. *)

Finalizing(p) == proc[p].state.status = "ENDED"

\* afterRoundResolved: roundResolved to both players, then the end or the next round.
NotifyRound(p) ==
    /\ At(p, "notify")
    /\ Goto(p, IF Finalizing(p) THEN "claim" ELSE "tget")
    /\ UNCHANGED <<redis, timers, forfeits, outputs, clients, failures, timerLost>>

\* Where schedulePhaseTimeout or clearTimer continues after cancelTimeout.
AfterTimerCancel(p) == IF Finalizing(p) THEN "fget" ELSE "tadd"

\* cancelTimeout: read the key ...
TimerKeyGet(p) ==
    /\ At(p, "tget")
    /\ proc' = [proc EXCEPT ![p].key = tkey,
                            ![p].pc = IF tkey = 0 THEN AfterTimerCancel(p) ELSE "tremove"]
    /\ UNCHANGED <<redis, timers, forfeits, outputs, clients, failures, timerLost>>

\* ... remove that job, unless it is active (the error is swallowed) or gone ...
TimerRemove(p) ==
    LET removed == {j \in tjobs : j.id = proc[p].key /\ ~j.active} IN
    /\ At(p, "tremove")
    /\ tjobs' = tjobs \ removed
    /\ timerLost' = (timerLost \/ \E j \in removed :
                        timeoutApplies(match, j.round) /\ j.round # proc[p].state.currentRound)
    /\ Goto(p, "tdel")
    /\ UNCHANGED <<redis, tkey, tnext, forfeits, outputs, clients, failures>>

\* ... and delete the key, whatever it holds by now.
TimerKeyDel(p) ==
    /\ At(p, "tdel")
    /\ tkey' = 0
    /\ proc' = [proc EXCEPT ![p].pc = AfterTimerCancel(p), ![p].key = 0]
    /\ UNCHANGED <<redis, tjobs, tnext, forfeits, outputs, clients, failures, timerLost>>

\* Mutant: the job is added for the round after the open one.
TimerAdd_NextRound(p) ==
    /\ At(p, "tadd")
    /\ tnext' = tnext + 1
    /\ tjobs' = tjobs \cup {[id |-> tnext + 1, round |-> proc[p].state.currentRound + 1,
                             active |-> FALSE, stalled |-> FALSE]}
    /\ proc' = [proc EXCEPT ![p].pc = "tset", ![p].key = tnext + 1]
    /\ UNCHANGED <<redis, tkey, forfeits, outputs, clients, failures, timerLost>>

\* scheduleTimeout: add the delayed job ...
TimerAdd(p) ==
    /\ At(p, "tadd")
    /\ tnext' = tnext + 1
    /\ tjobs' = tjobs \cup {[id |-> tnext + 1, round |-> proc[p].state.currentRound,
                             active |-> FALSE, stalled |-> FALSE]}
    /\ proc' = [proc EXCEPT ![p].pc = "tset", ![p].key = tnext + 1]
    /\ UNCHANGED <<redis, tkey, forfeits, outputs, clients, failures, timerLost>>

\* ... and remember its id.
TimerKeySet(p) ==
    /\ At(p, "tset")
    /\ tkey' = proc[p].key
    /\ proc' = [proc EXCEPT ![p].pc = "start", ![p].key = 0]
    /\ UNCHANGED <<redis, tjobs, tnext, forfeits, outputs, clients, failures, timerLost>>

\* broadcastRoundStart, or the matchFound and roundStart of a new match.
BroadcastStart(p) ==
    /\ At(p, "start")
    /\ Return(p)
    /\ UNCHANGED <<redis, tkey, tnext, fkey, fnext, outputs, clients, failures, timerLost>>

-----------------------------------------------------------------------------
(* finalizeMatch and the disconnect scheduler. *)

\* Mutant: the result of setnx is not looked at.
ClaimFinalization_NoGuard(p) ==
    /\ At(p, "claim")
    /\ finalized' = TRUE
    /\ proc' = [proc EXCEPT ![p].pc = "tget", ![p].todo = Players]
    /\ UNCHANGED <<match, lock, byUser, sock, timers, forfeits, outputs, clients, failures,
                   timerLost>>

\* The one-shot guard: setnx match:{id}:finalized.
ClaimFinalization(p) ==
    /\ At(p, "claim")
    /\ finalized' = TRUE
    /\ IF finalized THEN Return(p)
       ELSE /\ proc' = [proc EXCEPT ![p].pc = "tget", ![p].todo = Players]
            /\ UNCHANGED <<tjobs, fjobs>>
    /\ UNCHANGED <<match, lock, byUser, sock, tkey, tnext, fkey, fnext, outputs, clients,
                   failures, timerLost>>

\* Mutant: finalizeMatch frees the players without telling them.
AfterForfeitCancel_NoBroadcast(p, left) ==
    CASE proc[p].kind = "connect"    -> "resumed"
      [] proc[p].kind = "disconnect" -> "fadd"
      [] OTHER                       -> IF left = {} THEN "cleanup" ELSE "fget"

\* Where a handler continues after cancelForfeit with the users left to cancel for.
AfterForfeitCancel(p, left) ==
    CASE proc[p].kind = "connect"    -> "resumed"
      [] proc[p].kind = "disconnect" -> "fadd"
      [] OTHER                       -> IF left = {} THEN "bcast" ELSE "fget"

\* cancelForfeit: read the key of a user ...
ForfeitKeyGet(p) ==
    /\ At(p, "fget")
    /\ \E u \in proc[p].todo :
          LET left == proc[p].todo \ {u} IN
          proc' = [proc EXCEPT ![p].user = u, ![p].todo = left, ![p].key = fkey[u],
                      ![p].pc = IF fkey[u] = 0 THEN AfterForfeitCancel(p, left)
                                ELSE "fremove"]
    /\ UNCHANGED <<redis, timers, forfeits, outputs, clients, failures, timerLost>>

\* ... remove that job, unless it is active or gone ...
ForfeitRemove(p) ==
    /\ At(p, "fremove")
    /\ fjobs' = {j \in fjobs : j.id # proc[p].key \/ j.active}
    /\ Goto(p, "fdel")
    /\ UNCHANGED <<redis, timers, fkey, fnext, outputs, clients, failures, timerLost>>

\* ... and delete the key.
ForfeitKeyDel(p) ==
    /\ At(p, "fdel")
    /\ fkey' = [fkey EXCEPT ![proc[p].user] = 0]
    /\ proc' = [proc EXCEPT ![p].pc = AfterForfeitCancel(p, proc[p].todo), ![p].key = 0]
    /\ UNCHANGED <<redis, timers, fjobs, fnext, outputs, clients, failures, timerLost>>

\* scheduleForfeit: add the job delayed by ten seconds ...
ForfeitAdd(p) ==
    /\ At(p, "fadd")
    /\ fnext' = fnext + 1
    /\ fjobs' = fjobs \cup {[id |-> fnext + 1, user |-> proc[p].user, active |-> FALSE,
                             stalled |-> FALSE, tries |-> 0]}
    /\ proc' = [proc EXCEPT ![p].pc = "fset", ![p].key = fnext + 1]
    /\ UNCHANGED <<redis, timers, fkey, outputs, clients, failures, timerLost>>

\* ... and remember its id.
ForfeitKeySet(p) ==
    /\ At(p, "fset")
    /\ fkey' = [fkey EXCEPT ![proc[p].user] = proc[p].key]
    /\ Return(p)
    /\ UNCHANGED <<redis, tkey, tnext, fnext, outputs, clients, failures, timerLost>>

\* matchEnded to both players, from the state the finalizer holds.
BroadcastEnded(p) ==
    /\ At(p, "bcast")
    /\ told' = told \cup {proc[p].state}
    /\ Goto(p, "cleanup")
    /\ UNCHANGED <<redis, timers, forfeits, published, clients, failures, timerLost>>

\* cleanupUserMappings frees both players for matchmaking.
CleanupUserMappings(p) ==
    /\ At(p, "cleanup")
    /\ byUser' = [u \in Players |-> FALSE]
    /\ Goto(p, "publish")
    /\ UNCHANGED <<match, lock, finalized, sock, timers, forfeits, outputs, clients,
                   failures, timerLost>>

\* publishMatchEnded hands the match to job-runner.
PublishMatchEnded(p) ==
    /\ At(p, "publish")
    /\ published' = published \cup {proc[p].state}
    /\ Return(p)
    /\ UNCHANGED <<redis, tkey, tnext, fkey, fnext, told, clients, failures, timerLost>>

\* finalizeMatch's catch block: the guard is deleted and the error rethrown.
ReleaseGuard(p) ==
    /\ At(p, "unguard")
    /\ finalized' = FALSE
    /\ Throw(p)
    /\ UNCHANGED <<match, lock, byUser, sock, tkey, tnext, fkey, fnext, outputs, clients,
                   failures, timerLost>>

-----------------------------------------------------------------------------
(* Sockets: GameGateway and MatchReconnectService. *)

\* setUserSocket: the last one to write wins.
RegisterSocket(p) ==
    /\ At(p, "register")
    /\ sock' = [sock EXCEPT ![proc[p].user] = proc[p].sid]
    /\ Goto(p, "lookup")
    /\ UNCHANGED <<match, lock, finalized, byUser, timers, forfeits, outputs, clients,
                   failures, timerLost>>

\* handleReconnect: is there a match ...
LookupMatch(p) ==
    /\ At(p, "lookup")
    /\ IF byUser[proc[p].user] THEN Goto(p, "resume") /\ UNCHANGED <<tjobs, fjobs>>
       ELSE Return(p)
    /\ UNCHANGED <<redis, tkey, tnext, fkey, fnext, outputs, clients, failures, timerLost>>

\* ... that has not ended?  Then the pending forfeit is cancelled ...
ResumeMatch(p) ==
    /\ At(p, "resume")
    /\ IF match.status = "ENDED" THEN Return(p)
       ELSE /\ proc' = [proc EXCEPT ![p].pc = "fget", ![p].todo = {proc[p].user}]
            /\ UNCHANGED <<tjobs, fjobs>>
    /\ UNCHANGED <<redis, tkey, tnext, fkey, fnext, outputs, clients, failures, timerLost>>

\* ... and matchResumed is sent.
EmitResumed(p) ==
    /\ At(p, "resumed")
    /\ Return(p)
    /\ UNCHANGED <<redis, tkey, tnext, fkey, fnext, outputs, clients, failures, timerLost>>

\* handleDisconnect: isInMatch.  The commands of one socket go over one connection to
\* Redis: it has been registered before anything is asked for its removal.
CheckInMatch(p) ==
    /\ At(p, "inMatch")
    /\ \A q \in Procs : At(q, "register") => <<proc[q].user, proc[q].sid>> # <<proc[p].user, proc[p].sid>>
    /\ Goto(p, IF byUser[proc[p].user] THEN "matchId" ELSE "leave")
    /\ UNCHANGED <<redis, timers, forfeits, outputs, clients, failures, timerLost>>

\* Mutant: a plain DEL.
Unregistered_Always(p) == [sock EXCEPT ![proc[p].user] = 0]

\* removeUserSocket deletes the key only while it names this socket.
Unregistered(p) ==
    IF sock[proc[p].user] = proc[p].sid THEN [sock EXCEPT ![proc[p].user] = 0] ELSE sock

\* Not in a match: leave the queue and unregister.
LeaveQueue(p) ==
    /\ At(p, "leave")
    /\ sock' = Unregistered(p)
    /\ Return(p)
    /\ UNCHANGED <<match, lock, finalized, byUser, tkey, tnext, fkey, fnext, outputs,
                   clients, failures, timerLost>>

\* getMatchIdForUser reads the key a second time.
GetMatchId(p) ==
    /\ At(p, "matchId")
    /\ IF byUser[proc[p].user] THEN Goto(p, "unregister") /\ UNCHANGED <<tjobs, fjobs>>
       ELSE Return(p)
    /\ UNCHANGED <<redis, tkey, tnext, fkey, fnext, outputs, clients, failures, timerLost>>

\* In a match: only the socket on record starts the forfeit window.
UnregisterSocket(p) ==
    /\ At(p, "unregister")
    /\ sock' = Unregistered(p)
    /\ IF sock[proc[p].user] = proc[p].sid
       THEN /\ proc' = [proc EXCEPT ![p].pc = "fget", ![p].todo = {proc[p].user}]
            /\ UNCHANGED <<tjobs, fjobs>>
       ELSE Return(p)
    /\ UNCHANGED <<match, lock, finalized, byUser, tkey, tnext, fkey, fnext, outputs,
                   clients, failures, timerLost>>

-----------------------------------------------------------------------------
(* Failures. *)

\* In finalizeMatch between the guard and the last command.
Finalization == {"fget", "fremove", "fdel", "bcast", "cleanup", "publish"}
Finalizer(p) == proc[p].kind \in {"play", "timeout", "forfeit"} /\ Finalizing(p)

\* A command of a handler throws.
CommandFails(p) ==
    /\ faults < scenario.faults
    /\ faults' = faults + 1
    /\ \/ \* mutateState: the finally block releases the lock, the caller throws
          /\ proc[p].pc \in {"check", "acquire", "load", "save", "abort"}
          /\ lock' = IF proc[p].pc \in Critical THEN Released(p) ELSE lock
          /\ Throw(p)
          /\ UNCHANGED <<finalized, byUser>>
       \/ \* the release itself, the broadcast of a round, the guard, a socket handler
          /\ \/ proc[p].pc \in {"release", "notify", "start", "claim"}
             \/ proc[p].kind \in {"connect", "disconnect"}
          /\ Throw(p)
          /\ UNCHANGED <<lock, finalized, byUser>>
       \/ \* schedulePhaseTimeout and clearTimer swallow the error
          /\ proc[p].pc \in {"tget", "tremove", "tdel", "tadd", "tset"}
          /\ Goto(p, IF Finalizing(p) THEN "fget" ELSE "start")
          /\ UNCHANGED <<lock, finalized, byUser, tjobs, fjobs>>
       \/ \* finalizeMatch's try block
          /\ proc[p].pc \in Finalization
          /\ Finalizer(p)
          /\ \E gone \in SUBSET Players :
                /\ gone # {} => proc[p].pc = "cleanup"
                /\ byUser' = [u \in Players |-> byUser[u] /\ u \notin gone]
          /\ Goto(p, "unguard")
          /\ UNCHANGED <<lock, finalized, tjobs, fjobs>>
       \/ \* its catch block keeps the guard when the delete fails
          /\ At(p, "unguard")
          /\ Throw(p)
          /\ UNCHANGED <<lock, finalized, byUser>>
    /\ UNCHANGED <<match, sock, tkey, tnext, fkey, fnext, outputs, clients, crashes, timerLost>>

\* The instance dies.  Nothing is released; BullMQ moves the stalled job back to its
\* queue once and fails it the second time.
Crash(p) ==
    LET again(j) == [j EXCEPT !.active = FALSE, !.stalled = TRUE] IN
    /\ ~At(p, "idle")
    /\ crashes < scenario.crashes
    /\ crashes' = crashes + 1
    /\ proc' = [proc EXCEPT ![p] = Idle]
    /\ tjobs' = OtherTimeoutJobs(p) \cup
                   {again(j) : j \in {i \in tjobs \ OtherTimeoutJobs(p) : ~i.stalled}}
    /\ fjobs' = OtherForfeitJobs(p) \cup
                   {again(j) : j \in {i \in OwnForfeitJobs(p) : ~i.stalled}}
    /\ UNCHANGED <<redis, tkey, tnext, fkey, fnext, outputs, clients, faults, timerLost>>

-----------------------------------------------------------------------------
\* The next command of the handler in slot p.
Step(p) ==
    \/ CheckSocket(p) \/ AcquireLock(p) \/ LockBusy(p) \/ LoadState(p) \/ SaveState(p)
    \/ ReleaseLock(p) \/ AbortMutation(p)
    \/ NotifyRound(p) \/ TimerKeyGet(p) \/ TimerRemove(p) \/ TimerKeyDel(p) \/ TimerAdd(p)
    \/ TimerKeySet(p) \/ BroadcastStart(p)
    \/ ClaimFinalization(p) \/ ForfeitKeyGet(p) \/ ForfeitRemove(p) \/ ForfeitKeyDel(p)
    \/ ForfeitAdd(p) \/ ForfeitKeySet(p) \/ BroadcastEnded(p) \/ CleanupUserMappings(p)
    \/ PublishMatchEnded(p) \/ ReleaseGuard(p)
    \/ RegisterSocket(p) \/ LookupMatch(p) \/ ResumeMatch(p) \/ EmitResumed(p)
    \/ CheckInMatch(p) \/ LeaveQueue(p) \/ GetMatchId(p) \/ UnregisterSocket(p)

TimeoutsFire == "timeouts" \in scenario.due /\ \E p \in TimeoutWorkers, j \in tjobs : FireTimeout(p, j)
ForfeitsFire == "forfeits" \in scenario.due /\ \E p \in ForfeitWorkers, j \in fjobs : FireForfeit(p, j)

Next ==
    \/ \E p \in PlayHandlers, u \in scenario.moving, round \in 1..MAX_ROUNDS, move \in ClientMoves :
          SubmitPlay(p, u, round, move)
    \/ TimeoutsFire
    \/ ForfeitsFire
    \/ \E p \in SocketHandlers, u \in scenario.roaming : Connect(p, u)
    \/ \E p \in SocketHandlers, u \in scenario.roaming, sid \in 1..MaxSockets : Disconnect(p, u, sid)
    \/ \E p \in Procs : Step(p)
    \/ LockExpire
    \/ \E p \in Procs : CommandFails(p)
    \/ \E p \in Procs : Crash(p)

Spec == Init /\ [][Next]_vars

\* Handlers run to completion, delayed jobs are eventually picked up, keys expire.
\* Players owe nothing: they may never move, connect or disconnect.
FairSpec ==
    /\ Spec
    /\ \A p \in Procs : WF_vars(Step(p))
    /\ WF_vars(TimeoutsFire)
    /\ WF_vars(ForfeitsFire)
    /\ WF_vars(LockExpire)

-----------------------------------------------------------------------------
(* Properties. *)

Ended == match.status = "ENDED"

TimeoutJob == [id : Nat, round : 1..MAX_ROUNDS, active : BOOLEAN, stalled : BOOLEAN]
ForfeitJob == [id : Nat, user : Players, active : BOOLEAN, stalled : BOOLEAN, tries : Nat]
Labels == Critical \cup Finalization \cup
    {"idle", "check", "acquire", "notify", "start", "claim", "unguard", "tget", "tremove",
     "tdel", "tadd", "tset", "fadd", "fset", "register", "lookup", "resume", "resumed",
     "inMatch", "leave", "matchId", "unregister"}
Kinds == {"none", "start", "play", "timeout", "forfeit", "connect", "disconnect"}
Handler ==
    [pc : Labels, kind : Kinds, user : Users \cup {NoUser}, round : 0..MAX_ROUNDS,
     move : Move \cup {NoMove}, state : MatchState, followUp : BOOLEAN, job : Nat,
     sid : Nat, key : Nat, todo : SUBSET Players, tries : Nat]

TypeOK ==
    /\ match \in MatchState
    /\ lock \in Procs \cup {NoProc}
    /\ finalized \in BOOLEAN
    /\ byUser \in [Players -> BOOLEAN]
    /\ sock \in [Players -> Nat]
    /\ tkey \in Nat /\ tnext \in Nat /\ fkey \in [Players -> Nat] /\ fnext \in Nat
    /\ tjobs \subseteq TimeoutJob
    /\ fjobs \subseteq ForfeitJob
    /\ published \subseteq MatchState /\ told \subseteq MatchState
    /\ opened \in [Players -> Nat]
    /\ live \in [Players -> SUBSET Nat]
    /\ proc \in [Procs -> Handler]
    /\ faults \in Nat /\ crashes \in Nat /\ scenario \in Scenarios
    /\ timerLost \in BOOLEAN

\* Every handler is between the guard of finalizeMatch and its end.
InFinalization(p) ==
    /\ Finalizer(p)
    /\ proc[p].pc \in Finalization \cup {"tget", "tremove", "tdel", "unguard"}

\* The stored state only ever changes by whole mutations of the state before it, as
\* MatchSession says, although mutateState reads, computes and writes in separate
\* commands, handlers fail half way and the lock of a dead handler expires.
Session == INSTANCE MatchSession
    WITH UserA <- UserA, UserB <- UserB, OtherUsers <- OtherUsers, MAX_ROUNDS <- MAX_ROUNDS,
         WINS_TO_END <- WINS_TO_END, match <- match
ImplementsSession == Session!Spec

\* Only one handler at a time is inside finalizeMatch, and while one is the guard is
\* set, although plays, timeouts and forfeits all lead there and a failed
\* finalization gives the guard back.
OneFinalizer ==
    \A p, q \in Procs : InFinalization(p) /\ InFinalization(q) => p = q /\ finalized

\* What the players are told and what job-runner is sent is the one final state of
\* the match, never a state another handler has replaced since.
EveryoneSeesFinalState == \A s \in told \cup published : Ended /\ s = match

\* A player is free to queue again only when the match is over and both players have
\* been told (byUser blocks matchmaking as long as the match runs).
FreedOnlyAfterEnd == \A u \in Players : ~byUser[u] => Ended /\ match \in told

\* A match comes to an end whatever the players do, unless its timer was lost.
MatchEndsUnlessTimerLost == <>(Ended \/ timerLost)

\* An ended match is handed to job-runner and its players are set free.
EndedIsPublished == Ended ~> (published = {match} /\ \A u \in Players : ~byUser[u])

\* No match stays blocked: docs/backlog/sprint-1-game-service.md says so of the round
\* timeouts as BullMQ jobs.
NoMatchStaysBlocked == <>Ended

\* The key of a socket that is open is never deleted, and changes only when the connect
\* handler of another socket of that player writes it: the late disconnect handler of an
\* old socket does not make a player who has come back look absent to
\* handleDisconnectForfeit.  (The handler that writes may be that of an older socket, as
\* setUserSocket does not look at what the key holds: then the newer one is off record
\* while it is open, and the player is taken for absent once the older one is removed.)
LiveSocketStaysRegistered ==
    [][\A u \in Players : sock[u] \in live[u] =>
          \/ sock'[u] = sock[u]
          \/ \E p \in Procs : At(p, "register") /\ proc[p].user = u /\ sock'[u] = proc[p].sid]_vars
====
