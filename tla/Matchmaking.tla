------------------------------ MODULE Matchmaking ------------------------------
(***************************************************************************)
(* How players get into a match: the ranked queue with its pairing worker, *)
(* and the directed matches a tournament asks for over gRPC.  Both write   *)
(* match:byUser, which is what keeps a player from being in two matches.   *)
(*                                                                         *)
(* A slot runs one handler at a time, any kind of handler, and advances by *)
(* one Redis command (a Lua script is one command).  A tick that runs in a *)
(* slot belongs to an instance of its own: the running flag keeps an       *)
(* instance from having two.  What happens inside a match is MatchPlay's   *)
(* subject; here it starts and ends.                                       *)
(*                                                                         *)
(* Time: clock counts units of ten seconds for the widening of the rating  *)
(* window.  A key with a TTL of seconds (rate, lock, pair-lock) that nobody *)
(* works under may have expired by the time it is looked at; one that      *)
(* expires while somebody does is a fault.                                 *)
(***************************************************************************)
EXTENDS Integers, Sequences, FiniteSets

CONSTANTS
    Users,
    Rating,        \* user:rating:{u}, which nothing writes while a player waits
    Slots,         \* handlers that run at the same time in the cluster
    Tournament,    \* ids of tournament matches
    Opponents,     \* the two players of each tournament match
    NoUser, NoTournament,
    MaxJoins,      \* bound: joinQueue messages of a player
    MaxStarts,     \* bound: StartMatch calls for a tournament match
    Times,         \* bound: the moments the clock shows
    LastJoin,      \* bound: nobody joins after this moment
    MaxFaults      \* bound: crashes, failing commands and early expiries

ASSUME UsersAssumption == NoUser \notin Users /\ IsFiniteSet(Users)
ASSUME RatingAssumption == Rating \in [Users -> Nat]
ASSUME OpponentsAssumption ==
    /\ NoTournament \notin Tournament
    /\ Opponents \in [Tournament -> SUBSET Users]
    /\ \A t \in Tournament : Cardinality(Opponents[t]) = 2
ASSUME MatchmakingBounds ==
    /\ MaxJoins \in Nat /\ MaxStarts \in Nat /\ MaxFaults \in Nat
    /\ Times \subseteq Nat /\ 0 \in Times /\ LastJoin \in Times

VARIABLES
    queue,       \* members of matchmaking:queue
    meta,        \* matchmaking:meta:{u}, its queuedAt, or NotQueued
    rate,        \* matchmaking:rate:{u}: "none", "counted" (no TTL yet) or "expiring"
    userLock,    \* players whose matchmaking:lock:{u} is set
    pairLock,    \* pairs whose matchmaking:pair-lock is set
    byUser,      \* match:byUser:{u}, a match id, or 0
    tmatch,      \* tournament-match:{t}:match, a match id, or 0
    matches,     \* every match so far, by id
    clock,
    proc,        \* the handler in each slot
    joins, starts, faults, \* counters the bounds are about
    entries,     \* history: times each player entered the queue
    raced        \* history: players who entered the queue with a match on record

queueKeys == <<queue, meta, rate, userLock>>
matchKeys == <<pairLock, byUser, tmatch, matches>>
counters == <<joins, starts, faults>>
history == <<entries, raced>>
vars == <<queueKeys, matchKeys, clock, proc, counters, history>>

NotQueued == -1

\* user is the player of a join or a leave and the candidate of a tick, other the
\* opponent a tick has found; listed is what listQueueMembers has gathered so far,
\* todo the members still to be read or, later, the candidates still to be tried.
Idle ==
    [pc |-> "idle", kind |-> "none", user |-> NoUser, other |-> NoUser,
     t |-> NoTournament, id |-> 0, now |-> 0, listed |-> <<>>, todo |-> {}]

Init ==
    /\ queue = {} /\ meta = [u \in Users |-> NotQueued]
    /\ rate = [u \in Users |-> "none"]
    /\ userLock = {} /\ pairLock = {}
    /\ byUser = [u \in Users |-> 0]
    /\ tmatch = [t \in Tournament |-> 0]
    /\ matches = <<>>
    /\ clock = 0
    /\ proc = [p \in Slots |-> Idle]
    /\ joins = [u \in Users |-> 0] /\ starts = [t \in Tournament |-> 0] /\ faults = 0
    /\ entries = [u \in Users |-> 0] /\ raced = {}

At(p, label) == proc[p].pc = label
Goto(p, label) == proc' = [proc EXCEPT ![p].pc = label]
Return(p) == proc' = [proc EXCEPT ![p] = Idle]
Begin(p, handler) == At(p, "idle") /\ proc' = [proc EXCEPT ![p] = handler]

\* Keys with a TTL of seconds: set and not expired.  While a handler works under a key
\* its TTL has not run out.
RateCounts(u) == rate[u] # "none"
RateExpired(u, p) ==
    /\ rate[u] = "expiring"
    /\ \A q \in Slots \ {p} : ~(proc[q].kind = "join" /\ proc[q].user = u)
UserLockFree(u) ==
    u \in userLock => \A p \in Slots :
        ~(proc[p].user = u /\ proc[p].pc \in {"recheck", "zadd", "hset", "unlock"})
PairLockFree(pair) ==
    pair \in pairLock => \A p \in Slots :
        /\ ~(At(p, "pair") /\ {proc[p].user, proc[p].other} = pair)
        /\ ~(At(p, "claim") /\ Opponents[proc[p].t] = pair)

-----------------------------------------------------------------------------
(* MatchmakingService.joinQueue *)

\* A "joinQueue" message: MatchmakingGateway.handleJoinQueue
JoinQueue(p, u) ==
    /\ joins[u] < MaxJoins /\ clock <= LastJoin
    /\ joins' = [joins EXCEPT ![u] = @ + 1]
    /\ Begin(p, [Idle EXCEPT !.pc = "getMatch", !.kind = "join", !.user = u])
    /\ UNCHANGED <<queueKeys, matchKeys, clock, starts, faults, history>>

\* ALREADY_IN_MATCH
CheckMatch(p) ==
    /\ At(p, "getMatch")
    /\ IF byUser[proc[p].user] # 0 THEN Return(p) ELSE Goto(p, "getScore")
    /\ UNCHANGED <<queueKeys, matchKeys, clock, counters, history>>

\* ALREADY_IN_QUEUE
CheckScore(p) ==
    /\ At(p, "getScore")
    /\ IF proc[p].user \in queue THEN Return(p) ELSE Goto(p, "incr")
    /\ UNCHANGED <<queueKeys, matchKeys, clock, counters, history>>

\* incrWithExpiry: the first INCR creates the key, without a TTL ...
CountJoin(p) ==
    LET u == proc[p].user IN
    /\ At(p, "incr")
    /\ \/ RateCounts(u) /\ Return(p) /\ UNCHANGED rate  \* RATE_LIMITED
       \/ /\ ~RateCounts(u) \/ RateExpired(u, p)
          /\ Goto(p, "expire") /\ rate' = [rate EXCEPT ![u] = "counted"]
    /\ UNCHANGED <<queue, meta, userLock, matchKeys, clock, counters, history>>

\* ... and EXPIRE gives it one.
ExpireRate(p) ==
    /\ At(p, "expire")
    /\ rate' = [rate EXCEPT ![proc[p].user] = "expiring"]
    /\ Goto(p, "lock")
    /\ UNCHANGED <<queue, meta, userLock, matchKeys, clock, counters, history>>

\* The lock of the player, without a token.
LockUser(p) ==
    LET u == proc[p].user IN
    /\ At(p, "lock")
    /\ \/ u \in userLock /\ Return(p) /\ UNCHANGED userLock  \* ALREADY_IN_QUEUE
       \/ UserLockFree(u) /\ Goto(p, "recheck") /\ userLock' = userLock \cup {u}
    /\ UNCHANGED <<queue, meta, rate, matchKeys, clock, counters, history>>

\* The queue is looked at again under the lock, the match is not.
RecheckScore(p) ==
    /\ At(p, "recheck")
    /\ Goto(p, IF proc[p].user \in queue THEN "unlock" ELSE "zadd")
    /\ UNCHANGED <<queueKeys, matchKeys, clock, counters, history>>

\* The rating is read and the player enters the queue ...
EnterQueue(p) ==
    LET u == proc[p].user IN
    /\ At(p, "zadd")
    /\ queue' = queue \cup {u}
    /\ entries' = IF u \in queue THEN entries ELSE [entries EXCEPT ![u] = @ + 1]
    /\ raced' = IF byUser[u] # 0 THEN raced \cup {u} ELSE raced
    /\ proc' = [proc EXCEPT ![p].pc = "hset", ![p].now = clock]
    /\ UNCHANGED <<meta, rate, userLock, matchKeys, clock, counters>>

\* ... then the metadata the worker reads, with the queuedAt taken before ZADD ...
WriteMeta(p) ==
    /\ At(p, "hset")
    /\ meta' = [meta EXCEPT ![proc[p].user] = proc[p].now]
    /\ Goto(p, "unlock")
    /\ UNCHANGED <<queue, rate, userLock, matchKeys, clock, counters, history>>

\* ... and the finally block deletes the lock, whoever holds it by now.
UnlockUser(p) ==
    /\ At(p, "unlock")
    /\ userLock' = userLock \ {proc[p].user}
    /\ Return(p)
    /\ UNCHANGED <<queue, meta, rate, matchKeys, clock, counters, history>>

-----------------------------------------------------------------------------
(* MatchmakingService.leaveQueue: a "leaveQueue" message or a closed socket *)

LeaveQueue(p, u) ==
    /\ u \in queue
    /\ Begin(p, [Idle EXCEPT !.pc = "zrem", !.kind = "leave", !.user = u])
    /\ UNCHANGED <<queueKeys, matchKeys, clock, counters, history>>

RemoveFromQueue(p) ==
    /\ At(p, "zrem")
    /\ queue' = queue \ {proc[p].user}
    /\ Goto(p, "delMeta")
    /\ UNCHANGED <<meta, rate, userLock, matchKeys, clock, counters, history>>

DeleteMeta(p) ==
    /\ At(p, "delMeta")
    /\ meta' = [meta EXCEPT ![proc[p].user] = NotQueued]
    /\ Return(p)
    /\ UNCHANGED <<queue, rate, userLock, matchKeys, clock, counters, history>>

-----------------------------------------------------------------------------
(* The rating window. *)

Infinite == 1000000

\* Mutant: the last step of the window is missing.
getEloWindow_Bounded(elapsed) ==
    IF elapsed < 1 THEN 50 ELSE IF elapsed < 3 THEN 100 ELSE 200

\* elapsed in units of ten seconds
getEloWindow(elapsed) ==
    IF elapsed < 1 THEN 50
    ELSE IF elapsed < 3 THEN 100
    ELSE IF elapsed < 6 THEN 200
    ELSE Infinite

Gap(u, v) == IF Rating[u] > Rating[v] THEN Rating[u] - Rating[v] ELSE Rating[v] - Rating[u]

\* Mutant: the test for an infinite window is the wrong way round.
ratingsMatch_Inverted(u, v, windowU, windowV) ==
    IF windowU < Infinite /\ windowV < Infinite THEN TRUE
    ELSE Gap(u, v) <= windowU \/ Gap(u, v) <= windowV

\* The wider of the two windows decides.
ratingsMatch(u, v, windowU, windowV) == Gap(u, v) <= windowU \/ Gap(u, v) <= windowV

-----------------------------------------------------------------------------
(* MatchmakingWorkerService.tick *)

Tick(p) ==
    /\ Begin(p, [Idle EXCEPT !.pc = "size", !.kind = "tick", !.now = clock])
    /\ UNCHANGED <<queueKeys, matchKeys, clock, counters, history>>

QueueSize(p) ==
    /\ At(p, "size")
    /\ IF Cardinality(queue) < 2 THEN Return(p) ELSE Goto(p, "list")
    /\ UNCHANGED <<queueKeys, matchKeys, clock, counters, history>>

\* listQueueMembers: the members of the queue ...
ListMembers(p) ==
    /\ At(p, "list")
    /\ proc' = [proc EXCEPT ![p].todo = queue,
                            ![p].pc = IF queue = {} THEN "tryNext" ELSE "hgetall"]
    /\ UNCHANGED <<queueKeys, matchKeys, clock, counters, history>>

\* ... and the metadata of each; a member without metadata is passed over.
ReadMeta(p) ==
    LET h == proc[p] IN
    /\ At(p, "hgetall")
    /\ \E u \in h.todo :
          LET left == h.todo \ {u}
              found == IF meta[u] = NotQueued THEN h.listed
                       ELSE [v \in DOMAIN h.listed \cup {u} |->
                                IF v = u THEN meta[u] ELSE h.listed[v]]
          IN proc' = [proc EXCEPT ![p] =
                [h EXCEPT !.listed = found,
                          !.pc = IF left = {} THEN "tryNext" ELSE "hgetall",
                          !.todo = IF left = {} THEN DOMAIN found ELSE left]]
    /\ UNCHANGED <<queueKeys, matchKeys, clock, counters, history>>

\* The members of S that have waited longest, in the list a tick has made.
Eldest(S, listed) == {u \in S : \A v \in S : listed[u] <= listed[v]}

Matching(u, h) ==
    {v \in DOMAIN h.listed \ {u} :
        ratingsMatch(u, v, getEloWindow(h.now - h.listed[u]), getEloWindow(h.now - h.listed[v]))}

\* The first in the order of queuedAt whose rating is in the window.
findOpponent(u, h) == Eldest(Matching(u, h), h.listed)

\* The next candidate, its opponent, and SET NX of the lock of the pair.  A candidate
\* without an opponent, or whose pair is locked, is passed over.
TryNext(p) ==
    LET h == proc[p] IN
    /\ At(p, "tryNext")
    /\ \/ /\ h.todo = {}
          /\ Return(p) /\ UNCHANGED pairLock
       \/ \E u \in Eldest(h.todo, h.listed) :
             \/ /\ findOpponent(u, h) = {}
                /\ proc' = [proc EXCEPT ![p].todo = @ \ {u}] /\ UNCHANGED pairLock
             \/ \E v \in findOpponent(u, h) :
                   \/ /\ {u, v} \in pairLock
                      /\ proc' = [proc EXCEPT ![p].todo = @ \ {u}] /\ UNCHANGED pairLock
                   \/ /\ PairLockFree({u, v})
                      /\ pairLock' = pairLock \cup {{u, v}}
                      /\ proc' = [proc EXCEPT ![p].todo = @ \ {u}, ![p].pc = "pair",
                                              ![p].user = u, ![p].other = v]
    /\ UNCHANGED <<queueKeys, byUser, tmatch, matches, clock, counters, history>>

NewMatch(players, t, status) == [players |-> players, t |-> t, status |-> status]

\* Mutant: the script trusts the list the tick has made.
StillQueued_Trust(pair) == TRUE

\* PAIR_PLAYERS_SCRIPT looks at the queue again.
StillQueued(pair) == pair \subseteq queue

\* PAIR_PLAYERS_SCRIPT: nothing without the lock or when a player has left the queue;
\* otherwise both leave the queue for the new match, whatever match they had.
PairPlayers(p) ==
    LET pair == {proc[p].user, proc[p].other}
        id == Len(matches) + 1
    IN
    /\ At(p, "pair")
    /\ IF pair \in pairLock /\ StillQueued(pair)
       THEN /\ queue' = queue \ pair
            /\ meta' = [u \in Users |-> IF u \in pair THEN NotQueued ELSE meta[u]]
            /\ byUser' = [u \in Users |-> IF u \in pair THEN id ELSE byUser[u]]
            /\ matches' = Append(matches, NewMatch(pair, NoTournament, "running"))
            /\ proc' = [proc EXCEPT ![p].pc = "start", ![p].id = id]
       ELSE Goto(p, "tryNext") /\ UNCHANGED <<queue, meta, byUser, matches>>
    /\ pairLock' = pairLock \ {pair}
    /\ UNCHANGED <<rate, userLock, tmatch, clock, counters, history>>

\* onMatchStarted and the broadcasts; the pair is out of this tick.
StartMatch(p) ==
    LET h == proc[p]
        left == DOMAIN h.listed \ {h.user, h.other}
    IN
    /\ At(p, "start")
    /\ proc' = [proc EXCEPT ![p] =
          [h EXCEPT !.pc = "tryNext", !.user = NoUser, !.other = NoUser, !.id = 0,
                    !.listed = [u \in left |-> h.listed[u]], !.todo = @ \cap left]]
    /\ UNCHANGED <<queueKeys, matchKeys, clock, counters, history>>

-----------------------------------------------------------------------------
(* DirectedMatchService.startMatch *)

\* A StartMatch call of job-runner for a tournament match; it may call again.
StartDirected(p, t) ==
    /\ starts[t] < MaxStarts
    /\ starts' = [starts EXCEPT ![t] = @ + 1]
    /\ Begin(p, [Idle EXCEPT !.pc = "lockPair", !.kind = "directed", !.t = t])
    /\ UNCHANGED <<queueKeys, matchKeys, clock, joins, faults, history>>

\* claimPlayers: the same lock as the pairing worker's ...
LockPair(p) ==
    LET pair == Opponents[proc[p].t] IN
    /\ At(p, "lockPair")
    /\ \/ pair \in pairLock /\ Return(p) /\ UNCHANGED pairLock  \* PLAYER_ALREADY_IN_MATCH
       \/ PairLockFree(pair) /\ pairLock' = pairLock \cup {pair} /\ Goto(p, "claim")
    /\ UNCHANGED <<queueKeys, byUser, tmatch, matches, clock, counters, history>>

\* Mutant: only the players are looked at.
Unstarted_Ignored(t) == TRUE

\* CLAIM_DIRECTED_PLAYERS_SCRIPT looks for a match of this tournament match ...
Unstarted(t) == tmatch[t] = 0

\* Mutant: only the tournament match is looked at.
BothFree_Ignored(pair) == TRUE

\* ... and for a match of either player.
BothFree(pair) == \A u \in pair : byUser[u] = 0

\* ... and the script takes both players out of the queue and maps them to the match.
ClaimPlayers(p) ==
    LET t == proc[p].t
        pair == Opponents[t]
        id == Len(matches) + 1
        claimed == pair \in pairLock /\ Unstarted(t) /\ BothFree(pair)
    IN
    /\ At(p, "claim")
    /\ IF claimed
       THEN /\ queue' = queue \ pair
            /\ meta' = [u \in Users |-> IF u \in pair THEN NotQueued ELSE meta[u]]
            /\ byUser' = [u \in Users |-> IF u \in pair THEN id ELSE byUser[u]]
            /\ tmatch' = [tmatch EXCEPT ![t] = id]
            /\ matches' = Append(matches, NewMatch(pair, t, "claimed"))
            /\ proc' = [proc EXCEPT ![p].pc = "save", ![p].id = id]
       ELSE /\ IF pair \in pairLock /\ ~Unstarted(t) THEN Goto(p, "getExisting") ELSE Return(p)
            /\ UNCHANGED <<queue, meta, byUser, tmatch, matches>>
    /\ pairLock' = pairLock \ {pair}
    /\ UNCHANGED <<rate, userLock, clock, counters, history>>

\* resolveExistingTournamentMatch: the match on record, if any ...
GetExisting(p) ==
    /\ At(p, "getExisting")
    /\ IF tmatch[proc[p].t] = 0 THEN Return(p)
       ELSE proc' = [proc EXCEPT ![p].pc = "getMappings", ![p].id = tmatch[proc[p].t]]
    /\ UNCHANGED <<queueKeys, matchKeys, clock, counters, history>>

\* ... is the answer when both players are in it, an error otherwise.
GetMappings(p) ==
    /\ At(p, "getMappings")
    /\ Return(p)
    /\ UNCHANGED <<queueKeys, matchKeys, clock, counters, history>>

\* MatchSessionService.create: the state ...
SaveState(p) ==
    /\ At(p, "save")
    /\ matches' = [matches EXCEPT ![proc[p].id].status = "saved"]
    /\ Goto(p, "map")
    /\ UNCHANGED <<queueKeys, pairLock, byUser, tmatch, clock, counters, history>>

\* ... both mappings once more ...
MapPlayers(p) ==
    /\ At(p, "map")
    /\ byUser' = [u \in Users |-> IF u \in Opponents[proc[p].t] THEN proc[p].id ELSE byUser[u]]
    /\ Goto(p, "announce")
    /\ UNCHANGED <<queueKeys, pairLock, tmatch, matches, clock, counters, history>>

\* ... and the broadcasts, which tell the players the id of the match; then
\* onMatchStarted, which swallows its errors.
Announce(p) ==
    /\ At(p, "announce")
    /\ matches' = [matches EXCEPT ![proc[p].id].status = "running"]
    /\ Return(p)
    /\ UNCHANGED <<queueKeys, pairLock, byUser, tmatch, clock, counters, history>>

\* releaseClaims after a failure, of whatever the keys hold by now.  The state of the
\* match stays: players who have heard of it may still play it.
ReleaseClaims(p) ==
    /\ At(p, "unclaim")
    /\ byUser' = [u \in Users |-> IF u \in Opponents[proc[p].t] THEN 0 ELSE byUser[u]]
    /\ tmatch' = [tmatch EXCEPT ![proc[p].t] = 0]
    /\ matches' = [matches EXCEPT ![proc[p].id].status =
                      CASE @ = "running" -> "abandoned" [] @ = "ended" -> "stray"
                        [] OTHER -> "released"]
    /\ Return(p)
    /\ UNCHANGED <<queueKeys, pairLock, clock, counters, history>>

-----------------------------------------------------------------------------
(* The end of a match, the clock and failures. *)

\* finalizeMatch's cleanupUserMappings, of whatever the keys hold by now.  A match can
\* only end once it has been announced: until then no timer runs and nobody knows its id.
EndMatch(id) ==
    /\ matches[id].status \in {"running", "abandoned"}
    /\ matches' = [matches EXCEPT ![id].status = IF @ = "running" THEN "ended" ELSE "stray"]
    /\ byUser' = [u \in Users |-> IF u \in matches[id].players THEN 0 ELSE byUser[u]]
    /\ UNCHANGED <<queueKeys, pairLock, tmatch, clock, proc, counters, history>>

\* A joinQueue takes far less than a unit of the clock.
Advance ==
    /\ \A p \in Slots : proc[p].kind # "join"
    /\ \E t \in Times : t > clock /\ clock' = t
    /\ UNCHANGED <<queueKeys, matchKeys, proc, counters, history>>

\* A handler that takes too long loses its lock, or the player's rate key runs out.
EarlyExpiry ==
    /\ faults < MaxFaults
    /\ faults' = faults + 1
    /\ \/ \E u \in Users : rate[u] = "expiring" /\ rate' = [rate EXCEPT ![u] = "none"]
          /\ UNCHANGED <<userLock, pairLock>>
       \/ \E u \in userLock : userLock' = userLock \ {u} /\ UNCHANGED <<rate, pairLock>>
       \/ \E pair \in pairLock : pairLock' = pairLock \ {pair} /\ UNCHANGED <<rate, userLock>>
    /\ UNCHANGED <<queue, meta, byUser, tmatch, matches, clock, proc, joins, starts, history>>

\* The instance dies, or a command throws and nothing cleans up after it.
HandlerDies(p) ==
    /\ faults < MaxFaults
    /\ faults' = faults + 1
    /\ ~At(p, "idle")
    /\ Return(p)
    /\ UNCHANGED <<queueKeys, matchKeys, clock, joins, starts, history>>

\* A command of create throws, perhaps after one broadcast went out, or one under the
\* lock of a join.
CommandFails(p) ==
    /\ faults < MaxFaults
    /\ faults' = faults + 1
    /\ \/ /\ proc[p].pc \in {"save", "map", "announce"}
          /\ Goto(p, "unclaim")
          /\ \/ UNCHANGED matches
             \/ At(p, "announce") /\ matches' = [matches EXCEPT ![proc[p].id].status = "running"]
       \/ /\ proc[p].pc \in {"recheck", "zadd", "hset"}
          /\ Goto(p, "unlock") /\ UNCHANGED matches
    /\ UNCHANGED <<queueKeys, pairLock, byUser, tmatch, clock, joins, starts, history>>

-----------------------------------------------------------------------------
Step(p) ==
    \/ CheckMatch(p) \/ CheckScore(p) \/ CountJoin(p) \/ ExpireRate(p) \/ LockUser(p)
    \/ RecheckScore(p) \/ EnterQueue(p) \/ WriteMeta(p) \/ UnlockUser(p)
    \/ RemoveFromQueue(p) \/ DeleteMeta(p)
    \/ QueueSize(p) \/ ListMembers(p) \/ ReadMeta(p) \/ TryNext(p) \/ PairPlayers(p)
    \/ StartMatch(p)
    \/ LockPair(p) \/ ClaimPlayers(p) \/ GetExisting(p) \/ GetMappings(p) \/ SaveState(p)
    \/ MapPlayers(p) \/ Announce(p) \/ ReleaseClaims(p)

Next ==
    \/ \E p \in Slots, u \in Users : JoinQueue(p, u) \/ LeaveQueue(p, u)
    \/ \E p \in Slots : Tick(p)
    \/ \E p \in Slots, t \in Tournament : StartDirected(p, t)
    \/ \E p \in Slots : Step(p)
    \/ \E id \in DOMAIN matches : EndMatch(id)
    \/ Advance
    \/ EarlyExpiry
    \/ \E p \in Slots : HandlerDies(p) \/ CommandFails(p)

Spec == Init /\ [][Next]_vars

\* Handlers run to completion, every instance ticks and time passes.
\* Players owe nothing.
FairSpec ==
    /\ Spec
    /\ \A p \in Slots : WF_vars(Step(p)) /\ WF_vars(Tick(p))
    /\ WF_vars(Advance)

-----------------------------------------------------------------------------
(* Properties. *)

MatchesOf(u) == {id \in DOMAIN matches : u \in matches[id].players}
Live(id) == matches[id].status \in {"claimed", "saved", "running"}
GivenBack(id) == matches[id].status \in {"released", "abandoned", "stray"}

\* Each time a player enters the queue this leads to one ranked match at most, although
\* several instances list the same players at the same time, act on lists that are out
\* of date and may lose the lock of the pair half way.
OneEntryOneMatch ==
    \A u \in Users :
        Cardinality({id \in MatchesOf(u) : matches[id].t = NoTournament}) <= entries[u]

\* A player who did not slip into the queue with a match on record is in one match at
\* a time, and match:byUser names it as long as it runs, whichever of the pairing
\* worker, a directed start, its release and the end of other matches wrote the key
\* last.  A match given back after it was announced is out: it can still be played, and
\* its end deletes the mappings of the next one.
NoDoubleBooking ==
    \A u \in Users : \A id \in MatchesOf(u) :
        /\ Live(id) /\ u \notin raced
        /\ \A other \in MatchesOf(u) : matches[other].status \notin {"abandoned", "stray"}
        => byUser[u] = id

\* Of the matches made for a tournament match, however often and by however many
\* instances it is asked for, all but one were given back by releaseClaims.
TournamentMatchOnce ==
    \A t \in Tournament :
        Cardinality({id \in DOMAIN matches : matches[id].t = t /\ ~GivenBack(id)}) <= 1

\* What elo-window.ts promises, by the time both players have been in the queue.
WithinWindow(u, v, wait) ==
    \/ Gap(u, v) <= 50
    \/ wait >= 1 /\ Gap(u, v) <= 100
    \/ wait >= 3 /\ Gap(u, v) <= 200
    \/ wait >= 6

\* When the worker commits a pair, one of the two has waited long enough for the
\* difference of their ratings, although the list it chose from may be old, unless a
\* player left and came back since the list was made.
FairPairing ==
    [][\A p \in Slots :
          LET h == proc[p]
              since == {meta[h.user], meta[h.other]}
          IN At(p, "pair") /\ proc'[p].pc = "start"
             /\ meta[h.user] = h.listed[h.user] /\ meta[h.other] = h.listed[h.other]
             => \E s \in since : WithinWindow(h.user, h.other, clock - s)]_vars

\* Two players with metadata do not wait side by side for ever, however far apart
\* their ratings are and whoever else joins, leaves or is claimed for a tournament.
NobodyWaitsForever ==
    \A u, v \in Users :
        u # v => []<>(faults > 0 \/ ~({u, v} \subseteq queue /\ meta[u] # NotQueued
                                      /\ meta[v] # NotQueued))

\* A player already in a match cannot queue for another
\* (docs/backlog/sprint-1-game-service.md, US-018 AC3), so nobody is in two.
OneMatchPerPlayer == \A u \in Users : Cardinality({id \in MatchesOf(u) : Live(id)}) <= 1
====
