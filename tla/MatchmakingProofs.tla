-------------------------- MODULE MatchmakingProofs --------------------------
(***************************************************************************)
(* Matchmaking for any number of players, instances, tournament matches,   *)
(* ticks and failures.                                                     *)
(***************************************************************************)
EXTENDS Matchmaking, FiniteSetTheorems, SequenceTheorems, TLAPS

(* Types. *)

Status == {"claimed", "saved", "running", "ended", "released", "abandoned", "stray"}
MatchRecord == [players : SUBSET Users, t : Tournament \cup {NoTournament}, status : Status]

\* Where a handler acts for a player, for a tournament match, and for a match that it
\* has claimed and not announced or given back.
Joining == {"getMatch", "getScore", "incr", "expire", "lock", "recheck", "zadd", "hset",
            "unlock", "zrem", "delMeta"}
Claiming == {"save", "map", "announce", "unclaim"}
Directing == {"lockPair", "claim", "getExisting", "getMappings"} \cup Claiming
Ticking == {"size", "list", "hgetall", "tryNext", "pair", "start"}

Handler ==
    [pc : {"idle"} \cup Joining \cup Directing \cup Ticking,
     kind : {"none", "join", "leave", "tick", "directed"},
     user : Users \cup {NoUser}, other : Users \cup {NoUser},
     t : Tournament \cup {NoTournament}, id : Nat, now : Nat,
     listed : UNION {[S -> Int] : S \in SUBSET Users}, todo : SUBSET Users]

SlotOK(h) ==
    /\ h \in Handler
    /\ h.pc \in Joining => h.user \in Users
    /\ h.pc \in Directing => h.t \in Tournament

TypeInv ==
    /\ matches \in Seq(MatchRecord)
    /\ queue \subseteq Users /\ raced \subseteq Users
    /\ meta \in [Users -> Int] /\ clock \in Nat
    /\ byUser \in [Users -> Nat] /\ tmatch \in [Tournament -> Nat]
    /\ entries \in [Users -> Nat]
    /\ proc \in [Slots -> Handler] /\ \A p \in Slots : SlotOK(proc[p])

(* The inductive invariant. *)

\* What a match is while the handler that claimed it is at pc.
StatusAt(pc) ==
    CASE pc = "save" -> {"claimed"}
      [] pc \in {"map", "announce"} -> {"saved"}
      [] OTHER -> {"claimed", "saved", "running", "ended"}

\* The handler h works for the match on record for its tournament match.
HoldsClaim(h) ==
    /\ h.id \in DOMAIN matches
    /\ matches[h.id].t = h.t /\ matches[h.id].players = Opponents[h.t]
    /\ matches[h.id].status \in StatusAt(h.pc)
    /\ tmatch[h.t] = h.id

Claims == \A p \in Slots : proc[p].pc \in Claiming => HoldsClaim(proc[p])
OneClaim ==
    \A p, q \in Slots :
        proc[p].pc \in Claiming /\ proc[q].pc \in Claiming /\ proc[p].t = proc[q].t => p = q

\* A tournament match that has not been given back is the one on record.
OnRecord ==
    \A id \in DOMAIN matches :
        matches[id].t \in Tournament /\ ~GivenBack(id) => tmatch[matches[id].t] = id

\* Every ranked match has used up an entry into the queue.
Ranked(u) == {id \in MatchesOf(u) : matches[id].t = NoTournament}
EntriesCover ==
    \A u \in Users : Cardinality(Ranked(u)) + (IF u \in queue THEN 1 ELSE 0) <= entries[u]

\* NoDoubleBooking speaks of these players; nobody becomes one again.
Regular(u) ==
    u \notin raced /\ \A id \in MatchesOf(u) : matches[id].status \notin {"abandoned", "stray"}
\* Among them those who queue have no match, and the others have the one on record.
QueuedAreFree == \A u \in queue : Regular(u) => byUser[u] = 0
Booked ==
    \A u \in Users, id \in DOMAIN matches :
        u \in matches[id].players /\ Live(id) /\ Regular(u) => byUser[u] = id

BookInv == Claims /\ OneClaim /\ OnRecord /\ QueuedAreFree /\ Booked

-----------------------------------------------------------------------------
(* Every step keeps the types. *)

Becomes(p, k) == proc' = [proc EXCEPT ![p] = k]

\* What a step does to the slot it runs in.
Moves(p) == Becomes(p, proc'[p]) /\ SlotOK(proc'[p])

LEMMA IdleOK == SlotOK(Idle)
<1>1. <<>> \in [{} -> Int]
    OBVIOUS
<1>2. <<>> \in UNION {[S -> Int] : S \in SUBSET Users}
    BY <1>1
<1> QED BY <1>2 DEF SlotOK, Idle, Handler, Joining, Directing, Claiming

LEMMA ReturnMoves ==
    ASSUME TypeInv, NEW p \in Slots, Return(p)
    PROVE  Moves(p) /\ proc'[p] = Idle
BY IdleOK DEF TypeInv, Return, Moves, Becomes

\* label is a place that suits the handler h.
Suits(h, label) ==
    /\ label \in {"idle"} \cup Joining \cup Directing \cup Ticking
    /\ label \in Joining => h.user \in Users
    /\ label \in Directing => h.t \in Tournament

LEMMA GotoMoves ==
    ASSUME TypeInv, NEW p \in Slots, NEW label, Goto(p, label), Suits(proc[p], label)
    PROVE  /\ Moves(p)
           /\ proc'[p].pc = label /\ proc'[p].t = proc[p].t /\ proc'[p].id = proc[p].id
           /\ proc'[p].user = proc[p].user
<1> DEFINE h == proc[p]
           k == [h EXCEPT !.pc = label]
<1>1. proc \in [Slots -> Handler] /\ h \in Handler /\ proc' = [proc EXCEPT ![p].pc = label]
    BY DEF TypeInv, Goto
<1>2. proc' = [proc EXCEPT ![p] = k] /\ proc'[p] = k
    BY <1>1
<1>3. k \in Handler /\ k.pc = label /\ k.t = h.t /\ k.id = h.id /\ k.user = h.user
    BY <1>1 DEF Handler, Suits
<1> HIDE DEF k
<1>4. SlotOK(k)
    BY <1>3 DEF SlotOK, Suits
<1> QED BY <1>2, <1>3, <1>4 DEF Moves, Becomes

\* A slot moves and holds no claim afterwards, and no key changes that the invariant
\* speaks of, except that players may leave the queue.
Quiet(p) ==
    /\ Moves(p) /\ proc'[p].pc \notin Claiming
    /\ UNCHANGED <<byUser, tmatch, matches, entries, raced, clock>>
    /\ queue' \subseteq queue /\ meta' \in [Users -> Int]

\* The handlers that start.
Starts(p) ==
    \/ \E u \in Users : JoinQueue(p, u) \/ LeaveQueue(p, u)
    \/ Tick(p)
    \/ \E t \in Tournament : StartDirected(p, t)

LEMMA StartsQuiet ==
    ASSUME TypeInv, NEW p \in Slots, Starts(p)
    PROVE  Quiet(p)
<1>1. proc \in [Slots -> Handler] /\ meta \in [Users -> Int] /\ clock \in Nat
    BY DEF TypeInv
<1>2. ASSUME NEW k, SlotOK(k), k.pc \notin Claiming, Begin(p, k),
             UNCHANGED <<queueKeys, matchKeys, clock, history>>
      PROVE  Quiet(p)
    <2>1. proc'[p] = k /\ Becomes(p, k)
        BY <1>1, <1>2 DEF Begin, Becomes
    <2> QED BY <1>1, <1>2, <2>1 DEF Quiet, Moves, queueKeys, matchKeys, history
<1>3. Idle \in Handler
    BY IdleOK DEF SlotOK
<1>4. ASSUME NEW u \in Users, NEW pc \in {"getMatch", "zrem"}, NEW kind \in {"join", "leave"}
      PROVE  /\ SlotOK([Idle EXCEPT !.pc = pc, !.kind = kind, !.user = u])
             /\ [Idle EXCEPT !.pc = pc, !.kind = kind, !.user = u].pc \notin Claiming
    BY <1>3 DEF SlotOK, Handler, Joining, Directing, Claiming
<1>5. CASE \E u \in Users : JoinQueue(p, u) \/ LeaveQueue(p, u)
    BY <1>2, <1>4, <1>5 DEF JoinQueue, LeaveQueue
<1>6. CASE Tick(p)
    <2>1. /\ SlotOK([Idle EXCEPT !.pc = "size", !.kind = "tick", !.now = clock])
          /\ [Idle EXCEPT !.pc = "size", !.kind = "tick", !.now = clock].pc \notin Claiming
        BY <1>1, <1>3 DEF SlotOK, Handler, Joining, Directing, Claiming, Ticking
    <2> QED BY <1>2, <1>6, <2>1 DEF Tick
<1>7. CASE \E t \in Tournament : StartDirected(p, t)
    <2>1. PICK t \in Tournament : StartDirected(p, t)
        BY <1>7
    <2>2. /\ SlotOK([Idle EXCEPT !.pc = "lockPair", !.kind = "directed", !.t = t])
          /\ [Idle EXCEPT !.pc = "lockPair", !.kind = "directed", !.t = t].pc \notin Claiming
        BY <1>3 DEF SlotOK, Handler, Joining, Directing, Claiming
    <2> QED BY <1>2, <2>1, <2>2 DEF StartDirected
<1> QED BY <1>5, <1>6, <1>7 DEF Starts

\* joinQueue but for the entry itself, and leaveQueue.
QueueStep(p) ==
    \/ CheckMatch(p) \/ CheckScore(p) \/ CountJoin(p) \/ ExpireRate(p) \/ LockUser(p)
    \/ RecheckScore(p) \/ WriteMeta(p) \/ UnlockUser(p) \/ RemoveFromQueue(p) \/ DeleteMeta(p)

LEMMA QueueStepQuiet ==
    ASSUME TypeInv, NEW p \in Slots, QueueStep(p)
    PROVE  Quiet(p)
<1> DEFINE h == proc[p]
<1>1. /\ SlotOK(h) /\ h \in Handler /\ h.now \in Nat /\ meta \in [Users -> Int]
    BY DEF TypeInv, Handler
<1>2. ASSUME h.pc \in Joining,
             Return(p) \/ \E label \in Joining : Goto(p, label)
      PROVE  Moves(p) /\ proc'[p].pc \notin Claiming
    <2>1. CASE Return(p)
        BY <2>1, ReturnMoves DEF Idle, Claiming
    <2>2. ASSUME NEW label \in Joining, Goto(p, label)
          PROVE  Moves(p) /\ proc'[p].pc \notin Claiming
        <3>1. Suits(h, label)
            BY <1>1, <1>2, <2>2 DEF SlotOK, Suits, Joining, Directing, Claiming
        <3> QED BY <2>2, <3>1, GotoMoves DEF Joining, Claiming
    <2> QED BY <1>2, <2>1, <2>2
<1>3. h.pc \in Joining
    BY DEF QueueStep, CheckMatch, CheckScore, CountJoin, ExpireRate, LockUser, RecheckScore,
           WriteMeta, UnlockUser, RemoveFromQueue, DeleteMeta, At, Joining
<1>4. Return(p) \/ \E label \in Joining : Goto(p, label)
    BY DEF QueueStep, CheckMatch, CheckScore, CountJoin, ExpireRate, LockUser, RecheckScore,
           WriteMeta, UnlockUser, RemoveFromQueue, DeleteMeta, Joining
<1>5. /\ UNCHANGED <<byUser, tmatch, matches, entries, raced, clock>>
      /\ queue' \subseteq queue
    BY DEF QueueStep, CheckMatch, CheckScore, CountJoin, ExpireRate, LockUser, RecheckScore,
           WriteMeta, UnlockUser, RemoveFromQueue, DeleteMeta, queueKeys, matchKeys, history
<1>6. meta' \in [Users -> Int]
    <2>1. \/ UNCHANGED meta
          \/ meta' = [meta EXCEPT ![h.user] = h.now] \/ meta' = [meta EXCEPT ![h.user] = -1]
        BY DEF QueueStep, CheckMatch, CheckScore, CountJoin, ExpireRate, LockUser, RecheckScore,
               WriteMeta, UnlockUser, RemoveFromQueue, DeleteMeta, queueKeys, NotQueued
    <2> QED BY <1>1, <2>1
<1> QED BY <1>2, <1>3, <1>4, <1>5, <1>6 DEF Quiet

\* A tick but for the pairing itself.
TickStep(p) == QueueSize(p) \/ ListMembers(p) \/ ReadMeta(p) \/ TryNext(p) \/ StartMatch(p)

LEMMA TickStepQuiet ==
    ASSUME TypeInv, NEW p \in Slots, TickStep(p)
    PROVE  Quiet(p)
<1> DEFINE h == proc[p]
           Lists == UNION {[S -> Int] : S \in SUBSET Users}
<1>1. /\ SlotOK(h) /\ h \in Handler /\ proc \in [Slots -> Handler]
      /\ queue \subseteq Users /\ meta \in [Users -> Int]
      /\ h.todo \subseteq Users /\ h.listed \in Lists
    BY DEF TypeInv, Handler
<1>2. /\ UNCHANGED <<byUser, tmatch, matches, entries, raced, clock, queue, meta>>
    BY DEF TickStep, QueueSize, ListMembers, ReadMeta, TryNext, StartMatch, queueKeys, matchKeys,
           history
<1>3. PICK D \in SUBSET Users : h.listed \in [D -> Int]
    BY <1>1
<1>4. ASSUME NEW k, Becomes(p, k), k \in Handler, k.pc \in Ticking
      PROVE  Moves(p) /\ proc'[p].pc \notin Claiming
    BY <1>1, <1>4 DEF Moves, Becomes, SlotOK, Ticking, Joining, Directing, Claiming
<1>5. Return(p) => Moves(p) /\ proc'[p].pc \notin Claiming
    BY ReturnMoves DEF Idle, Claiming
<1>6. CASE QueueSize(p)
    <2>1. Suits(h, "list")
        BY DEF Suits, Ticking, Joining, Directing, Claiming
    <2>2. Goto(p, "list") => Moves(p) /\ proc'[p].pc \notin Claiming
        BY <2>1, GotoMoves DEF Claiming
    <2> QED BY <1>1, <1>2, <1>5, <1>6, <2>2 DEF Quiet, QueueSize
<1>7. CASE ListMembers(p)
    <2> DEFINE pc == IF queue = {} THEN "tryNext" ELSE "hgetall"
               k  == [h EXCEPT !.todo = queue, !.pc = pc]
    <2>1. proc' = [proc EXCEPT ![p] = k]
        BY <1>1, <1>7 DEF ListMembers
    <2>2. pc \in Ticking
        BY DEF Ticking
    <2>3. k \in Handler /\ k.pc = pc
        BY <1>1, <2>2 DEF Handler
    <2> HIDE DEF k, pc
    <2> QED BY <1>1, <1>2, <1>4, <2>1, <2>2, <2>3 DEF Quiet, Becomes
<1>8. CASE ReadMeta(p)
    <2>1. PICK u \in h.todo :
            LET left == h.todo \ {u}
                found == IF meta[u] = NotQueued THEN h.listed
                         ELSE [v \in DOMAIN h.listed \cup {u} |->
                                  IF v = u THEN meta[u] ELSE h.listed[v]]
            IN proc' = [proc EXCEPT ![p] =
                  [h EXCEPT !.listed = found,
                            !.pc = IF left = {} THEN "tryNext" ELSE "hgetall",
                            !.todo = IF left = {} THEN DOMAIN found ELSE left]]
        BY <1>8 DEF ReadMeta
    <2> DEFINE left  == h.todo \ {u}
               found == IF meta[u] = NotQueued THEN h.listed
                        ELSE [v \in DOMAIN h.listed \cup {u} |->
                                 IF v = u THEN meta[u] ELSE h.listed[v]]
               pc    == IF left = {} THEN "tryNext" ELSE "hgetall"
               todo  == IF left = {} THEN DOMAIN found ELSE left
               k     == [h EXCEPT !.listed = found, !.pc = pc, !.todo = todo]
    <2>2. proc' = [proc EXCEPT ![p] = k]
        BY <2>1
    <2>3. found \in [D -> Int] \/ found \in [D \cup {u} -> Int]
        BY <1>1, <1>3
    <2>4. found \in Lists /\ DOMAIN found \subseteq Users
        BY <1>1, <1>3, <2>3
    <2>5. pc \in Ticking /\ todo \subseteq Users
        BY <1>1, <2>4 DEF Ticking
    <2> HIDE DEF found, pc, todo
    <2>6. k \in Handler /\ k.pc = pc
        BY <1>1, <2>4, <2>5 DEF Handler
    <2> HIDE DEF k
    <2> QED BY <1>1, <1>2, <1>4, <2>2, <2>5, <2>6 DEF Quiet, Becomes
<1>9. CASE TryNext(p)
    <2>1. h.pc = "tryNext" /\ h.pc \in Ticking
        BY <1>9 DEF TryNext, At, Ticking
    <2>2. ASSUME NEW u \in Eldest(h.todo, h.listed), proc' = [proc EXCEPT ![p].todo = @ \ {u}]
          PROVE  Moves(p) /\ proc'[p].pc \notin Claiming
        <3> DEFINE k == [h EXCEPT !.todo = h.todo \ {u}]
        <3>1. proc' = [proc EXCEPT ![p] = k]
            BY <1>1, <2>2
        <3>2. k \in Handler /\ k.pc = h.pc
            BY <1>1 DEF Handler
        <3> HIDE DEF k
        <3> QED BY <1>4, <2>1, <3>1, <3>2 DEF Becomes
    <2>3. ASSUME NEW u \in Eldest(h.todo, h.listed), NEW v \in findOpponent(u, h),
                 proc' = [proc EXCEPT ![p].todo = @ \ {u}, ![p].pc = "pair",
                                      ![p].user = u, ![p].other = v]
          PROVE  Moves(p) /\ proc'[p].pc \notin Claiming
        <3> DEFINE k == [h EXCEPT !.todo = h.todo \ {u}, !.pc = "pair", !.user = u, !.other = v]
        <3>1. proc' = [proc EXCEPT ![p] = k]
            BY <1>1, <2>3
        <3>2. u \in Users /\ v \in Users
            BY <1>1, <1>3 DEF Eldest, findOpponent, Matching
        <3>3. k \in Handler /\ k.pc = "pair"
            BY <1>1, <3>2 DEF Handler, Ticking
        <3> HIDE DEF k
        <3> QED BY <1>4, <3>1, <3>3 DEF Becomes, Ticking
    <2>4. Moves(p) /\ proc'[p].pc \notin Claiming
        BY <1>5, <1>9, <2>2, <2>3 DEF TryNext
    <2> QED BY <1>1, <1>2, <2>4 DEF Quiet
<1>10. CASE StartMatch(p)
    <2> DEFINE left == DOMAIN h.listed \ {h.user, h.other}
               new  == [u \in left |-> h.listed[u]]
               k    == [h EXCEPT !.pc = "tryNext", !.user = NoUser, !.other = NoUser, !.id = 0,
                                 !.listed = new, !.todo = h.todo \cap left]
    <2>1. proc' = [proc EXCEPT ![p] = k]
        BY <1>1, <1>10 DEF StartMatch
    <2>2. left \subseteq Users /\ new \in [left -> Int]
        BY <1>3
    <2>3. new \in Lists
        BY <2>2
    <2> HIDE DEF new
    <2>4. k \in Handler /\ k.pc = "tryNext"
        BY <1>1, <2>3 DEF Handler, Ticking
    <2> HIDE DEF k
    <2> QED BY <1>1, <1>2, <1>4, <2>1, <2>4 DEF Quiet, Becomes, Ticking
<1> QED BY <1>6, <1>7, <1>8, <1>9, <1>10 DEF TickStep

\* A directed start that finds a match on record, or the pair locked, and a handler
\* that dies.
LookStep(p) == LockPair(p) \/ GetExisting(p) \/ GetMappings(p) \/ HandlerDies(p)

LEMMA LookStepQuiet ==
    ASSUME TypeInv, NEW p \in Slots, LookStep(p)
    PROVE  Quiet(p)
<1> DEFINE h == proc[p]
<1>1. /\ SlotOK(h) /\ h \in Handler /\ proc \in [Slots -> Handler]
      /\ tmatch \in [Tournament -> Nat] /\ meta \in [Users -> Int]
    BY DEF TypeInv
<1>2. UNCHANGED <<byUser, tmatch, matches, entries, raced, clock, queue, meta>>
    BY DEF LookStep, LockPair, GetExisting, GetMappings, HandlerDies, queueKeys, matchKeys, history
<1>3. Return(p) => Moves(p) /\ proc'[p].pc \notin Claiming
    BY ReturnMoves DEF Idle, Claiming
<1>4. CASE LockPair(p)
    <2>1. Suits(h, "claim")
        BY <1>1, <1>4 DEF LockPair, At, SlotOK, Suits, Directing, Joining, Claiming
    <2>2. Goto(p, "claim") => Moves(p) /\ proc'[p].pc \notin Claiming
        BY <2>1, GotoMoves DEF Claiming
    <2> QED BY <1>1, <1>2, <1>3, <1>4, <2>2 DEF LockPair, Quiet
<1>5. CASE GetExisting(p)
    <2> DEFINE k == [h EXCEPT !.pc = "getMappings", !.id = tmatch[h.t]]
    <2>1. Return(p) \/ proc' = [proc EXCEPT ![p] = k]
        BY <1>1, <1>5 DEF GetExisting
    <2>2. h.t \in Tournament
        BY <1>1, <1>5 DEF GetExisting, At, SlotOK, Directing
    <2>3. k \in Handler /\ k.pc = "getMappings" /\ k.t = h.t
        BY <1>1, <2>2 DEF Handler, Directing
    <2> HIDE DEF k
    <2>4. SlotOK(k) /\ k.pc \notin Claiming
        BY <2>2, <2>3 DEF SlotOK, Joining, Claiming
    <2> QED BY <1>1, <1>2, <1>3, <2>1, <2>4 DEF Quiet, Moves, Becomes
<1>6. CASE GetMappings(p) \/ HandlerDies(p)
    BY <1>1, <1>2, <1>3, <1>6 DEF GetMappings, HandlerDies, Quiet
<1> QED BY <1>4, <1>5, <1>6 DEF LookStep

-----------------------------------------------------------------------------
(* Who is in which match. *)

\* A match is added ...
LEMMA Appended ==
    ASSUME matches \in Seq(MatchRecord), NEW m \in MatchRecord, matches' = Append(matches, m)
    PROVE  LET new == Len(matches) + 1 IN
           /\ matches' \in Seq(MatchRecord)
           /\ DOMAIN matches' = DOMAIN matches \cup {new}
           /\ new \in Nat /\ new # 0 /\ new \notin DOMAIN matches
           /\ \A id \in DOMAIN matches : id # 0 /\ matches'[id] = matches[id]
           /\ matches'[new] = m
<1>1. DOMAIN matches = 1..Len(matches) /\ Len(matches) \in Nat
    OBVIOUS
<1>2. /\ matches' \in Seq(MatchRecord) /\ Len(matches') = Len(matches) + 1
      /\ \A id \in 1..Len(matches) : matches'[id] = matches[id]
      /\ matches'[Len(matches) + 1] = m
    BY AppendProperties
<1>3. DOMAIN matches' = 1..Len(matches')
    BY <1>2
<1> QED BY <1>1, <1>2, <1>3

\* ... or one gets another status.
LEMMA Marked ==
    ASSUME matches \in Seq(MatchRecord), NEW id \in DOMAIN matches, NEW st \in Status,
           matches' = [matches EXCEPT ![id].status = st]
    PROVE  /\ matches' \in Seq(MatchRecord)
           /\ DOMAIN matches' = DOMAIN matches
           /\ matches'[id].players = matches[id].players /\ matches'[id].t = matches[id].t
           /\ matches'[id].status = st
           /\ \A i \in DOMAIN matches : i # id => matches'[i] = matches[i]
<1> DEFINE e == [matches[id] EXCEPT !.status = st]
<1>1. DOMAIN matches = 1..Len(matches) /\ matches[id] \in MatchRecord
    OBVIOUS
<1>2. e \in MatchRecord /\ e.players = matches[id].players /\ e.t = matches[id].t /\ e.status = st
    BY <1>1 DEF MatchRecord
<1>3. matches' = [matches EXCEPT ![id] = e]
    OBVIOUS
<1> HIDE DEF e
<1>4. /\ matches' \in Seq(MatchRecord) /\ Len(matches') = Len(matches)
      /\ \A i \in 1..Len(matches) : matches'[i] = IF i = id THEN e ELSE matches[i]
    BY <1>1, <1>2, <1>3, ExceptSeq
<1>5. DOMAIN matches' = 1..Len(matches')
    BY <1>4
<1> QED BY <1>1, <1>2, <1>4, <1>5

\* The handlers after a slot has moved.
LEMMA OthersStay ==
    ASSUME TypeInv, NEW p \in Slots, Moves(p)
    PROVE  /\ proc' \in [Slots -> Handler] /\ \A q \in Slots : SlotOK(proc'[q])
           /\ \A q \in Slots : q # p => proc'[q] = proc[q]
<1>1. /\ proc \in [Slots -> Handler] /\ SlotOK(proc'[p])
      /\ proc' = [proc EXCEPT ![p] = proc'[p]]
    BY DEF TypeInv, Moves, Becomes
<1>2. \A q \in Slots : q # p => proc'[q] = proc[q]
    BY <1>1
<1>3. \A q \in Slots : SlotOK(proc'[q])
    BY <1>1, <1>2 DEF TypeInv
<1> QED BY <1>1, <1>2, <1>3 DEF SlotOK

LEMMA QuietBook ==
    ASSUME TypeInv, BookInv, NEW p \in Slots, Quiet(p)
    PROVE  TypeInv' /\ BookInv'
<1>1. TypeInv'
    BY OthersStay DEF TypeInv, Quiet
<1>2. Claims' /\ OneClaim'
    BY OthersStay DEF BookInv, Claims, OneClaim, HoldsClaim, Quiet
<1>3. OnRecord' /\ QueuedAreFree' /\ Booked'
    BY DEF BookInv, OnRecord, GivenBack, QueuedAreFree, Booked, Live, Regular, MatchesOf, Quiet
<1> QED BY <1>1, <1>2, <1>3 DEF BookInv

\* A player who enters the queue with a match on record is no longer regular.
LEMMA EnterQueueBook ==
    ASSUME TypeInv, BookInv, NEW p \in Slots, EnterQueue(p)
    PROVE  TypeInv' /\ BookInv'
<1> DEFINE h == proc[p]
           k == [h EXCEPT !.pc = "hset", !.now = clock]
<1>1. /\ h \in Handler /\ h.user \in Users /\ clock \in Nat /\ proc \in [Slots -> Handler]
    BY DEF TypeInv, EnterQueue, At, SlotOK, Joining
<1>2. proc' = [proc EXCEPT ![p] = k]
    BY <1>1 DEF EnterQueue
<1>3. k \in Handler /\ k.pc = "hset" /\ k.user = h.user
    BY <1>1 DEF Handler, Joining
<1> HIDE DEF k
<1>4. Moves(p) /\ proc'[p].pc \notin Claiming
    BY <1>1, <1>2, <1>3 DEF Moves, Becomes, SlotOK, Joining, Directing, Claiming
<1>5. /\ queue' = queue \cup {h.user}
      /\ raced' = IF byUser[h.user] # 0 THEN raced \cup {h.user} ELSE raced
      /\ entries' = IF h.user \in queue THEN entries
                    ELSE [entries EXCEPT ![h.user] = entries[h.user] + 1]
      /\ UNCHANGED <<meta, byUser, tmatch, matches, clock>>
    BY DEF EnterQueue, matchKeys
<1>6. TypeInv'
    <2>1. entries' \in [Users -> Nat]
        BY <1>1, <1>5 DEF TypeInv
    <2> QED BY <1>1, <1>4, <1>5, <2>1, OthersStay DEF TypeInv
<1>7. Claims' /\ OneClaim'
    BY <1>4, <1>5, OthersStay DEF BookInv, Claims, OneClaim, HoldsClaim
<1>8. OnRecord' /\ QueuedAreFree' /\ Booked'
    BY <1>5 DEF BookInv, OnRecord, GivenBack, QueuedAreFree, Booked, Live, Regular, MatchesOf
<1> QED BY <1>6, <1>7, <1>8 DEF BookInv

\* Two queued players are booked for a new match, which is a ranked one or the one on
\* record of a tournament match, or two players without a match are.
Books(p, pair, t) ==
    LET new == Len(matches) + 1 IN
    /\ pair \subseteq Users
    /\ \A u \in pair : Regular(u) => byUser[u] = 0
    /\ queue' = queue \ pair
    /\ byUser' = [u \in Users |-> IF u \in pair THEN new ELSE byUser[u]]
    /\ meta' = [u \in Users |-> IF u \in pair THEN NotQueued ELSE meta[u]]
    /\ \E st \in {"running", "claimed"} : matches' = Append(matches, NewMatch(pair, t, st))
    /\ UNCHANGED <<entries, raced, clock>>
    /\ Moves(p)

LEMMA BooksBook ==
    ASSUME TypeInv, BookInv, NEW p \in Slots, NEW pair, NEW t \in Tournament \cup {NoTournament},
           Books(p, pair, t), tmatch' \in [Tournament -> Nat]
    PROVE  TypeInv' /\ QueuedAreFree' /\ Booked'
<1> DEFINE new == Len(matches) + 1
<1>1. PICK st \in {"running", "claimed"} : matches' = Append(matches, NewMatch(pair, t, st))
    BY DEF Books
<1> DEFINE m == NewMatch(pair, t, st)
<1>2. m \in MatchRecord /\ m.players = pair /\ m.t = t /\ m.status = st
    BY DEF NewMatch, MatchRecord, Status, Books
<1> HIDE DEF m
<1>3. /\ matches' \in Seq(MatchRecord)
      /\ DOMAIN matches' = DOMAIN matches \cup {new}
      /\ new \in Nat /\ new # 0 /\ new \notin DOMAIN matches
      /\ \A id \in DOMAIN matches : id # 0 /\ matches'[id] = matches[id]
      /\ matches'[new] = m
    BY <1>1, <1>2, Appended DEF TypeInv, m
<1> HIDE DEF new
<1>4. /\ \A u \in pair : byUser'[u] = new
      /\ \A u \in Users \ pair : byUser'[u] = byUser[u]
      /\ byUser' \in [Users -> Nat] /\ meta' \in [Users -> Int]
    BY <1>3 DEF Books, new, TypeInv, NotQueued
<1>5. TypeInv'
    BY <1>3, <1>4, OthersStay DEF TypeInv, Books
<1>6. \A u \in Users : Regular(u)' => Regular(u)
    BY <1>3 DEF Regular, MatchesOf, Books
<1>7. QueuedAreFree'
    BY <1>4, <1>6 DEF QueuedAreFree, BookInv, Books, TypeInv
<1>8. Booked'
    <2> SUFFICES ASSUME NEW u \in Users, NEW id \in DOMAIN matches', u \in matches'[id].players,
                        Live(id)', Regular(u)'
                 PROVE  byUser'[u] = id
        BY DEF Booked
    <2>1. CASE id = new
        BY <1>2, <1>3, <1>4, <2>1
    <2>2. CASE id \in DOMAIN matches
        <3>1. byUser[u] = id /\ id # 0
            BY <1>3, <1>6, <2>2 DEF BookInv, Booked, Live
        <3>2. u \notin pair
            BY <1>6, <3>1 DEF Books
        <3> QED BY <1>4, <3>1, <3>2
    <2> QED BY <1>3, <2>1, <2>2
<1> QED BY <1>5, <1>7, <1>8

\* The pairing script: a new ranked match, or nothing.
LEMMA PairPlayersBooks ==
    ASSUME TypeInv, BookInv, NEW p \in Slots, PairPlayers(p)
    PROVE  \/ Quiet(p)
           \/ /\ Books(p, {proc[p].user, proc[p].other}, NoTournament)
              /\ {proc[p].user, proc[p].other} \subseteq queue
              /\ tmatch' = tmatch /\ proc'[p].pc = "start"
<1> DEFINE h == proc[p]
           pair == {h.user, h.other}
           new == Len(matches) + 1
           k == [h EXCEPT !.pc = "start", !.id = new]
<1>1. /\ h \in Handler /\ proc \in [Slots -> Handler] /\ new \in Nat /\ meta \in [Users -> Int]
    BY DEF TypeInv
<1>2. CASE ~(pair \in pairLock /\ StillQueued(pair))
    <2>1. Suits(h, "tryNext")
        BY DEF Suits, Ticking, Joining, Directing, Claiming
    <2>2. Goto(p, "tryNext") /\ UNCHANGED <<queue, meta, byUser, matches, tmatch, clock, history>>
        BY <1>2 DEF PairPlayers
    <2> QED BY <1>1, <2>1, <2>2, GotoMoves DEF Quiet, history, Claiming
<1>3. CASE pair \in pairLock /\ StillQueued(pair)
    <2>1. proc' = [proc EXCEPT ![p] = k]
        BY <1>1, <1>3 DEF PairPlayers
    <2>2. k \in Handler /\ k.pc = "start"
        BY <1>1 DEF Handler, Ticking
    <2> HIDE DEF k
    <2>3. Moves(p) /\ proc'[p].pc = "start"
        BY <1>1, <2>1, <2>2 DEF Moves, Becomes, SlotOK, Joining, Directing, Claiming
    <2>4. pair \subseteq queue /\ pair \subseteq Users
        BY <1>3 DEF StillQueued, TypeInv
    <2>5. \A u \in pair : Regular(u) => byUser[u] = 0
        BY <2>4 DEF BookInv, QueuedAreFree
    <2>6. /\ queue' = queue \ pair
          /\ meta' = [u \in Users |-> IF u \in pair THEN NotQueued ELSE meta[u]]
          /\ byUser' = [u \in Users |-> IF u \in pair THEN new ELSE byUser[u]]
          /\ matches' = Append(matches, NewMatch(pair, NoTournament, "running"))
          /\ UNCHANGED <<tmatch, clock, history>>
        BY <1>3 DEF PairPlayers
    <2> HIDE DEF pair
    <2>7. Books(p, pair, NoTournament)
        BY <2>3, <2>4, <2>5, <2>6 DEF Books, history
    <2> QED BY <2>3, <2>4, <2>6, <2>7 DEF pair
<1> QED BY <1>2, <1>3

LEMMA PairPlayersBook ==
    ASSUME TypeInv, BookInv, NEW p \in Slots, PairPlayers(p)
    PROVE  TypeInv' /\ BookInv'
<1> DEFINE pair == {proc[p].user, proc[p].other}
<1>1. CASE Quiet(p)
    BY <1>1, QuietBook
<1>2. CASE Books(p, pair, NoTournament) /\ tmatch' = tmatch /\ proc'[p].pc = "start"
    <2> HIDE DEF pair
    <2>1. TypeInv' /\ QueuedAreFree' /\ Booked'
        BY <1>2, BooksBook DEF TypeInv
    <2>2. PICK st \in {"running", "claimed"} :
              matches' = Append(matches, NewMatch(pair, NoTournament, st))
        BY <1>2 DEF Books
    <2>3. /\ NewMatch(pair, NoTournament, st) \in MatchRecord
          /\ NewMatch(pair, NoTournament, st).t = NoTournament
        BY <1>2 DEF NewMatch, MatchRecord, Status, Books
    <2>4. /\ \A id \in DOMAIN matches : id \in DOMAIN matches' /\ matches'[id] = matches[id]
          /\ \A id \in DOMAIN matches' : id \in DOMAIN matches \/ matches'[id].t = NoTournament
        BY <2>2, <2>3, Appended DEF TypeInv
    <2>5. Claims' /\ OneClaim'
        BY <1>2, <2>4, OthersStay DEF Books, BookInv, Claims, OneClaim, HoldsClaim, Claiming
    <2>6. OnRecord'
        BY <1>2, <2>4, OpponentsAssumption DEF BookInv, OnRecord, GivenBack
    <2> QED BY <2>1, <2>5, <2>6 DEF BookInv
<1> QED BY <1>1, <1>2, PairPlayersBooks

\* The claim of a tournament match: a new match on record for it, or nothing.
LEMMA ClaimPlayersBooks ==
    ASSUME TypeInv, NEW p \in Slots, ClaimPlayers(p)
    PROVE  LET t == proc[p].t
               new == Len(matches) + 1
           IN  \/ Quiet(p)
               \/ /\ t \in Tournament
                  /\ Books(p, Opponents[t], t)
                  /\ matches' = Append(matches, NewMatch(Opponents[t], t, "claimed"))
                  /\ tmatch[t] = 0 /\ tmatch' = [tmatch EXCEPT ![t] = new]
                  /\ proc'[p].pc = "save" /\ proc'[p].t = t /\ proc'[p].id = new
<1> DEFINE h == proc[p]
           t == h.t
           pair == Opponents[t]
           new == Len(matches) + 1
           k == [h EXCEPT !.pc = "save", !.id = new]
           claimed == pair \in pairLock /\ Unstarted(t) /\ BothFree(pair)
<1>1. /\ h \in Handler /\ proc \in [Slots -> Handler] /\ new \in Nat /\ meta \in [Users -> Int]
      /\ t \in Tournament /\ pair \subseteq Users
    BY OpponentsAssumption DEF TypeInv, ClaimPlayers, At, SlotOK, Directing
<1>2. CASE ~claimed
    <2>1. Suits(h, "getExisting")
        BY <1>1 DEF Suits, Joining, Directing, Claiming
    <2>2. /\ Goto(p, "getExisting") \/ Return(p)
          /\ UNCHANGED <<queue, meta, byUser, matches, tmatch, clock, history>>
        BY <1>2 DEF ClaimPlayers
    <2>3. Moves(p) /\ proc'[p].pc \notin Claiming
        BY <2>1, <2>2, GotoMoves, ReturnMoves DEF Claiming, Idle
    <2> QED BY <1>1, <2>2, <2>3 DEF Quiet, history
<1>3. CASE claimed
    <2>1. proc' = [proc EXCEPT ![p] = k]
        BY <1>1, <1>3 DEF ClaimPlayers
    <2>2. k \in Handler /\ k.pc = "save" /\ k.t = t /\ k.id = new
        BY <1>1 DEF Handler, Directing, Claiming
    <2> HIDE DEF k
    <2>3. Moves(p) /\ proc'[p] = k
        BY <1>1, <2>1, <2>2 DEF Moves, Becomes, SlotOK, Joining
    <2>4. tmatch[t] = 0 /\ \A u \in pair : byUser[u] = 0
        BY <1>3 DEF Unstarted, BothFree
    <2>5. /\ queue' = queue \ pair
          /\ meta' = [u \in Users |-> IF u \in pair THEN NotQueued ELSE meta[u]]
          /\ byUser' = [u \in Users |-> IF u \in pair THEN new ELSE byUser[u]]
          /\ tmatch' = [tmatch EXCEPT ![t] = new]
          /\ matches' = Append(matches, NewMatch(pair, t, "claimed"))
          /\ UNCHANGED <<clock, history>>
        BY <1>3 DEF ClaimPlayers
    <2>6. Books(p, pair, t)
        BY <1>1, <2>3, <2>4, <2>5 DEF Books, history
    <2> QED BY <1>1, <2>2, <2>3, <2>4, <2>5, <2>6
<1> QED BY <1>2, <1>3

LEMMA ClaimPlayersBook ==
    ASSUME TypeInv, BookInv, NEW p \in Slots, ClaimPlayers(p)
    PROVE  TypeInv' /\ BookInv'
<1> DEFINE t == proc[p].t
           new == Len(matches) + 1
           m == NewMatch(Opponents[t], t, "claimed")
<1>1. CASE Quiet(p)
    BY <1>1, QuietBook
<1>2. CASE /\ t \in Tournament
           /\ Books(p, Opponents[t], t)
           /\ matches' = Append(matches, m)
           /\ tmatch[t] = 0 /\ tmatch' = [tmatch EXCEPT ![t] = new]
           /\ proc'[p].pc = "save" /\ proc'[p].t = t /\ proc'[p].id = new
    <2>1. m \in MatchRecord /\ m.players = Opponents[t] /\ m.t = t /\ m.status = "claimed"
        BY <1>2 DEF NewMatch, MatchRecord, Status, Books
    <2> HIDE DEF m
    <2>2. /\ DOMAIN matches' = DOMAIN matches \cup {new}
          /\ new \in Nat /\ new \notin DOMAIN matches
          /\ \A id \in DOMAIN matches : id # 0 /\ matches'[id] = matches[id]
          /\ matches'[new] = m
        BY <1>2, <2>1, Appended DEF TypeInv
    <2>3. /\ tmatch' \in [Tournament -> Nat] /\ tmatch'[t] = new
          /\ \A s \in Tournament : s # t => tmatch'[s] = tmatch[s]
        BY <1>2, <2>2 DEF TypeInv
    <2> HIDE DEF new
    <2>4. TypeInv' /\ QueuedAreFree' /\ Booked'
        BY <1>2, <2>3, BooksBook
    <2>5. \A q \in Slots : q # p => proc'[q] = proc[q]
        BY <1>2, OthersStay DEF Books
    \* No other handler has a claim on t: its match would be on record.
    <2>6. \A q \in Slots : q # p /\ proc[q].pc \in Claiming =>
             /\ HoldsClaim(proc[q]) /\ proc[q].t \in Tournament /\ proc[q].t # t
        BY <1>2, <2>2 DEF BookInv, Claims, HoldsClaim, TypeInv, SlotOK, Directing
    <2>7. ASSUME NEW q \in Slots, proc'[q].pc \in Claiming PROVE HoldsClaim(proc[q])'
        <3>1. CASE q = p
            BY <1>2, <2>1, <2>2, <2>3, <3>1 DEF HoldsClaim, StatusAt
        <3>2. CASE q # p
            BY <2>2, <2>3, <2>5, <2>6, <2>7, <3>2 DEF HoldsClaim
        <3> QED BY <3>1, <3>2
    <2>8. Claims' /\ OneClaim'
        BY <1>2, <2>5, <2>6, <2>7 DEF BookInv, Claims, OneClaim
    <2>9. OnRecord'
        <3> SUFFICES ASSUME NEW id \in DOMAIN matches', matches'[id].t \in Tournament,
                            ~GivenBack(id)'
                     PROVE  tmatch'[matches'[id].t] = id
            BY DEF OnRecord
        <3>1. CASE id = new
            BY <2>1, <2>2, <2>3, <3>1
        <3>2. CASE id \in DOMAIN matches
            BY <1>2, <2>2, <2>3, <3>2 DEF BookInv, OnRecord, GivenBack
        <3> QED BY <2>2, <3>1, <3>2
    <2> QED BY <2>4, <2>8, <2>9 DEF BookInv
<1> QED BY <1>1, <1>2, ClaimPlayersBooks

\* The handler of a claimed match takes it one step further, and may mark it.
Furthers(p) ==
    LET h == proc[p]
        k == proc'[p]
    IN  /\ Moves(p) /\ h.pc \in Claiming
        /\ \/ matches' = matches
           \/ /\ h.pc \in {"save", "announce"}
              /\ \E st \in {"saved", "running"} : matches' = [matches EXCEPT ![h.id].status = st]
        /\ k.pc \in Claiming =>
              k.t = h.t /\ k.id = h.id /\ matches'[h.id].status \in StatusAt(k.pc)
        /\ \A u \in Users : Regular(u) => byUser'[u] = byUser[u]
        /\ byUser' \in [Users -> Nat]
        /\ UNCHANGED <<queue, meta, tmatch, entries, raced, clock>>

LEMMA FurthersBook ==
    ASSUME TypeInv, BookInv, NEW p \in Slots, Furthers(p)
    PROVE  TypeInv' /\ BookInv'
<1> DEFINE h == proc[p]
           id == h.id
<1>1. HoldsClaim(h) /\ h.t \in Tournament /\ id \in DOMAIN matches
    BY DEF Furthers, BookInv, Claims, HoldsClaim, TypeInv, SlotOK, Directing
<1>2. /\ matches' \in Seq(MatchRecord) /\ DOMAIN matches' = DOMAIN matches
      /\ \A i \in DOMAIN matches :
            /\ matches'[i].players = matches[i].players /\ matches'[i].t = matches[i].t
            /\ i # id => matches'[i].status = matches[i].status
      /\ \/ matches'[id].status = matches[id].status
         \/ Live(id) /\ matches'[id].status \in {"saved", "running"}
    <2>1. CASE matches' = matches
        BY <2>1 DEF TypeInv
    <2>2. CASE /\ h.pc \in {"save", "announce"}
               /\ \E st \in {"saved", "running"} : matches' = [matches EXCEPT ![h.id].status = st]
        <3>1. PICK st \in {"saved", "running"} : matches' = [matches EXCEPT ![id].status = st]
            BY <2>2
        <3>2. st \in Status /\ Live(id)
            BY <1>1, <2>2 DEF Status, Live, HoldsClaim, StatusAt
        <3> QED BY <1>1, <3>1, <3>2, Marked DEF TypeInv
    <2> QED BY <2>1, <2>2 DEF Furthers
<1>3. TypeInv'
    BY <1>2, OthersStay DEF TypeInv, Furthers
<1>4. \A q \in Slots : q # p => proc'[q] = proc[q]
    BY OthersStay DEF Furthers
<1>5. ASSUME NEW q \in Slots, proc'[q].pc \in Claiming PROVE HoldsClaim(proc[q])'
    <2>1. CASE q = p
        BY <1>1, <1>2, <1>5, <2>1 DEF Furthers, HoldsClaim
    <2>2. CASE q # p
        <3>1. HoldsClaim(proc[q]) /\ proc[q].t # h.t
            BY <1>4, <1>5, <2>2 DEF BookInv, Claims, OneClaim, Furthers
        <3>2. proc[q].id # id
            BY <1>1, <3>1 DEF HoldsClaim
        <3> QED BY <1>2, <1>4, <2>2, <3>1, <3>2 DEF HoldsClaim, Furthers
    <2> QED BY <2>1, <2>2
<1>6. Claims' /\ OneClaim'
    BY <1>4, <1>5 DEF Claims, OneClaim, BookInv, Furthers
<1>7. \A i \in DOMAIN matches : (Live(i)' => Live(i)) /\ (GivenBack(i)' <=> GivenBack(i))
    BY <1>2 DEF Live, GivenBack
<1>8. \A u \in Users : Regular(u)' => Regular(u)
    BY <1>2 DEF Regular, MatchesOf, Live, Furthers
<1>9. OnRecord'
    BY <1>2, <1>7 DEF OnRecord, BookInv, Furthers
<1>10. QueuedAreFree'
    BY <1>8 DEF QueuedAreFree, BookInv, Furthers, TypeInv
<1>11. Booked'
    BY <1>2, <1>7, <1>8 DEF Booked, BookInv, Furthers
<1> QED BY <1>3, <1>6, <1>9, <1>10, <1>11 DEF BookInv

LEMMA CreateFurthers ==
    ASSUME TypeInv, BookInv, NEW p \in Slots,
           SaveState(p) \/ MapPlayers(p) \/ Announce(p) \/ CommandFails(p)
    PROVE  Furthers(p) \/ Quiet(p)
<1> DEFINE h == proc[p]
           id == h.id
<1>1. SlotOK(h) /\ h \in Handler /\ byUser \in [Users -> Nat] /\ meta \in [Users -> Int]
    BY DEF TypeInv
<1>2. ASSUME h.pc \in Claiming
      PROVE  /\ h.t \in Tournament /\ id \in DOMAIN matches /\ HoldsClaim(h)
             /\ \A st \in Status : matches' = [matches EXCEPT ![id].status = st] =>
                     matches'[id].status = st
    BY <1>2, Marked DEF BookInv, Claims, HoldsClaim, TypeInv, SlotOK, Directing
<1>3. ASSUME NEW label \in Claiming, h.pc \in Claiming PROVE Suits(h, label)
    BY <1>2, <1>3 DEF Suits, Joining, Directing, Claiming
<1>4. CASE SaveState(p)
    <2>1. /\ h.pc = "save" /\ matches' = [matches EXCEPT ![id].status = "saved"]
          /\ Goto(p, "map") /\ UNCHANGED <<queueKeys, byUser, tmatch, clock, history>>
        BY <1>4 DEF SaveState, At
    <2>2. Moves(p) /\ proc'[p].pc = "map" /\ proc'[p].t = h.t /\ proc'[p].id = id
        BY <1>3, <2>1, GotoMoves DEF Claiming
    <2>3. matches'[id].status = "saved"
        BY <1>2, <2>1 DEF Claiming, Status
    <2> QED BY <1>1, <2>1, <2>2, <2>3 DEF Furthers, queueKeys, history, Claiming, StatusAt
<1>5. CASE MapPlayers(p)
    <2>1. /\ h.pc = "map" /\ matches' = matches
          /\ byUser' = [u \in Users |-> IF u \in Opponents[h.t] THEN id ELSE byUser[u]]
          /\ Goto(p, "announce") /\ UNCHANGED <<queueKeys, tmatch, clock, history>>
        BY <1>5 DEF MapPlayers, At
    <2>2. Moves(p) /\ proc'[p].pc = "announce" /\ proc'[p].t = h.t /\ proc'[p].id = id
        BY <1>3, <2>1, GotoMoves DEF Claiming
    <2>3. HoldsClaim(h) /\ id \in DOMAIN matches /\ id \in Nat
        BY <1>1, <1>2, <2>1 DEF Claiming, Handler
    <2>4. matches[id].status = "saved" /\ Live(id) /\ matches[id].players = Opponents[h.t]
        BY <2>1, <2>3 DEF HoldsClaim, StatusAt, Live
    <2>5. \A u \in Users : Regular(u) /\ u \in Opponents[h.t] => byUser[u] = id
        BY <2>3, <2>4 DEF BookInv, Booked
    <2>6. /\ byUser' \in [Users -> Nat] /\ \A u \in Users : Regular(u) => byUser'[u] = byUser[u]
        BY <1>1, <2>1, <2>3, <2>5
    <2>7. h.pc \in Claiming /\ matches'[id].status \in StatusAt("announce")
        BY <2>1, <2>4 DEF Claiming, StatusAt
    <2> QED BY <2>1, <2>2, <2>6, <2>7 DEF Furthers, queueKeys, history
<1>6. CASE Announce(p)
    <2>1. /\ h.pc = "announce" /\ matches' = [matches EXCEPT ![id].status = "running"]
          /\ Return(p) /\ UNCHANGED <<queueKeys, byUser, tmatch, clock, history>>
        BY <1>6 DEF Announce, At
    <2>2. Moves(p) /\ proc'[p].pc \notin Claiming
        BY <2>1, ReturnMoves DEF Idle, Claiming
    <2> QED BY <1>1, <2>1, <2>2 DEF Furthers, queueKeys, history, Claiming
<1>7. CASE CommandFails(p)
    <2>1. UNCHANGED <<queueKeys, byUser, tmatch, clock, history>>
        BY <1>7 DEF CommandFails
    <2>2. CASE h.pc \in {"recheck", "zadd", "hset"} /\ Goto(p, "unlock") /\ matches' = matches
        <3>1. Suits(h, "unlock")
            BY <1>1, <2>2 DEF SlotOK, Suits, Joining, Directing, Claiming
        <3> QED BY <1>1, <2>1, <2>2, <3>1, GotoMoves DEF Quiet, queueKeys, history, Claiming
    <2>3. CASE /\ h.pc \in {"save", "map", "announce"} /\ Goto(p, "unclaim")
               /\ \/ matches' = matches
                  \/ At(p, "announce") /\ matches' = [matches EXCEPT ![id].status = "running"]
        <3>1. h.pc \in Claiming /\ HoldsClaim(h)
            BY <1>2, <2>3 DEF Claiming
        <3>2. /\ Moves(p) /\ proc'[p].pc = "unclaim" /\ proc'[p].t = h.t /\ proc'[p].id = id
            BY <1>3, <2>3, <3>1, GotoMoves DEF Claiming
        <3>3. matches'[id].status \in StatusAt("unclaim")
            BY <1>2, <2>3, <3>1 DEF HoldsClaim, StatusAt, Status
        <3> QED BY <1>1, <2>1, <2>3, <3>1, <3>2, <3>3 DEF Furthers, queueKeys, history, At
    <2> QED BY <1>7, <2>2, <2>3 DEF CommandFails
<1> QED BY <1>4, <1>5, <1>6, <1>7

\* A match is over for its players, who are given back to matchmaking; one that had been
\* announced before it was given back makes them irregular.
LEMMA FreesPlayers ==
    ASSUME TypeInv, BookInv, NEW id \in DOMAIN matches, NEW st \in Status,
           matches' = [matches EXCEPT ![id].status = st],
           byUser' = [u \in Users |-> IF u \in matches[id].players THEN 0 ELSE byUser[u]],
           ~Live(id) => st = "stray", st \in {"ended", "abandoned", "stray", "released"},
           UNCHANGED <<queue, raced>>
    PROVE  QueuedAreFree' /\ Booked'
<1>1. /\ DOMAIN matches' = DOMAIN matches
      /\ matches'[id].players = matches[id].players /\ matches'[id].status = st
      /\ \A i \in DOMAIN matches : i # id => matches'[i] = matches[i]
    BY Marked DEF TypeInv
<1>2. \A u \in Users : Regular(u)' => u \in matches[id].players \/ Regular(u)
    BY <1>1 DEF Regular, MatchesOf
<1>3. ASSUME NEW u \in Users, Regular(u)', u \in matches[id].players
      PROVE  Regular(u) /\ Live(id)
    <2>1. Live(id)
        BY <1>1, <1>3 DEF Regular, MatchesOf
    <2>2. Regular(u)
        BY <1>1, <1>3, <2>1 DEF Regular, MatchesOf, Live
    <2> QED BY <2>1, <2>2
<1>4. /\ \A u \in Users : byUser'[u] = IF u \in matches[id].players THEN 0 ELSE byUser[u]
      /\ queue \subseteq Users
    BY DEF TypeInv
<1>5. QueuedAreFree'
    BY <1>2, <1>4 DEF QueuedAreFree, BookInv
<1>6. Booked'
    <2> SUFFICES ASSUME NEW u \in Users, NEW i \in DOMAIN matches, u \in matches'[i].players,
                        Live(i)', Regular(u)'
                 PROVE  byUser'[u] = i
        BY <1>1 DEF Booked
    <2>1. i # id /\ Live(i) /\ u \in matches[i].players
        BY <1>1 DEF Live
    <2>2. u \notin matches[id].players
        BY <1>3, <2>1 DEF BookInv, Booked
    <2> QED BY <1>2, <1>4, <2>1, <2>2 DEF BookInv, Booked
<1> QED BY <1>5, <1>6

LEMMA ReleaseClaimsBook ==
    ASSUME TypeInv, BookInv, NEW p \in Slots, ReleaseClaims(p)
    PROVE  TypeInv' /\ BookInv'
<1> DEFINE h == proc[p]
           id == h.id
           st == CASE matches[id].status = "running" -> "abandoned"
                   [] matches[id].status = "ended" -> "stray"
                   [] OTHER -> "released"
<1>1. /\ h.pc = "unclaim" /\ h.pc \in Claiming /\ HoldsClaim(h) /\ h.t \in Tournament
      /\ id \in DOMAIN matches
    BY DEF ReleaseClaims, At, Claiming, BookInv, Claims, HoldsClaim, TypeInv, SlotOK, Directing
<1>2. /\ matches' = [matches EXCEPT ![id].status = st] /\ Return(p)
      /\ tmatch' = [tmatch EXCEPT ![h.t] = 0]
      /\ byUser' = [u \in Users |-> IF u \in matches[id].players THEN 0 ELSE byUser[u]]
      /\ UNCHANGED <<queueKeys, clock, history>>
    BY <1>1 DEF ReleaseClaims, HoldsClaim
<1>3. /\ st \in {"abandoned", "stray", "released"} /\ (~Live(id) => st = "stray")
      /\ st \in Status
    BY <1>1 DEF HoldsClaim, StatusAt, Live, Status
<1> HIDE DEF st
<1>4. QueuedAreFree' /\ Booked'
    BY <1>1, <1>2, <1>3, FreesPlayers DEF queueKeys, history
<1>5. /\ matches' \in Seq(MatchRecord) /\ DOMAIN matches' = DOMAIN matches
      /\ matches'[id].t = matches[id].t /\ matches'[id].status = st
      /\ \A i \in DOMAIN matches : i # id => matches'[i] = matches[i]
    BY <1>1, <1>2, <1>3, Marked DEF TypeInv
<1>6. Moves(p) /\ proc'[p].pc \notin Claiming
    BY <1>2, ReturnMoves DEF Idle, Claiming
<1>7. /\ tmatch' \in [Tournament -> Nat] /\ byUser' \in [Users -> Nat]
      /\ \A t \in Tournament : t # h.t => tmatch'[t] = tmatch[t]
    BY <1>2 DEF TypeInv
<1>8. TypeInv'
    BY <1>2, <1>5, <1>6, <1>7, OthersStay DEF TypeInv, queueKeys, history
<1>9. Claims' /\ OneClaim'
    <2>1. ASSUME NEW q \in Slots, proc'[q].pc \in Claiming PROVE q # p /\ HoldsClaim(proc[q])'
        <3>1. q # p /\ proc'[q] = proc[q]
            BY <1>6, <2>1, OthersStay
        <3>2. HoldsClaim(proc[q]) /\ proc[q].t # h.t /\ proc[q].t \in Tournament
            BY <1>1, <2>1, <3>1 DEF BookInv, Claims, OneClaim, TypeInv, SlotOK, Directing
        <3>3. proc[q].id # id
            BY <1>1, <3>2 DEF HoldsClaim
        <3> QED BY <1>5, <1>7, <3>1, <3>2, <3>3 DEF HoldsClaim
    <2> QED BY <1>6, <2>1, OthersStay DEF Claims, OneClaim, BookInv
<1>10. OnRecord'
    <2> SUFFICES ASSUME NEW i \in DOMAIN matches, matches'[i].t \in Tournament, ~GivenBack(i)'
                 PROVE  tmatch'[matches'[i].t] = i
        BY <1>5 DEF OnRecord
    <2>1. i # id
        BY <1>3, <1>5 DEF GivenBack
    <2>2. tmatch[matches[i].t] = i /\ matches'[i].t = matches[i].t
        BY <1>5, <2>1 DEF BookInv, OnRecord, GivenBack
    <2>3. matches[i].t # h.t
        BY <1>1, <2>1, <2>2 DEF HoldsClaim
    <2> QED BY <1>7, <2>2, <2>3
<1> QED BY <1>4, <1>8, <1>9, <1>10 DEF BookInv

LEMMA EndMatchBook ==
    ASSUME TypeInv, BookInv, NEW id \in DOMAIN matches, EndMatch(id)
    PROVE  TypeInv' /\ BookInv'
<1> DEFINE st == IF matches[id].status = "running" THEN "ended" ELSE "stray"
<1>1. /\ matches[id].status \in {"running", "abandoned"}
      /\ matches' = [matches EXCEPT ![id].status = st]
      /\ byUser' = [u \in Users |-> IF u \in matches[id].players THEN 0 ELSE byUser[u]]
      /\ UNCHANGED <<queueKeys, tmatch, clock, proc, history>>
    BY DEF EndMatch
<1>2. /\ st \in {"ended", "stray"} /\ (~Live(id) => st = "stray") /\ st \in Status
      /\ st = "ended" <=> matches[id].status = "running"
    BY <1>1 DEF Live, Status
<1> HIDE DEF st
<1>3. QueuedAreFree' /\ Booked'
    BY <1>1, <1>2, FreesPlayers DEF queueKeys, history
<1>4. /\ matches' \in Seq(MatchRecord) /\ DOMAIN matches' = DOMAIN matches
      /\ matches'[id].t = matches[id].t /\ matches'[id].status = st
      /\ matches'[id].players = matches[id].players
      /\ \A i \in DOMAIN matches : i # id => matches'[i] = matches[i]
    BY <1>1, <1>2, Marked DEF TypeInv
<1>5. byUser' \in [Users -> Nat]
    BY <1>1 DEF TypeInv
<1>6. TypeInv'
    BY <1>1, <1>4, <1>5 DEF TypeInv, queueKeys, history
<1>7. Claims' /\ OneClaim'
    <2>1. ASSUME NEW q \in Slots, proc[q].pc \in Claiming PROVE HoldsClaim(proc[q])'
        <3>1. HoldsClaim(proc[q])
            BY <2>1 DEF BookInv, Claims
        <3>2. proc[q].id = id => proc[q].pc = "unclaim" /\ st = "ended"
            BY <1>1, <1>2, <2>1, <3>1 DEF HoldsClaim, StatusAt, Claiming
        <3> QED BY <1>1, <1>4, <3>1, <3>2 DEF HoldsClaim, StatusAt
    <2> QED BY <1>1, <2>1 DEF Claims, OneClaim, BookInv
<1>8. OnRecord'
    BY <1>1, <1>2, <1>4 DEF OnRecord, BookInv, GivenBack
<1> QED BY <1>3, <1>6, <1>7, <1>8 DEF BookInv

\* Time passes, or a key expires under its holder.
LEMMA ExpiryBook ==
    ASSUME TypeInv, BookInv, Advance \/ EarlyExpiry \/ UNCHANGED vars
    PROVE  TypeInv' /\ BookInv'
<1>1. UNCHANGED <<queue, meta, byUser, tmatch, matches, proc, entries, raced>>
    BY DEF Advance, EarlyExpiry, vars, queueKeys, matchKeys, history
<1>2. clock' \in Nat
    BY MatchmakingBounds DEF Advance, EarlyExpiry, vars, TypeInv
<1>3. TypeInv'
    BY <1>1, <1>2 DEF TypeInv
<1>4. BookInv'
    BY <1>1 DEF BookInv, Claims, HoldsClaim, OneClaim, OnRecord, GivenBack, QueuedAreFree, Booked,
       Live, Regular, MatchesOf
<1> QED BY <1>3, <1>4

\* The steps of Next by what they do to the bookings.
LEMMA NextByBooking ==
    ASSUME TypeInv, BookInv, [Next]_vars
    PROVE  \/ \E p \in Slots :
                Quiet(p) \/ EnterQueue(p) \/ PairPlayers(p) \/ ClaimPlayers(p) \/ Furthers(p)
                \/ ReleaseClaims(p)
           \/ \E id \in DOMAIN matches : EndMatch(id)
           \/ Advance \/ EarlyExpiry \/ UNCHANGED vars
<1>1. ASSUME NEW p \in Slots, Step(p)
      PROVE  \/ Quiet(p) \/ EnterQueue(p) \/ PairPlayers(p) \/ ClaimPlayers(p) \/ Furthers(p)
             \/ ReleaseClaims(p)
    BY <1>1, QueueStepQuiet, TickStepQuiet, LookStepQuiet, CreateFurthers
       DEF Step, QueueStep, TickStep, LookStep
<1>2. ASSUME NEW p \in Slots, Starts(p) \/ HandlerDies(p) \/ CommandFails(p)
      PROVE  Quiet(p) \/ Furthers(p)
    BY <1>2, StartsQuiet, LookStepQuiet, CreateFurthers DEF LookStep
<1> QED BY <1>1, <1>2 DEF Next, Starts

LEMMA InitBook == Init => TypeInv /\ BookInv
<1> SUFFICES ASSUME Init PROVE TypeInv /\ BookInv
    OBVIOUS
<1>1. matches = <<>> /\ matches \in Seq(MatchRecord) /\ DOMAIN matches = {}
    BY DEF Init
<1>2. \A p \in Slots : proc[p] = Idle
    BY DEF Init
<1>3. /\ meta \in [Users -> Int] /\ clock \in Nat /\ byUser \in [Users -> Nat]
      /\ tmatch \in [Tournament -> Nat] /\ entries \in [Users -> Nat]
      /\ queue = {} /\ raced = {}
    BY DEF Init, NotQueued
<1>4. proc \in [Slots -> Handler] /\ \A p \in Slots : SlotOK(proc[p])
    BY IdleOK DEF Init, SlotOK
<1>5. TypeInv
    BY <1>1, <1>3, <1>4 DEF TypeInv
<1>6. BookInv
    BY <1>1, <1>2, <1>3
       DEF BookInv, Claims, OneClaim, OnRecord, QueuedAreFree, Booked, Idle, Claiming
<1> QED BY <1>5, <1>6

LEMMA NextBook == TypeInv /\ BookInv /\ [Next]_vars => TypeInv' /\ BookInv'
BY NextByBooking, QuietBook, EnterQueueBook, PairPlayersBook, ClaimPlayersBook, FurthersBook,
   ReleaseClaimsBook, EndMatchBook, ExpiryBook

\* A player who entered the queue without a match on record and none of whose matches
\* was given back after its announcement is in one match at a time, the one
\* match:byUser names, for any number of instances, ticks, directed starts, failing
\* commands, crashes and early expiries of the locks: no lock is needed for it.
THEOREM PlayersAreBookedOnce == Spec => []NoDoubleBooking
<1>1. BookInv => NoDoubleBooking
    BY DEF BookInv, Booked, Regular, NoDoubleBooking, MatchesOf
<1> QED BY <1>1, InitBook, NextBook, PTL DEF Spec

\* However often job-runner asks for a tournament match, all the matches made for it but
\* the one on record have been given back.
THEOREM TournamentMatchIsUnique == Spec => []TournamentMatchOnce
<1>1. TypeInv /\ BookInv => TournamentMatchOnce
    <2> SUFFICES ASSUME TypeInv, BookInv, NEW t \in Tournament
                 PROVE  Cardinality({id \in DOMAIN matches : matches[id].t = t /\ ~GivenBack(id)}) <= 1
        BY DEF TournamentMatchOnce
    <2> DEFINE M == {id \in DOMAIN matches : matches[id].t = t /\ ~GivenBack(id)}
    <2>1. M \in SUBSET {tmatch[t]}
        BY DEF BookInv, OnRecord
    <2>2. IsFiniteSet({tmatch[t]}) /\ Cardinality({tmatch[t]}) = 1
        BY FS_Singleton
    <2> HIDE DEF M
    <2>3. IsFiniteSet(M) /\ Cardinality(M) <= Cardinality({tmatch[t]})
        BY <2>1, <2>2, FS_Subset
    <2> QED BY <2>2, <2>3 DEF M
<1> QED BY <1>1, InitBook, NextBook, PTL DEF Spec

-----------------------------------------------------------------------------
(* Entries into the queue. *)

LEMMA RankedFinite ==
    ASSUME TypeInv, NEW u
    PROVE  IsFiniteSet(Ranked(u)) /\ Cardinality(Ranked(u)) \in Nat
<1>1. Len(matches) \in Nat /\ DOMAIN matches = 1..Len(matches)
    BY DEF TypeInv
<1>2. IsFiniteSet(1..Len(matches))
    BY <1>1, FS_Interval
<1>3. Ranked(u) \in SUBSET (1..Len(matches))
    BY <1>1 DEF Ranked, MatchesOf
<1>4. IsFiniteSet(Ranked(u))
    BY <1>2, <1>3, FS_Subset
<1> QED BY <1>4, FS_CardinalityType

\* The matches keep their players and their kind.
SameMatches ==
    /\ DOMAIN matches' = DOMAIN matches
    /\ \A id \in DOMAIN matches :
          matches'[id].players = matches[id].players /\ matches'[id].t = matches[id].t

LEMMA EntriesInvariant == TypeInv /\ BookInv /\ EntriesCover /\ [Next]_vars => EntriesCover'
<1> SUFFICES ASSUME TypeInv, BookInv, EntriesCover, [Next]_vars PROVE EntriesCover'
    OBVIOUS
<1>1. TypeInv'
    BY NextBook
<1>2. ASSUME \A u \in Users : Ranked(u)' = Ranked(u), queue' \subseteq queue, entries' = entries
      PROVE  EntriesCover'
    <2> SUFFICES ASSUME NEW u \in Users
                 PROVE  Cardinality(Ranked(u)') + (IF u \in queue' THEN 1 ELSE 0) <= entries'[u]
        BY DEF EntriesCover
    <2>1. Cardinality(Ranked(u)) + (IF u \in queue THEN 1 ELSE 0) <= entries[u]
        BY DEF EntriesCover
    <2>2. Ranked(u)' = Ranked(u) /\ (u \in queue' => u \in queue) /\ entries'[u] = entries[u]
        BY <1>2
    <2>3. Cardinality(Ranked(u)) \in Nat /\ entries[u] \in Nat
        BY RankedFinite DEF TypeInv
    <2> QED BY <2>1, <2>2, <2>3
<1>3. SameMatches => \A u \in Users : Ranked(u)' = Ranked(u)
    BY DEF SameMatches, Ranked, MatchesOf
<1>4. ASSUME NEW p \in Slots, Quiet(p) PROVE EntriesCover'
    BY <1>2, <1>3, <1>4 DEF Quiet, SameMatches
<1>5. ASSUME NEW p \in Slots, Furthers(p) PROVE EntriesCover'
    <2>1. proc[p].id \in DOMAIN matches
        BY <1>5 DEF Furthers, BookInv, Claims, HoldsClaim
    <2>2. SameMatches
        BY <1>5, <2>1, Marked DEF Furthers, SameMatches, TypeInv, Status
    <2> QED BY <1>2, <1>3, <1>5, <2>2 DEF Furthers
<1>6. ASSUME NEW p \in Slots, ReleaseClaims(p) PROVE EntriesCover'
    <2>1. proc[p].id \in DOMAIN matches
        BY <1>6 DEF ReleaseClaims, At, Claiming, BookInv, Claims, HoldsClaim
    <2>2. /\ \E st \in Status : matches' = [matches EXCEPT ![proc[p].id].status = st]
          /\ UNCHANGED <<queueKeys, history>>
        BY <1>6 DEF ReleaseClaims, Status
    <2>3. SameMatches
        BY <2>1, <2>2, Marked DEF SameMatches, TypeInv
    <2> QED BY <1>2, <1>3, <2>2, <2>3 DEF queueKeys, history
<1>7. ASSUME NEW id \in DOMAIN matches, EndMatch(id) PROVE EntriesCover'
    <2>1. /\ \E st \in Status : matches' = [matches EXCEPT ![id].status = st]
          /\ UNCHANGED <<queueKeys, history>>
        BY <1>7 DEF EndMatch, Status
    <2>2. SameMatches
        BY <2>1, Marked DEF SameMatches, TypeInv
    <2> QED BY <1>2, <1>3, <2>1, <2>2 DEF queueKeys, history
<1>8. ASSUME NEW p \in Slots, ClaimPlayers(p) PROVE EntriesCover'
    <2> DEFINE t == proc[p].t
    <2>1. CASE t \in Tournament /\ Books(p, Opponents[t], t)
        <3>1. PICK st \in {"running", "claimed"} :
                  matches' = Append(matches, NewMatch(Opponents[t], t, st))
            BY <2>1 DEF Books
        <3>2. NewMatch(Opponents[t], t, st) \in MatchRecord /\ NewMatch(Opponents[t], t, st).t = t
            BY <2>1 DEF NewMatch, MatchRecord, Status, Books
        <3>3. /\ \A id \in DOMAIN matches : id \in DOMAIN matches' /\ matches'[id] = matches[id]
              /\ \A id \in DOMAIN matches' : id \in DOMAIN matches \/ matches'[id].t = t
            BY <3>1, <3>2, Appended DEF TypeInv
        <3>4. \A u \in Users : Ranked(u)' = Ranked(u)
            BY <2>1, <3>3, OpponentsAssumption DEF Ranked, MatchesOf
        <3> QED BY <1>2, <2>1, <3>4 DEF Books
    <2> QED BY <1>4, <1>8, <2>1, ClaimPlayersBooks
<1>9. ASSUME NEW p \in Slots, PairPlayers(p) PROVE EntriesCover'
    <2> DEFINE pair == {proc[p].user, proc[p].other}
               new == Len(matches) + 1
    <2>1. CASE Books(p, pair, NoTournament) /\ pair \subseteq queue
        <3> HIDE DEF pair
        <3>1. PICK st \in {"running", "claimed"} :
                  matches' = Append(matches, NewMatch(pair, NoTournament, st))
            BY <2>1 DEF Books
        <3> DEFINE m == NewMatch(pair, NoTournament, st)
        <3>2. m \in MatchRecord /\ m.players = pair /\ m.t = NoTournament
            BY <2>1 DEF NewMatch, MatchRecord, Status, Books
        <3> HIDE DEF m
        <3>3. /\ DOMAIN matches' = DOMAIN matches \cup {new} /\ new \notin DOMAIN matches
              /\ \A id \in DOMAIN matches : matches'[id] = matches[id]
              /\ matches'[new] = m
            BY <3>1, <3>2, Appended DEF TypeInv, m
        <3> HIDE DEF new
        <3> SUFFICES ASSUME NEW u \in Users
                     PROVE  Cardinality(Ranked(u)') + (IF u \in queue' THEN 1 ELSE 0) <= entries'[u]
            BY DEF EntriesCover
        <3>4. /\ Cardinality(Ranked(u)) + (IF u \in queue THEN 1 ELSE 0) <= entries[u]
              /\ IsFiniteSet(Ranked(u)) /\ Cardinality(Ranked(u)) \in Nat /\ entries[u] \in Nat
            BY RankedFinite DEF EntriesCover, TypeInv
        <3>5. queue' = queue \ pair /\ entries' = entries
            BY <2>1 DEF Books
        <3>6. CASE u \in pair
            <4>1. Ranked(u)' = Ranked(u) \cup {new} /\ new \notin Ranked(u)
                BY <3>2, <3>3, <3>6 DEF Ranked, MatchesOf
            <4>2. Cardinality(Ranked(u) \cup {new}) = Cardinality(Ranked(u)) + 1
                BY <3>4, <4>1, FS_AddElement
            <4>3. u \in queue /\ u \notin queue'
                BY <2>1, <3>5, <3>6
            <4> QED BY <3>4, <3>5, <4>1, <4>2, <4>3
        <3>7. CASE u \notin pair
            <4>1. Ranked(u)' = Ranked(u) /\ (u \in queue' <=> u \in queue)
                BY <3>2, <3>3, <3>5, <3>7 DEF Ranked, MatchesOf
            <4> QED BY <3>4, <3>5, <4>1
        <3> QED BY <3>6, <3>7
    <2> QED BY <1>4, <1>9, <2>1, PairPlayersBooks
<1>10. ASSUME NEW p \in Slots, EnterQueue(p) PROVE EntriesCover'
    <2> DEFINE v == proc[p].user
    <2>1. /\ queue' = queue \cup {v} /\ matches' = matches
          /\ entries' = IF v \in queue THEN entries ELSE [entries EXCEPT ![v] = entries[v] + 1]
        BY <1>10 DEF EnterQueue, matchKeys
    <2> SUFFICES ASSUME NEW u \in Users
                 PROVE  Cardinality(Ranked(u)') + (IF u \in queue' THEN 1 ELSE 0) <= entries'[u]
        BY DEF EntriesCover
    <2>2. /\ Cardinality(Ranked(u)) + (IF u \in queue THEN 1 ELSE 0) <= entries[u]
          /\ Cardinality(Ranked(u)) \in Nat /\ entries[u] \in Nat /\ entries \in [Users -> Nat]
        BY RankedFinite DEF EntriesCover, TypeInv
    <2>3. Ranked(u)' = Ranked(u)
        BY <2>1 DEF Ranked, MatchesOf
    <2> QED BY <2>1, <2>2, <2>3
<1>11. CASE Advance \/ EarlyExpiry \/ UNCHANGED vars
    <2>1. UNCHANGED <<queue, matches, entries>>
        BY <1>11 DEF Advance, EarlyExpiry, vars, queueKeys, matchKeys, history
    <2> QED BY <1>2, <1>3, <2>1 DEF SameMatches
<1> QED BY <1>4, <1>5, <1>6, <1>7, <1>8, <1>9, <1>10, <1>11, NextByBooking

\* The pairing worker makes at most one ranked match of an entry into the queue,
\* whatever the locks of pairs and players do: the script takes both players out of
\* the queue in the command that books them.
THEOREM EntryIsUsedOnce == Spec => []OneEntryOneMatch
<1>1. Init => EntriesCover
    <2> SUFFICES ASSUME Init, NEW u \in Users
                 PROVE  Cardinality(Ranked(u)) + (IF u \in queue THEN 1 ELSE 0) <= entries[u]
        BY DEF EntriesCover
    <2>1. Ranked(u) = {} /\ u \notin queue /\ entries[u] = 0
        BY DEF Init, Ranked, MatchesOf
    <2> QED BY <2>1, FS_EmptySet
<1>2. TypeInv /\ EntriesCover => OneEntryOneMatch
    <2> SUFFICES ASSUME TypeInv, EntriesCover, NEW u \in Users
                 PROVE  Cardinality(Ranked(u)) <= entries[u]
        BY DEF OneEntryOneMatch, Ranked
    <2>1. Cardinality(Ranked(u)) \in Nat /\ entries[u] \in Nat
        BY RankedFinite DEF TypeInv
    <2> QED BY <2>1 DEF EntriesCover
<1> QED BY <1>1, <1>2, InitBook, NextBook, EntriesInvariant, PTL DEF Spec

-----------------------------------------------------------------------------
(* The rating window. *)

\* A tick has begun in the past, and what it is about to pair suits the list it made.
TickOK(h, moment) ==
    /\ h.pc \in Ticking => h.now <= moment
    /\ h.pc = "pair" => h.user \in Users /\ h.other \in Matching(h.user, h)
ChosenInWindow == \A p \in Slots : TickOK(proc[p], clock)

LEMMA ChosenInvariant ==
    TypeInv /\ BookInv /\ ChosenInWindow /\ [Next]_vars => ChosenInWindow'
<1> SUFFICES ASSUME TypeInv, BookInv, ChosenInWindow, [Next]_vars PROVE ChosenInWindow'
    OBVIOUS
<1>1. proc \in [Slots -> Handler] /\ clock \in Nat /\ \A p \in Slots : proc[p].now \in Nat
    BY DEF TypeInv, Handler
<1>2. ASSUME NEW p \in Slots, NEW k, proc' = [proc EXCEPT ![p] = k], clock' = clock, TickOK(k, clock)
      PROVE  ChosenInWindow'
    <2>1. \A q \in Slots : proc'[q] = IF q = p THEN k ELSE proc[q]
        BY <1>1, <1>2
    <2> QED BY <1>2, <2>1 DEF ChosenInWindow
<1>3. TickOK(Idle, clock)
    BY DEF TickOK, Idle, Ticking
<1>4. ASSUME NEW p \in Slots, Return(p), clock' = clock PROVE ChosenInWindow'
    BY <1>2, <1>3, <1>4 DEF Return
\* A handler that keeps its clock and does not arrive at the pairing.
<1>5. ASSUME NEW p \in Slots, NEW k, proc' = [proc EXCEPT ![p] = k], clock' = clock, k.pc # "pair",
             k.pc \in Ticking => proc[p].pc \in Ticking /\ k.now = proc[p].now
      PROVE  ChosenInWindow'
    <2>1. TickOK(k, clock)
        BY <1>5 DEF TickOK, ChosenInWindow
    <2> QED BY <1>2, <1>5, <2>1
<1>6. ASSUME NEW p \in Slots, NEW label \in Joining \cup Directing \cup {"list", "tryNext"},
             Goto(p, label), clock' = clock, label \in Ticking => proc[p].pc \in Ticking
      PROVE  ChosenInWindow'
    <2> DEFINE k == [proc[p] EXCEPT !.pc = label]
    <2>1. proc' = [proc EXCEPT ![p] = k]
        BY <1>1, <1>6 DEF Goto
    <2>2. k.pc = label /\ k.now = proc[p].now
        BY <1>1 DEF Handler
    <2>3. label # "pair"
        BY DEF Joining, Directing, Claiming
    <2> HIDE DEF k
    <2> QED BY <1>5, <1>6, <2>1, <2>2, <2>3
<1>7. ASSUME NEW p \in Slots, Starts(p) PROVE ChosenInWindow'
    <2>1. ASSUME NEW u, NEW pc \in {"getMatch", "zrem"}, NEW kind,
                 Begin(p, [Idle EXCEPT !.pc = pc, !.kind = kind, !.user = u]), clock' = clock
          PROVE  ChosenInWindow'
        <3> DEFINE k == [Idle EXCEPT !.pc = pc, !.kind = kind, !.user = u]
        <3>1. k.pc = pc /\ proc' = [proc EXCEPT ![p] = k]
            BY <2>1 DEF Begin, Idle
        <3>2. pc \notin Ticking /\ pc # "pair"
            BY DEF Ticking
        <3> HIDE DEF k
        <3> QED BY <1>5, <2>1, <3>1, <3>2
    <2>2. CASE \E u \in Users : JoinQueue(p, u) \/ LeaveQueue(p, u)
        BY <2>1, <2>2 DEF JoinQueue, LeaveQueue
    <2>3. CASE Tick(p)
        <3> DEFINE k == [Idle EXCEPT !.pc = "size", !.kind = "tick", !.now = clock]
        <3>1. k.pc = "size" /\ k.now = clock /\ proc' = [proc EXCEPT ![p] = k] /\ clock' = clock
            BY <2>3 DEF Tick, Begin, Idle
        <3> HIDE DEF k
        <3>2. TickOK(k, clock)
            BY <1>1, <3>1 DEF TickOK
        <3> QED BY <1>2, <3>1, <3>2
    <2>4. CASE \E t \in Tournament : StartDirected(p, t)
        <3>1. PICK t \in Tournament : StartDirected(p, t)
            BY <2>4
        <3> DEFINE k == [Idle EXCEPT !.pc = "lockPair", !.kind = "directed", !.t = t]
        <3>2. k.pc = "lockPair" /\ proc' = [proc EXCEPT ![p] = k] /\ clock' = clock
            BY <3>1 DEF StartDirected, Begin, Idle
        <3> HIDE DEF k
        <3> QED BY <1>5, <3>2 DEF Ticking
    <2> QED BY <1>7, <2>2, <2>3, <2>4 DEF Starts
<1>8. ASSUME NEW p \in Slots, QueueStep(p) \/ EnterQueue(p) PROVE ChosenInWindow'
    <2>1. CASE QueueStep(p)
        <3>1. Return(p) \/ \E label \in Joining : Goto(p, label)
            BY <2>1 DEF QueueStep, CheckMatch, CheckScore, CountJoin, ExpireRate, LockUser,
               RecheckScore, WriteMeta, UnlockUser, RemoveFromQueue, DeleteMeta, Joining
        <3>2. clock' = clock /\ \A label \in Joining : label \notin Ticking
            BY <2>1 DEF QueueStep, CheckMatch, CheckScore, CountJoin, ExpireRate, LockUser,
               RecheckScore, WriteMeta, UnlockUser, RemoveFromQueue, DeleteMeta, Joining, Ticking
        <3> QED BY <1>4, <1>6, <3>1, <3>2
    <2>2. CASE EnterQueue(p)
        <3> DEFINE k == [proc[p] EXCEPT !.pc = "hset", !.now = clock]
        <3>1. k.pc = "hset" /\ proc' = [proc EXCEPT ![p] = k] /\ clock' = clock
            BY <1>1, <2>2 DEF EnterQueue, Handler
        <3> HIDE DEF k
        <3> QED BY <1>5, <3>1 DEF Ticking
    <2> QED BY <1>8, <2>1, <2>2
<1>9. ASSUME NEW p \in Slots, QueueSize(p) \/ ListMembers(p) \/ ReadMeta(p) \/ StartMatch(p)
      PROVE  ChosenInWindow'
    <2>1. proc[p].pc \in Ticking /\ clock' = clock
        BY <1>9 DEF QueueSize, ListMembers, ReadMeta, StartMatch, At, Ticking
    <2>2. CASE QueueSize(p)
        BY <1>4, <1>6, <2>1, <2>2 DEF QueueSize
    <2>3. ASSUME NEW k, proc' = [proc EXCEPT ![p] = k], k.pc \in {"tryNext", "hgetall"},
                 k.now = proc[p].now
          PROVE  ChosenInWindow'
        BY <1>5, <2>1, <2>3
    <2>4. CASE ListMembers(p)
        <3> DEFINE pc == IF queue = {} THEN "tryNext" ELSE "hgetall"
                   k  == [proc[p] EXCEPT !.todo = queue, !.pc = pc]
        <3>1. proc' = [proc EXCEPT ![p] = k]
            BY <1>1, <2>4 DEF ListMembers
        <3>2. pc \in {"tryNext", "hgetall"}
            OBVIOUS
        <3>3. k.pc = pc /\ k.now = proc[p].now
            BY <1>1 DEF Handler
        <3> HIDE DEF k, pc
        <3> QED BY <2>3, <3>1, <3>2, <3>3
    <2>5. CASE ReadMeta(p)
        <3>1. PICK u \in proc[p].todo :
                LET left == proc[p].todo \ {u}
                    found == IF meta[u] = NotQueued THEN proc[p].listed
                             ELSE [v \in DOMAIN proc[p].listed \cup {u} |->
                                      IF v = u THEN meta[u] ELSE proc[p].listed[v]]
                IN proc' = [proc EXCEPT ![p] =
                      [proc[p] EXCEPT !.listed = found,
                                      !.pc = IF left = {} THEN "tryNext" ELSE "hgetall",
                                      !.todo = IF left = {} THEN DOMAIN found ELSE left]]
            BY <2>5 DEF ReadMeta
        <3> DEFINE left  == proc[p].todo \ {u}
                   found == IF meta[u] = NotQueued THEN proc[p].listed
                            ELSE [v \in DOMAIN proc[p].listed \cup {u} |->
                                     IF v = u THEN meta[u] ELSE proc[p].listed[v]]
                   pc    == IF left = {} THEN "tryNext" ELSE "hgetall"
                   todo  == IF left = {} THEN DOMAIN found ELSE left
                   k     == [proc[p] EXCEPT !.listed = found, !.pc = pc, !.todo = todo]
        <3>2. proc' = [proc EXCEPT ![p] = k]
            BY <3>1
        <3>3. pc \in {"tryNext", "hgetall"}
            OBVIOUS
        <3> HIDE DEF found, todo, pc
        <3>4. k.pc = pc /\ k.now = proc[p].now
            BY <1>1 DEF Handler
        <3> HIDE DEF k
        <3> QED BY <2>3, <3>2, <3>3, <3>4
    <2>6. CASE StartMatch(p)
        <3>1. \E listed, todo :
                 proc' = [proc EXCEPT ![p] =
                    [proc[p] EXCEPT !.pc = "tryNext", !.user = NoUser, !.other = NoUser, !.id = 0,
                                    !.listed = listed, !.todo = todo]]
            BY <2>6 DEF StartMatch
        <3>2. PICK listed, todo :
                 proc' = [proc EXCEPT ![p] =
                    [proc[p] EXCEPT !.pc = "tryNext", !.user = NoUser, !.other = NoUser, !.id = 0,
                                    !.listed = listed, !.todo = todo]]
            BY <3>1
        <3> DEFINE k == [proc[p] EXCEPT !.pc = "tryNext", !.user = NoUser, !.other = NoUser, !.id = 0,
                                        !.listed = listed, !.todo = todo]
        <3>3. k.pc = "tryNext" /\ k.now = proc[p].now
            BY <1>1 DEF Handler
        <3>4. proc' = [proc EXCEPT ![p] = k]
            BY <3>2
        <3> HIDE DEF k
        <3> QED BY <2>3, <3>3, <3>4
    <2> QED BY <1>9, <2>2, <2>4, <2>5, <2>6
<1>10. ASSUME NEW p \in Slots, TryNext(p) PROVE ChosenInWindow'
    <2> DEFINE h == proc[p]
    <2>1. h \in Handler /\ h.pc = "tryNext" /\ h.pc \in Ticking /\ clock' = clock
        BY <1>1, <1>10 DEF TryNext, At, Ticking
    <2>2. ASSUME NEW u, proc' = [proc EXCEPT ![p].todo = @ \ {u}] PROVE ChosenInWindow'
        <3> DEFINE k == [h EXCEPT !.todo = h.todo \ {u}]
        <3>1. proc' = [proc EXCEPT ![p] = k] /\ k.pc = "tryNext" /\ k.now = h.now
            BY <1>1, <2>1, <2>2 DEF Handler
        <3> HIDE DEF k
        <3> QED BY <1>5, <2>1, <3>1
    <2>3. ASSUME NEW u \in h.todo, NEW v \in findOpponent(u, h),
                 proc' = [proc EXCEPT ![p].todo = @ \ {u}, ![p].pc = "pair",
                                      ![p].user = u, ![p].other = v]
          PROVE  ChosenInWindow'
        <3> DEFINE k == [h EXCEPT !.todo = h.todo \ {u}, !.pc = "pair", !.user = u, !.other = v]
        <3>1. proc' = [proc EXCEPT ![p] = k]
            BY <1>1, <2>3
        <3>2. /\ k.pc = "pair" /\ k.now = h.now /\ k.user = u /\ k.other = v
              /\ k.listed = h.listed /\ u \in Users
            BY <2>1 DEF Handler
        <3> HIDE DEF k
        <3>3. k.other \in Matching(k.user, k)
            BY <3>2 DEF findOpponent, Eldest, Matching
        <3>4. k.now <= clock
            BY <2>1, <3>2 DEF ChosenInWindow, TickOK
        <3>5. TickOK(k, clock)
            BY <3>2, <3>3, <3>4 DEF TickOK
        <3> QED BY <1>2, <2>1, <3>1, <3>5
    <2> QED BY <1>4, <1>10, <2>1, <2>2, <2>3 DEF TryNext, Eldest
<1>11. ASSUME NEW p \in Slots, PairPlayers(p) PROVE ChosenInWindow'
    <2> DEFINE k == [proc[p] EXCEPT !.pc = "start", !.id = Len(matches) + 1]
    <2>1. /\ proc[p].pc \in Ticking /\ clock' = clock
          /\ Goto(p, "tryNext") \/ proc' = [proc EXCEPT ![p] = k]
        BY <1>1, <1>11 DEF PairPlayers, At, Ticking
    <2>2. k.pc = "start" /\ k.now = proc[p].now
        BY <1>1 DEF Handler
    <2> HIDE DEF k
    <2> QED BY <1>5, <1>6, <2>1, <2>2
<1>12. ASSUME NEW p \in Slots,
              \/ LockPair(p) \/ ClaimPlayers(p) \/ GetExisting(p) \/ GetMappings(p) \/ SaveState(p)
              \/ MapPlayers(p) \/ Announce(p) \/ ReleaseClaims(p) \/ HandlerDies(p)
              \/ CommandFails(p)
       PROVE  ChosenInWindow'
    <2>1. clock' = clock
        BY <1>12 DEF LockPair, ClaimPlayers, GetExisting, GetMappings, SaveState, MapPlayers, Announce,
           ReleaseClaims, HandlerDies, CommandFails
    <2>2. ASSUME NEW id, NEW pc \in {"save", "getMappings"},
                 proc' = [proc EXCEPT ![p].pc = pc, ![p].id = id]
          PROVE  ChosenInWindow'
        <3> DEFINE k == [proc[p] EXCEPT !.pc = pc, !.id = id]
        <3>1. proc' = [proc EXCEPT ![p] = k] /\ k.pc = pc /\ pc \notin Ticking
            BY <1>1, <2>2 DEF Handler, Ticking
        <3> HIDE DEF k
        <3> QED BY <1>5, <2>1, <2>2, <3>1
    <2>3. \A label \in Joining \cup Directing : label \notin Ticking
        BY DEF Joining, Directing, Claiming, Ticking
    <2>4. ASSUME NEW label \in Joining \cup Directing, Goto(p, label) PROVE ChosenInWindow'
        BY <1>6, <2>1, <2>3, <2>4
    <2>5. /\ {"claim", "getExisting", "map", "announce", "unclaim"} \subseteq Directing
          /\ "unlock" \in Joining
        BY DEF Joining, Directing, Claiming
    <2>6. CASE LockPair(p)
        BY <1>4, <2>1, <2>4, <2>5, <2>6 DEF LockPair
    <2>7. CASE ClaimPlayers(p)
        <3>1. \/ proc' = [proc EXCEPT ![p].pc = "save", ![p].id = Len(matches) + 1]
              \/ Goto(p, "getExisting") \/ Return(p)
            BY <2>7 DEF ClaimPlayers
        <3> QED BY <1>4, <2>1, <2>2, <2>4, <2>5, <3>1
    <2>8. CASE GetExisting(p)
        <3>1. \/ proc' = [proc EXCEPT ![p].pc = "getMappings", ![p].id = tmatch[proc[p].t]]
              \/ Return(p)
            BY <2>8 DEF GetExisting
        <3> QED BY <1>4, <2>1, <2>2, <3>1
    <2>9. CASE GetMappings(p) \/ Announce(p) \/ ReleaseClaims(p) \/ HandlerDies(p)
        BY <1>4, <2>1, <2>9 DEF GetMappings, Announce, ReleaseClaims, HandlerDies
    <2>10. CASE SaveState(p) \/ MapPlayers(p) \/ CommandFails(p)
        <3>1. Goto(p, "map") \/ Goto(p, "announce") \/ Goto(p, "unclaim") \/ Goto(p, "unlock")
            BY <2>10 DEF SaveState, MapPlayers, CommandFails
        <3> QED BY <2>4, <2>5, <3>1
    <2> QED BY <1>12, <2>6, <2>7, <2>8, <2>9, <2>10
<1>13. CASE (\E id \in DOMAIN matches : EndMatch(id)) \/ EarlyExpiry \/ UNCHANGED vars
    <2>1. UNCHANGED <<proc, clock>>
        BY <1>13 DEF EndMatch, EarlyExpiry, vars
    <2> QED BY <2>1 DEF ChosenInWindow
<1>14. CASE Advance
    <2>1. proc' = proc /\ clock' \in Nat /\ clock' > clock
        BY <1>14, MatchmakingBounds DEF Advance
    <2> QED BY <1>1, <2>1 DEF ChosenInWindow, TickOK
<1>15. ASSUME NEW p \in Slots, Step(p) PROVE ChosenInWindow'
    BY <1>8, <1>9, <1>10, <1>11, <1>12, <1>15 DEF Step, QueueStep
<1> QED BY <1>7, <1>12, <1>13, <1>14, <1>15 DEF Next, Starts

\* Whenever the worker commits a pair, one of the two has waited long enough for the
\* difference of their ratings, by the list it chose them from, however old that is.
THEOREM PairsAreFair == Spec => FairPairing
<1>1. Init => ChosenInWindow
    BY DEF Init, ChosenInWindow, TickOK, Idle, Ticking
<1>2. TypeInv /\ ChosenInWindow => \A p \in Slots :
         LET h == proc[p]
             since == {meta[h.user], meta[h.other]}
         IN At(p, "pair") /\ proc'[p].pc = "start"
            /\ meta[h.user] = h.listed[h.user] /\ meta[h.other] = h.listed[h.other]
            => \E s \in since : WithinWindow(h.user, h.other, clock - s)
    <2> SUFFICES ASSUME TypeInv, ChosenInWindow, NEW p \in Slots, proc[p].pc = "pair",
                        meta[proc[p].user] = proc[p].listed[proc[p].user],
                        meta[proc[p].other] = proc[p].listed[proc[p].other]
                 PROVE  \E s \in {meta[proc[p].user], meta[proc[p].other]} :
                            WithinWindow(proc[p].user, proc[p].other, clock - s)
        BY DEF At
    <2> DEFINE h == proc[p]
               g == Gap(h.user, h.other)
               a == meta[h.user]
               b == meta[h.other]
    <2>1. /\ h \in Handler /\ h.now \in Nat /\ clock \in Nat /\ h.now <= clock
          /\ h.user \in Users /\ h.other \in Matching(h.user, h)
        BY DEF ChosenInWindow, TickOK, TypeInv, Handler, Ticking
    <2>2. h.other \in DOMAIN h.listed /\ h.other \in Users
        <3>1. PICK D \in SUBSET Users : h.listed \in [D -> Int]
            BY <2>1 DEF Handler
        <3> QED BY <2>1, <3>1 DEF Matching
    <2>3. a \in Int /\ b \in Int /\ g \in Nat
        BY <2>1, <2>2, RatingAssumption DEF TypeInv, Gap
    <2>4. g <= getEloWindow(h.now - a) \/ g <= getEloWindow(h.now - b)
        BY <2>1 DEF Matching, ratingsMatch
    <2>5. ASSUME NEW s \in Int, g <= getEloWindow(h.now - s)
          PROVE  WithinWindow(h.user, h.other, clock - s)
        <3> DEFINE e == h.now - s
                   w == clock - s
        <3>1. e \in Int /\ w \in Int /\ e <= w
            BY <2>1
        <3> HIDE DEF e, w, g
        <3>2. g <= 50 \/ (w >= 1 /\ g <= 100) \/ (w >= 3 /\ g <= 200) \/ w >= 6
            <4>1. CASE e < 1
                BY <2>5, <3>1, <4>1 DEF getEloWindow, e
            <4>2. CASE e >= 1 /\ e < 3
                BY <2>3, <2>5, <3>1, <4>2 DEF getEloWindow, e
            <4>3. CASE e >= 3 /\ e < 6
                BY <2>3, <2>5, <3>1, <4>3 DEF getEloWindow, e
            <4>4. CASE e >= 6
                BY <3>1, <4>4
            <4> QED BY <3>1, <4>1, <4>2, <4>3, <4>4
        <3> QED BY <3>2 DEF WithinWindow, g, w
    <2> HIDE DEF a, b
    <2>6. \E s \in {a, b} : WithinWindow(h.user, h.other, clock - s)
        BY <2>3, <2>4, <2>5
    <2> QED BY <2>6 DEF a, b
<1> QED BY <1>1, <1>2, InitBook, NextBook, ChosenInvariant, PTL DEF Spec, FairPairing
=============================================================================
