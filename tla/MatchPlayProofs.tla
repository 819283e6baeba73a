--------------------------- MODULE MatchPlayProofs ---------------------------
(***************************************************************************)
(* The running match for any number of handlers, sockets, rounds, failing  *)
(* commands and crashes.                                                   *)
(***************************************************************************)
EXTENDS MatchPlay, TLAPS

(* The rules: what the mutators do to a state that may be stored. *)

\* A state that may be stored: never half way through a resolution, and nobody has
\* the wins that end the match while it is open.
Sound(s) ==
    /\ s \in MatchState
    /\ s.status # "RESOLVING"
    /\ s.status = "WAITING_PLAYS" => \A side \in Side : s.score[side] < WINS_TO_END

LEMMA SideFacts ==
    /\ \A side \in Side : Opponent(side) \in Side /\ Opponent(side) # side
    /\ \A side \in Side : players[side] \in Players
    /\ players["A"] # players["B"]
    /\ NoUser \notin Players
    /\ \A u : playerIndex(u) # "none" => playerIndex(u) \in Side
BY PlayersAssumption, NoUserAssumption
   DEF Side, Opponent, players, Players, Users, playerIndex

\* The game always has an outcome.
LEMMA RpsOutcome ==
    ASSUME NEW a, NEW b
    PROVE  resolveRps(a, b) \in Side \cup {"DRAW"}
BY DEF resolveRps, Side

\* A match starts in a sound state that has not ended.
LEMMA InitialSound == Sound(buildInitialState) /\ buildInitialState.status # "ENDED"
BY RoundsAssumption DEF Sound, buildInitialState, MatchState, emptyRoundPlays

\* What ends a match adds nothing to its score.
LEMMA EndSound ==
    ASSUME NEW s \in MatchState, NEW w \in Players \cup {NoUser}, NEW reason \in EndReason
    PROVE  Sound(endMatch(s, w, reason)) /\ endMatch(s, w, reason).status = "ENDED"
BY DEF Sound, endMatch, MatchState

\* resolveRound takes a state whose open score it may raise by one.
LEMMA ResolveSound ==
    ASSUME NEW s \in MatchState, NEW w \in Side \cup {"DRAW"},
           \A side \in Side : s.score[side] < WINS_TO_END
    PROVE  Sound(resolveRound(s, w))
<1> DEFINE sc == scoreAfter(s, w)
           t  == [s EXCEPT !.score = sc]
<1>1. s.score \in [Side -> 0..WINS_TO_END] /\ s.currentRound \in 1..MAX_ROUNDS
    BY DEF MatchState
<1>2. /\ sc \in [Side -> 0..WINS_TO_END]
      /\ ~decided(sc) => \A side \in Side : sc[side] < WINS_TO_END
    BY <1>1, RoundsAssumption DEF scoreAfter, decided, Side
<1>3. t \in MatchState /\ t.score = sc /\ t.currentRound = s.currentRound
    BY <1>2 DEF MatchState
<1> HIDE DEF sc
<1>4. CASE decided(sc)
    <2>1. bestOf3Winner(sc) \in Players
        BY SideFacts DEF bestOf3Winner, Side
    <2>2. resolveRound(s, w) = endMatch(t, bestOf3Winner(sc), "BEST_OF_3")
        BY <1>3, <1>4 DEF resolveRound, sc
    <2> QED BY <1>3, <2>1, <2>2, EndSound DEF EndReason
<1>5. CASE ~decided(sc) /\ atRoundLimit(s)
    <2>1. resolveRound(s, w) = endMatch(t, NoUser, "MAX_ROUNDS_DRAW")
        BY <1>3, <1>5 DEF resolveRound, sc
    <2> QED BY <1>3, <2>1, EndSound DEF EndReason
<1>6. CASE ~decided(sc) /\ ~atRoundLimit(s)
    <2>1. resolveRound(s, w) =
            [t EXCEPT !.status = "WAITING_PLAYS", !.currentRound = s.currentRound + 1,
                      !.roundPlays = emptyRoundPlays]
        BY <1>3, <1>6 DEF resolveRound, sc, MatchState
    <2>2. s.currentRound + 1 \in 1..MAX_ROUNDS
        BY <1>1, <1>6, RoundsAssumption DEF atRoundLimit
    <2>3. emptyRoundPlays \in [Side -> Move \cup {NoMove}]
        BY DEF emptyRoundPlays
    <2> DEFINE v == resolveRound(s, w)
    <2>4. /\ v \in MatchState /\ v.status = "WAITING_PLAYS" /\ v.score = sc
        BY <1>2, <1>3, <2>1, <2>2, <2>3 DEF MatchState
    <2> QED BY <1>2, <1>6, <2>4 DEF Sound
<1> QED BY <1>4, <1>5, <1>6

\* The record of a round is a ResolvedRound.
LEMMA AppendRoundType ==
    ASSUME NEW s \in MatchState, NEW plays \in [Side -> Move \cup {NoMove}],
           NEW w \in Side \cup {"DRAW"}
    PROVE  /\ appendRound(s, plays, w) \in MatchState
           /\ appendRound(s, plays, w).score = s.score
           /\ appendRound(s, plays, w).status = s.status
<1> DEFINE r == [roundNumber |-> s.currentRound, moves |-> plays, winner |-> w]
<1>1. r \in ResolvedRound /\ s.rounds \in Seq(ResolvedRound)
    BY DEF ResolvedRound, MatchState
<1>2. Append(s.rounds, r) \in Seq(ResolvedRound)
    BY <1>1
<1>3. appendRound(s, plays, w) = [s EXCEPT !.rounds = Append(s.rounds, r)]
    BY DEF appendRound
<1> HIDE DEF r
<1> QED BY <1>2, <1>3 DEF MatchState

\* An accepted play leaves a sound state behind.
LEMMA PlaySound ==
    ASSUME NEW s, Sound(s), NEW u \in Users, NEW round, NEW move \in Move,
           ~playRejected(s, u, round)
    PROVE  Sound(afterPlay(s, u, move))
<1> DEFINE plays == [s.roundPlays EXCEPT ![playerIndex(u)] = move]
           w     == resolveRps(plays["A"], plays["B"])
           t     == [s EXCEPT !.roundPlays = plays, !.status = "RESOLVING"]
<1>1. /\ s \in MatchState /\ s.status = "WAITING_PLAYS"
      /\ \A side \in Side : s.score[side] < WINS_TO_END
    BY DEF Sound, playRejected
<1>2. plays \in [Side -> Move \cup {NoMove}]
    BY <1>1, SideFacts DEF MatchState, playRejected
<1>3. w \in Side \cup {"DRAW"}
    BY RpsOutcome
<1> HIDE DEF plays, w
<1>4. CASE completesRound(s, u)
    <2>1. t \in MatchState /\ t.score = s.score
        BY <1>1, <1>2 DEF MatchState
    <2>2. afterPlay(s, u, move) = resolveRound(appendRound(t, plays, w), w)
        BY <1>4 DEF afterPlay, plays, w
    <2> HIDE DEF t
    <2> QED BY <1>1, <1>2, <1>3, <2>1, <2>2, AppendRoundType, ResolveSound
<1>5. CASE ~completesRound(s, u)
    <2>1. afterPlay(s, u, move) = [s EXCEPT !.roundPlays = plays]
        BY <1>5 DEF afterPlay, plays
    <2> QED BY <1>1, <1>2, <2>1 DEF Sound, MatchState
<1> QED BY <1>4, <1>5

\* A timeout leaves a sound state behind, and the match has ended if it applied.
LEMMA TimeoutSound ==
    ASSUME NEW s, Sound(s), NEW round
    PROVE  /\ Sound(afterTimeout(s, round))
           /\ timeoutApplies(s, round) => afterTimeout(s, round).status = "ENDED"
<1> DEFINE silent == resolveSilentPlayer(s.roundPlays)
           w      == IF silent = "BOTH" THEN NoUser ELSE players[Opponent(silent)]
<1>1. silent \in Side \cup {"BOTH"} /\ "BOTH" \notin Side
    BY DEF resolveSilentPlayer, Side
<1>2. w \in Players \cup {NoUser}
    BY <1>1, SideFacts
<1>3. s \in MatchState /\ s.roundPlays \in [Side -> Move \cup {NoMove}]
    BY DEF Sound, MatchState
<1>4. silent # "BOTH" => appendRound(s, s.roundPlays, Opponent(silent)) \in MatchState
    BY <1>1, <1>3, AppendRoundType, SideFacts
<1>5. timeoutApplies(s, round) =>
        afterTimeout(s, round) =
          endMatch(IF silent = "BOTH" THEN s ELSE appendRound(s, s.roundPlays, Opponent(silent)),
                   w, "FORFEIT_TIMEOUT")
    BY DEF afterTimeout, timeoutMatch
<1> HIDE DEF silent, w
<1>6. CASE timeoutApplies(s, round)
    BY <1>2, <1>3, <1>4, <1>5, <1>6, EndSound DEF EndReason
<1>7. CASE ~timeoutApplies(s, round)
    BY <1>7 DEF afterTimeout
<1> QED BY <1>6, <1>7

\* A forfeit leaves a sound state behind, and the match has ended if it applied.
LEMMA ForfeitSound ==
    ASSUME NEW s, Sound(s), NEW u
    PROVE  /\ Sound(afterForfeit(s, u))
           /\ forfeitApplies(s, u) => afterForfeit(s, u).status = "ENDED"
<1>1. CASE forfeitApplies(s, u)
    <2>1. players[Opponent(playerIndex(u))] \in Players
        BY <1>1, SideFacts DEF forfeitApplies
    <2> QED BY <1>1, <2>1, EndSound DEF afterForfeit, EndReason, Sound
<1>2. CASE ~forfeitApplies(s, u)
    BY <1>2 DEF afterForfeit
<1> QED BY <1>1, <1>2

\* A state that another whole mutation may replace s by; one that changes nothing is
\* saved too.
Mutation(s, t) ==
    \/ t = s
    \/ \E u \in Users, round \in 1..MAX_ROUNDS, move \in Move :
          ~playRejected(s, u, round) /\ t = afterPlay(s, u, move)
    \/ \E round \in 1..MAX_ROUNDS : timeoutApplies(s, round) /\ t = afterTimeout(s, round)
    \/ \E u \in Users : forfeitApplies(s, u) /\ t = afterForfeit(s, u)

\* No mutation changes a match that has ended.
LEMMA EndedIsFinal ==
    ASSUME NEW s, s.status = "ENDED", NEW t, Mutation(s, t)
    PROVE  t = s
BY DEF Mutation, playRejected, timeoutApplies, forfeitApplies

\* Mutations keep states sound.
LEMMA MutationSound ==
    ASSUME NEW s, Sound(s), NEW t, Mutation(s, t)
    PROVE  Sound(t)
BY PlaySound, TimeoutSound, ForfeitSound DEF Mutation

-----------------------------------------------------------------------------

(* What is true of a handler by itself, whatever the others do. *)

Disconnecting == {"inMatch", "leave", "matchId", "unregister"}
MatchKinds == {"play", "timeout", "forfeit"}

\* What holds of a handler h wherever it is ...
Fields(h) ==
    /\ h \in Handler
    /\ Sound(h.state)
    /\ h.kind \in {"connect", "disconnect"} => h.user \in Players
    /\ h.state.status = "ENDED" => h.kind \in MatchKinds

\* ... and when it is at pc: who it acts for and for which round, and whether it
\* knows that the match has ended.
Located(h, pc) ==
    /\ pc \in {"fremove", "fdel", "fadd", "fset"} => h.user \in Players
    /\ pc \in {"acquire", "load"} =>
          /\ h.kind = "play" => h.user \in Users /\ h.move \in Move /\ h.round \in 1..MAX_ROUNDS
          /\ h.kind = "timeout" => h.round \in 1..MAX_ROUNDS
          /\ h.kind = "forfeit" => h.user \in Users
    /\ pc = "check" => h.kind = "forfeit" /\ h.user \in Users
    /\ pc = "register" => h.sid # 0
    /\ pc \in Disconnecting => h.kind = "disconnect"
    /\ pc \in {"register", "lookup", "resume"} => h.kind = "connect"
    /\ pc \in {"save", "release"} /\ h.followUp /\ h.kind # "play" => h.state.status = "ENDED"
    /\ pc \in {"claim", "unguard", "bcast", "cleanup", "publish"} => h.state.status = "ENDED"
    /\ pc \in {"fget", "fremove", "fdel"} =>
          h.state.status = "ENDED" \/ h.kind \in {"connect", "disconnect"}
    /\ pc \in {"tadd", "tset"} => h.state.status # "ENDED"

LocalOK(h) == Fields(h) /\ Located(h, h.pc)

TypeInv ==
    /\ TypeOK
    /\ Sound(match)
    /\ \A p \in Procs : LocalOK(proc[p])

(* What the handlers owe each other. *)

\* mutateState is mutually exclusive.
Exclusive == \A p \in Procs : proc[p].pc \in Critical => lock = p

\* What is about to be saved is a mutation of what is stored.
SavesMutation == \A p \in Procs : At(p, "save") => Mutation(match, proc[p].state)

\* A handler that has saved or seen the final state has the stored one.
KnowsFinalState ==
    \A p \in Procs : ~At(p, "save") /\ Finalizing(p) => proc[p].state = match

\* The players have been told before they are freed.
ToldFirst == \A p \in Procs : At(p, "cleanup") => proc[p].state \in told

\* A closing socket was opened and is no longer open.
ClosedSockets ==
    /\ \A u \in Players : live[u] \subseteq 1..opened[u]
    /\ \A p \in Procs : proc[p].pc \in Disconnecting =>
          proc[p].sid \notin live[proc[p].user] /\ proc[p].sid <= opened[proc[p].user]

-----------------------------------------------------------------------------
(* Types. *)

\* TypeOK without the handlers.
SharedTypeOK ==
    /\ lock \in Procs \cup {NoProc}
    /\ finalized \in BOOLEAN
    /\ byUser \in [Players -> BOOLEAN]
    /\ sock \in [Players -> Nat]
    /\ tkey \in Nat /\ tnext \in Nat /\ fkey \in [Players -> Nat] /\ fnext \in Nat
    /\ tjobs \subseteq TimeoutJob
    /\ fjobs \subseteq ForfeitJob
    /\ published \subseteq MatchState /\ told \subseteq MatchState
    /\ opened \in [Players -> Nat]
    /\ live \in [Players -> SUBSET Nat]
    /\ faults \in Nat /\ crashes \in Nat /\ scenario \in Scenarios
    /\ timerLost \in BOOLEAN

\* The handler in slot p has become k, the others are as they were.
Becomes(p, k) == proc' = [proc EXCEPT ![p] = k]

\* It is enough to look at the handler that moves and at the shared state.
LEMMA TypeInvBySlot ==
    ASSUME TypeInv, NEW p \in Procs, NEW k, LocalOK(k), Becomes(p, k), SharedTypeOK', Sound(match)'
    PROVE  TypeInv'
<1>1. proc \in [Procs -> Handler] /\ k \in Handler
    BY DEF TypeInv, TypeOK, LocalOK, Fields
<1>2. proc' \in [Procs -> Handler] /\ \A q \in Procs : proc'[q] = IF q = p THEN k ELSE proc[q]
    BY <1>1 DEF Becomes
<1>3. \A q \in Procs : LocalOK(proc'[q])
    BY <1>2 DEF TypeInv
<1>4. match' \in MatchState
    BY DEF Sound
<1> QED BY <1>2, <1>3, <1>4 DEF TypeInv, TypeOK, SharedTypeOK

LEMMA IdleOK == LocalOK(Idle)
<1>1. Idle \in Handler
    BY InitialSound, RoundsAssumption DEF Idle, Handler, Labels, Kinds, Sound
<1> QED BY <1>1, InitialSound DEF LocalOK, Fields, Located, Idle, Disconnecting

\* A handler that returns or throws leaves well-formed jobs behind.
LEMMA LeavingSlot ==
    ASSUME TypeInv, NEW p \in Procs, Return(p) \/ Throw(p)
    PROVE  Becomes(p, Idle) /\ tjobs' \subseteq TimeoutJob /\ fjobs' \subseteq ForfeitJob
<1>1. tjobs \subseteq TimeoutJob /\ fjobs \subseteq ForfeitJob
    BY DEF TypeInv, TypeOK
<1>2. OtherTimeoutJobs(p) \subseteq tjobs /\ OtherForfeitJobs(p) \subseteq fjobs
      /\ OwnForfeitJobs(p) \subseteq fjobs
    BY DEF OtherTimeoutJobs, OtherForfeitJobs, OwnForfeitJobs
<1>3. \A j \in ForfeitJob : [j EXCEPT !.active = FALSE, !.tries = @ + 1] \in ForfeitJob
    <2>1. \A j \in ForfeitJob, n \in Nat :
            [j EXCEPT !.active = FALSE, !.tries = n] \in ForfeitJob
        BY Zenon DEF ForfeitJob
    <2>2. \A j \in ForfeitJob : j.tries + 1 \in Nat
        BY DEF ForfeitJob
    <2> QED BY <2>1, <2>2
<1> QED BY <1>1, <1>2, <1>3 DEF Return, Throw, Becomes

(* Every move of a handler keeps what LocalOK says of it. *)

\* The control flow of a handler h: from where it is it may go to label.  The last
\* two lines are those of a failed command.
Edge(h, label) ==
    LET ended == h.state.status = "ENDED" IN
    \/ h.pc = "check" /\ label = "acquire"
    \/ h.pc = "acquire" /\ label \in {"acquire", "load"}
    \/ h.pc = "save" /\ label = "release"
    \/ h.pc = "release" /\ h.followUp /\ label = (IF h.kind = "play" THEN "notify" ELSE "claim")
    \/ h.pc = "notify" /\ label = (IF ended THEN "claim" ELSE "tget")
    \/ h.pc = "tget" /\ label = "tremove"
    \/ h.pc = "tremove" /\ label = "tdel"
    \/ h.pc \in {"tget", "tdel"} /\ label = (IF ended THEN "fget" ELSE "tadd")
    \/ h.pc = "tadd" /\ label = "tset"
    \/ h.pc = "tset" /\ label = "start"
    \/ h.pc = "claim" /\ label = "tget"
    \/ h.pc = "fget" /\ label = "fremove"
    \/ h.pc = "fremove" /\ label = "fdel"
    \/ h.pc \in {"fget", "fdel"} /\ h.kind = "connect" /\ label = "resumed"
    \/ h.pc \in {"fget", "fdel"} /\ h.kind = "disconnect" /\ label = "fadd"
    \/ h.pc \in {"fget", "fdel"} /\ h.kind \notin {"connect", "disconnect"}
         /\ label \in {"fget", "bcast"}
    \/ h.pc = "fadd" /\ label = "fset"
    \/ h.pc = "bcast" /\ label = "cleanup"
    \/ h.pc = "cleanup" /\ label = "publish"
    \/ h.pc = "register" /\ label = "lookup"
    \/ h.pc = "lookup" /\ label = "resume"
    \/ h.pc \in {"resume", "unregister"} /\ label = "fget"
    \/ h.pc = "inMatch" /\ label \in {"matchId", "leave"}
    \/ h.pc = "matchId" /\ label = "unregister"
    \/ h.pc \in {"tget", "tremove", "tdel", "tadd", "tset"}
         /\ label = (IF ended THEN "fget" ELSE "start")
    \/ h.pc \in Finalization /\ ended /\ label = "unguard"

\* The handler h has moved along the control flow and is now k.
Follows(h, k) ==
    /\ Edge(h, k.pc)
    /\ k.kind = h.kind /\ k.state = h.state
    /\ k.pc \in Disconnecting => k.user = h.user /\ k.sid = h.sid

LEMMA EdgeLocated ==
    ASSUME NEW h, LocalOK(h), NEW label, Edge(h, label),
           label \in {"fremove", "fadd"} => h.user \in Players
    PROVE  label \in Labels /\ Located(h, label)
BY DEF LocalOK, Fields, Located, Disconnecting, MatchKinds, Edge, Labels, Critical, Finalization

\* goto, with the locals of cancelTimeout, cancelForfeit and the retry loop.
LEMMA GotoOK ==
    ASSUME NEW h, LocalOK(h), NEW label, Edge(h, label), NEW n \in Nat,
           label = "fremove" => h.user \in Players, 
           NEW todo \in SUBSET Players,
           NEW k, \/ k = [h EXCEPT !.pc = label]
                  \/ k = [h EXCEPT !.pc = label, !.key = n]
                  \/ k = [h EXCEPT !.pc = label, !.todo = todo]
                  \/ k = [h EXCEPT !.tries = n] /\ h.pc = label
    PROVE  LocalOK(k) /\ Follows(h, k)
<1>1. h \in Handler
    BY DEF LocalOK, Fields
<1>2. h.user \notin Players => label # "fadd"
    BY DEF LocalOK, Fields, Located, Edge
<1>3. label \in Labels /\ Located(h, label)
    BY <1>2, EdgeLocated
<1>4. /\ k \in Handler /\ k.pc = label
      /\ k.kind = h.kind /\ k.user = h.user /\ k.round = h.round /\ k.move = h.move
      /\ k.state = h.state /\ k.followUp = h.followUp /\ k.sid = h.sid
    BY <1>1, <1>3 DEF Handler
<1> QED BY <1>3, <1>4 DEF LocalOK, Fields, Located, Follows

\* cancelForfeit for one of the users it has left.
LEMMA CancelOK ==
    ASSUME NEW h, LocalOK(h), NEW u \in Players, NEW left \in SUBSET Players, NEW n \in Nat,
           NEW label, h.pc = "fget", Edge(h, label), label # "unguard"
    PROVE  LET k == [h EXCEPT !.user = u, !.todo = left, !.key = n, !.pc = label]
           IN  LocalOK(k) /\ Follows(h, k)
<1> DEFINE k == [h EXCEPT !.user = u, !.todo = left, !.key = n, !.pc = label]
<1>1. /\ h \in Handler /\ label \in Labels
      /\ label \in {"fremove", "resumed", "fadd", "fget", "bcast"}
    BY DEF LocalOK, Fields, Edge, Labels, Finalization
<1>2. /\ k \in Handler /\ k.user = u /\ k.pc = label
      /\ k.kind = h.kind /\ k.state = h.state
    BY <1>1, PlayersAssumption DEF Handler, Users
<1> HIDE DEF k
<1>3. Fields(k)
    BY <1>2 DEF LocalOK, Fields
<1>4. Located(k, label)
    BY <1>1, <1>2 DEF LocalOK, Fields, Located, Edge, Disconnecting
<1>5. LocalOK(k) /\ Follows(h, k)
    BY <1>1, <1>2, <1>3, <1>4 DEF LocalOK, Follows, Disconnecting
<1> QED BY <1>5 DEF k

\* loadState and the mutator: what is about to be saved is a mutation of the stored state.
Loads(p) ==
    /\ Becomes(p, proc'[p])
    /\ LocalOK(proc'[p])
    /\ \/ proc'[p].pc = "abort" /\ proc'[p].state.status # "ENDED"
       \/ proc'[p].pc = "save" /\ Mutation(match, proc'[p].state)

LEMMA LoadLocal ==
    ASSUME TypeInv, NEW p \in Procs, LoadState(p)
    PROVE  Loads(p)
<1> DEFINE h == proc[p]
<1>1. /\ LocalOK(h) /\ proc \in [Procs -> Handler] /\ h \in Handler
      /\ h.pc = "load" /\ Sound(match)
    BY DEF TypeInv, TypeOK, LoadState, At
<1>2. ASSUME NEW k, proc' = [proc EXCEPT ![p] = k], LocalOK(k),
             \/ k.pc = "abort" /\ k.state.status # "ENDED"
             \/ k.pc = "save" /\ Mutation(match, k.state)
      PROVE  Loads(p)
    BY <1>1, <1>2 DEF Becomes, Loads
<1>3. ASSUME NEW state, Sound(state), NEW followUp \in BOOLEAN, h.kind \in MatchKinds,
             followUp /\ h.kind # "play" => state.status = "ENDED",
             Mutation(match, state), proc' = [proc EXCEPT ![p] = Mutated(h, state, followUp)]
      PROVE  Loads(p)
    <2> DEFINE k == Mutated(h, state, followUp)
    <2>1. /\ k \in Handler /\ k.pc = "save" /\ k.kind = h.kind /\ k.state = state
          /\ k.followUp = followUp
        <3>1. Idle \in Handler /\ h.kind \in Kinds /\ h.job \in Nat
            BY <1>1, IdleOK DEF LocalOK, Fields, Handler
        <3>2. state \in MatchState /\ "save" \in Labels
            BY <1>3 DEF Sound, Labels, Critical
        <3> QED BY <1>3, <3>1, <3>2 DEF Mutated, Handler
    <2> HIDE DEF k
    <2>2. LocalOK(k)
        BY <1>3, <2>1 DEF LocalOK, Fields, Located, MatchKinds, Disconnecting
    <2> QED BY <1>2, <1>3, <2>1, <2>2 DEF k
<1>4. CASE h.kind = "play" /\ playRejected(match, h.user, h.round)
    <2> DEFINE k == [Idle EXCEPT !.pc = "abort", !.kind = "play"]
    <2>1. k \in Handler
        BY IdleOK DEF LocalOK, Fields, Idle, Handler, Labels, Critical, Kinds
    <2>2. LocalOK(k)
        BY <2>1, InitialSound DEF LocalOK, Fields, Located, Idle, MatchKinds, Disconnecting
    <2>3. proc' = [proc EXCEPT ![p] = k]
        BY <1>4 DEF LoadState
    <2>4. k.pc = "abort" /\ k.state.status # "ENDED"
        BY InitialSound DEF Idle
    <2> HIDE DEF k
    <2> QED BY <1>2, <2>2, <2>3, <2>4
<1>5. CASE h.kind = "play" /\ ~playRejected(match, h.user, h.round)
    <2>1. Sound(afterPlay(match, h.user, h.move))
        BY <1>1, <1>5, PlaySound DEF LocalOK, Located
    <2>2. completesRound(match, h.user) \in BOOLEAN
        BY DEF completesRound
    <2>3. proc' = [proc EXCEPT ![p] = Mutated(h, afterPlay(match, h.user, h.move),
                                                 completesRound(match, h.user))]
        BY <1>5 DEF LoadState
    <2>4. Mutation(match, afterPlay(match, h.user, h.move))
        BY <1>1, <1>5 DEF LocalOK, Located, Mutation
    <2> QED BY <1>3, <1>5, <2>1, <2>2, <2>3, <2>4 DEF MatchKinds
<1>6. CASE h.kind = "timeout"
    <2> DEFINE state == afterTimeout(match, h.round)
    <2>1. Sound(state)
        BY <1>1, TimeoutSound
    <2>2. proc' = [proc EXCEPT ![p] = Mutated(h, state, state.status = "ENDED")]
        BY <1>6 DEF LoadState
    <2>3. Mutation(match, state)
        BY <1>1, <1>6 DEF LocalOK, Located, Mutation, afterTimeout
    <2> HIDE DEF state
    <2> QED BY <1>3, <1>6, <2>1, <2>2, <2>3 DEF MatchKinds
<1>7. CASE h.kind = "forfeit"
    <2>1. /\ Sound(afterForfeit(match, h.user))
          /\ forfeitApplies(match, h.user) => afterForfeit(match, h.user).status = "ENDED"
        BY <1>1, ForfeitSound
    <2>2. forfeitApplies(match, h.user) \in BOOLEAN
        BY DEF forfeitApplies
    <2>3. proc' = [proc EXCEPT ![p] = Mutated(h, afterForfeit(match, h.user),
                                                 forfeitApplies(match, h.user))]
        BY <1>7 DEF LoadState
    <2>4. Mutation(match, afterForfeit(match, h.user))
        BY <1>1, <1>7 DEF LocalOK, Located, Mutation, afterForfeit
    <2> QED BY <1>3, <1>7, <2>1, <2>2, <2>3, <2>4 DEF MatchKinds
<1> QED BY <1>4, <1>5, <1>6, <1>7 DEF LoadState

\* The handler in slot p returns, or moves along the control flow.
Moves(p) ==
    /\ Becomes(p, proc'[p])
    /\ LocalOK(proc'[p])
    /\ proc'[p] = Idle \/ Follows(proc[p], proc'[p])

\* A step other than that of the mutator moves the handler of its slot, which then has
\* what its new place requires.
LEMMA StepLocal ==
    ASSUME TypeInv, NEW p \in Procs, Step(p)
    PROVE  Moves(p) \/ LoadState(p)
<1> DEFINE h == proc[p]
<1>1. LocalOK(h) /\ proc \in [Procs -> Handler] /\ h \in Handler
    BY DEF TypeInv, TypeOK, LocalOK, Fields
<1>2. ASSUME Return(p) \/ Throw(p) PROVE Moves(p)
    BY <1>1, <1>2, IdleOK DEF Return, Throw, Becomes, Moves
<1>3. ASSUME NEW label, Goto(p, label), Edge(h, label), label # "fremove" PROVE Moves(p)
    BY <1>1, <1>3, GotoOK DEF Goto, Becomes, Moves
<1>4. ASSUME NEW k, Becomes(p, k), LocalOK(k), Follows(h, k) PROVE Moves(p)
    BY <1>1, <1>4 DEF Becomes, Moves
<1> HIDE DEF h
<1>20. ASSUME NEW label, label # "fremove", Edge(h, label), NEW n \in Nat,
             Becomes(p, [h EXCEPT !.pc = label, !.key = n])
      PROVE  Moves(p)
    <2>1. LocalOK([h EXCEPT !.pc = label, !.key = n]) /\ Follows(h, [h EXCEPT !.pc = label, !.key = n])
        BY <1>1, <1>20, GotoOK
    <2> QED BY <1>4, <1>20, <2>1
<1>21. ASSUME NEW label, label # "fremove", Edge(h, label), NEW todo \in SUBSET Players,
             Becomes(p, [h EXCEPT !.pc = label, !.todo = todo])
      PROVE  Moves(p)
    <2>1. LocalOK([h EXCEPT !.pc = label, !.todo = todo]) /\ Follows(h, [h EXCEPT !.pc = label, !.todo = todo])
        BY <1>1, <1>21, GotoOK
    <2> QED BY <1>4, <1>21, <2>1
<1>22. ASSUME NEW u \in Players, NEW left \in SUBSET Players, NEW n \in Nat, NEW label,
              h.pc = "fget", Edge(h, label), label # "unguard",
              Becomes(p, [h EXCEPT !.user = u, !.todo = left, !.key = n, !.pc = label])
       PROVE  Moves(p)
    <2> DEFINE k == [h EXCEPT !.user = u, !.todo = left, !.key = n, !.pc = label]
    <2>1. LocalOK(k) /\ Follows(h, k)
        BY <1>1, <1>22, CancelOK
    <2> QED BY <1>4, <1>22, <2>1
<1> USE DEF Edge, At
<1>5. CASE CheckSocket(p)
    BY <1>2, <1>3, <1>5 DEF CheckSocket, h
<1>6. CASE AcquireLock(p) \/ SaveState(p)
    BY <1>3, <1>6 DEF AcquireLock, SaveState, h
<1>7. CASE ReleaseLock(p)
    BY <1>2, <1>3, <1>7 DEF ReleaseLock, h
<1>8. CASE NotifyRound(p)
    BY <1>3, <1>8 DEF NotifyRound, Finalizing, h
<1>9. CASE TimerRemove(p) \/ ForfeitRemove(p)
    BY <1>3, <1>9 DEF TimerRemove, ForfeitRemove, h
<1>10. CASE BroadcastEnded(p) \/ CleanupUserMappings(p)
    BY <1>3, <1>10 DEF BroadcastEnded, CleanupUserMappings, h
<1>11. CASE RegisterSocket(p) \/ LookupMatch(p) \/ CheckInMatch(p) \/ GetMatchId(p)
    BY <1>2, <1>3, <1>11 DEF RegisterSocket, LookupMatch, CheckInMatch, GetMatchId, h
<1>12. CASE \/ AbortMutation(p) \/ BroadcastStart(p) \/ ForfeitKeySet(p) \/ PublishMatchEnded(p)
            \/ ReleaseGuard(p) \/ EmitResumed(p) \/ LeaveQueue(p)
    BY <1>2, <1>12 DEF AbortMutation, BroadcastStart, ForfeitKeySet, PublishMatchEnded,
                       ReleaseGuard, EmitResumed, LeaveQueue
<1>13. CASE LockBusy(p)
    <2>1. CASE proc' = [proc EXCEPT ![p].tries = @ + 1] /\ h.pc = "acquire"
        <3>1. Becomes(p, [h EXCEPT !.tries = h.tries + 1]) /\ h.tries + 1 \in Nat
            BY <1>1, <2>1 DEF Becomes, Handler, h
        <3>2. Edge(h, "acquire")
            BY <2>1
        <3> QED BY <1>1, <1>4, <2>1, <3>1, <3>2, GotoOK
    <2> QED BY <1>2, <1>13, <2>1 DEF LockBusy, h
<1>14. CASE TimerKeyGet(p) \/ TimerKeyDel(p) \/ TimerAdd(p) \/ TimerKeySet(p)
           \/ ForfeitKeyDel(p) \/ ForfeitAdd(p)
    <2>2. tkey \in Nat /\ tnext + 1 \in Nat /\ fnext + 1 \in Nat
        BY DEF TypeInv, TypeOK
    <2>3. CASE TimerKeyGet(p)
        <3> DEFINE l == IF tkey = 0 THEN AfterTimerCancel(p) ELSE "tremove"
        <3>1. Becomes(p, [h EXCEPT !.pc = l, !.key = tkey])
            BY <1>1, <2>3 DEF TimerKeyGet, Becomes, h, Handler
        <3>2. l # "fremove" /\ Edge(h, l)
            BY <2>3 DEF TimerKeyGet, AfterTimerCancel, Finalizing, h
        <3> HIDE DEF l
        <3> QED BY <1>20, <2>2, <3>1, <3>2
    <2>4. CASE TimerKeyDel(p)
        <3> DEFINE l == AfterTimerCancel(p)
        <3>1. Becomes(p, [h EXCEPT !.pc = l, !.key = 0])
            BY <1>1, <2>4 DEF TimerKeyDel, Becomes, h
        <3>2. l # "fremove" /\ Edge(h, l)
            BY <2>4 DEF TimerKeyDel, AfterTimerCancel, Finalizing, h
        <3> HIDE DEF l
        <3> QED BY <1>20, <3>1, <3>2
    <2>5. CASE TimerAdd(p)
        BY <1>1, <1>20, <2>2, <2>5 DEF TimerAdd, Becomes, h
    <2>6. CASE TimerKeySet(p)
        BY <1>1, <1>20, <2>6 DEF TimerKeySet, Becomes, h
    <2>7. CASE ForfeitKeyDel(p)
        <3> DEFINE l == AfterForfeitCancel(p, h.todo)
        <3>1. Becomes(p, [h EXCEPT !.pc = l, !.key = 0])
            BY <1>1, <2>7 DEF ForfeitKeyDel, Becomes, h
        <3>2. l # "fremove" /\ Edge(h, l)
            BY <2>7 DEF ForfeitKeyDel, AfterForfeitCancel, h
        <3> HIDE DEF l
        <3> QED BY <1>20, <3>1, <3>2
    <2>8. CASE ForfeitAdd(p)
        BY <1>1, <1>20, <2>2, <2>8 DEF ForfeitAdd, Becomes, h
    <2> QED BY <1>14, <2>3, <2>4, <2>5, <2>6, <2>7, <2>8
<1>15. CASE ClaimFinalization(p) \/ ResumeMatch(p) \/ UnregisterSocket(p)
    <2>2. CASE ClaimFinalization(p)
        BY <1>1, <1>2, <1>21, <2>2 DEF ClaimFinalization, Becomes, h
    <2>3. CASE ResumeMatch(p) \/ UnregisterSocket(p)
        <3>1. {h.user} \in SUBSET Players /\ Edge(h, "fget")
            BY <1>1, <2>3
               DEF ResumeMatch, UnregisterSocket, h, LocalOK, Fields, Located, Disconnecting
        <3>2. Return(p) \/ Becomes(p, [h EXCEPT !.pc = "fget", !.todo = {h.user}])
            BY <1>1, <2>3 DEF ResumeMatch, UnregisterSocket, Becomes, h
        <3> QED BY <1>2, <1>21, <3>1, <3>2
    <2> QED BY <1>15, <2>2, <2>3
<1>16. CASE ForfeitKeyGet(p)
    <2>1. PICK u \in h.todo :
            proc' = [proc EXCEPT ![p].user = u, ![p].todo = h.todo \ {u}, ![p].key = fkey[u],
                        ![p].pc = IF fkey[u] = 0 THEN AfterForfeitCancel(p, h.todo \ {u})
                                  ELSE "fremove"]
        BY <1>16 DEF ForfeitKeyGet, h
    <2> DEFINE left  == h.todo \ {u}
               label == IF fkey[u] = 0 THEN AfterForfeitCancel(p, left) ELSE "fremove"
    <2>2. u \in Players /\ left \in SUBSET Players /\ fkey[u] \in Nat /\ h.pc = "fget"
        BY <1>1, <1>16 DEF Handler, TypeInv, TypeOK, ForfeitKeyGet, h
    <2>3. Edge(h, label) /\ label # "unguard"
        BY <2>2 DEF AfterForfeitCancel, h
    <2>4. Becomes(p, [h EXCEPT !.user = u, !.todo = left, !.key = fkey[u], !.pc = label])
        BY <1>1, <2>1 DEF Becomes, h
    <2> HIDE DEF left, label
    <2> QED BY <1>22, <2>2, <2>3, <2>4
<1> QED
    BY <1>5, <1>6, <1>7, <1>8, <1>9, <1>10, <1>11, <1>12, <1>13, <1>14, <1>15, <1>16 DEF Step

\* A handler starts in slot p.
Acts(p) ==
    \/ \E u \in scenario.moving, round \in 1..MAX_ROUNDS, move \in ClientMoves :
          SubmitPlay(p, u, round, move)
    \/ \E j \in tjobs : FireTimeout(p, j)
    \/ \E j \in fjobs : FireForfeit(p, j)
    \/ \E u \in scenario.roaming : Connect(p, u)
    \/ \E u \in scenario.roaming, sid \in 1..MaxSockets : Disconnect(p, u, sid)

\* A handler that starts is well-formed and knows nothing of the match yet.
Begins(p) ==
    /\ Becomes(p, proc'[p])
    /\ LocalOK(proc'[p])
    /\ At(p, "idle")
    /\ proc'[p].state.status # "ENDED"
    /\ proc'[p].pc \in {"acquire", "check", "register", "inMatch"}

LEMMA BeginLocal ==
    ASSUME TypeInv, NEW p \in Procs, Acts(p)
    PROVE  Begins(p)
<1>1. proc \in [Procs -> Handler]
    BY DEF TypeInv, TypeOK
<1>2. ASSUME NEW k, Begin(p, k), LocalOK(k), k.state = Idle.state,
             k.pc \in {"acquire", "check", "register", "inMatch"}
      PROVE  Begins(p)
    BY <1>1, <1>2, InitialSound DEF Begin, Becomes, Begins, Idle
<1>3. Idle \in Handler /\ Sound(Idle.state) /\ Idle.state.status # "ENDED"
    BY IdleOK, InitialSound DEF LocalOK, Fields, Idle
<1>4. scenario.moving \subseteq Users /\ scenario.roaming \subseteq Players
    BY BoundsAssumption DEF TypeInv, TypeOK
<1>5. CASE \E u \in scenario.moving, round \in 1..MAX_ROUNDS, move \in ClientMoves :
              SubmitPlay(p, u, round, move)
    <2>1. PICK u \in scenario.moving, round \in 1..MAX_ROUNDS, move \in ClientMoves :
              SubmitPlay(p, u, round, move)
        BY <1>5
    <2> DEFINE k == [Idle EXCEPT !.pc = "acquire", !.kind = "play", !.user = u,
                                 !.round = round, !.move = move]
    <2>2. u \in Users /\ move \in Move /\ round \in 0..MAX_ROUNDS
        BY <1>4, BoundsAssumption, RoundsAssumption
    <2>3. /\ k \in Handler /\ k.pc = "acquire" /\ k.kind = "play" /\ k.user = u
          /\ k.round = round /\ k.move = move /\ k.state = Idle.state
        BY <1>3, <2>2 DEF Handler, Labels, Kinds
    <2> HIDE DEF k
    <2>4. LocalOK(k)
        BY <1>3, <2>2, <2>3 DEF LocalOK, Fields, Located, Disconnecting
    <2> QED BY <1>2, <2>1, <2>3, <2>4 DEF SubmitPlay, k
<1>6. CASE \E j \in tjobs : FireTimeout(p, j)
    <2>1. PICK j \in tjobs : FireTimeout(p, j)
        BY <1>6
    <2> DEFINE k == [Idle EXCEPT !.pc = "acquire", !.kind = "timeout", !.round = j.round,
                                 !.job = j.id]
    <2>2. j.round \in 1..MAX_ROUNDS /\ j.round \in 0..MAX_ROUNDS /\ j.id \in Nat
        BY RoundsAssumption DEF TypeInv, TypeOK, TimeoutJob
    <2>3. /\ k \in Handler /\ k.pc = "acquire" /\ k.kind = "timeout"
          /\ k.round = j.round /\ k.state = Idle.state
        BY <1>3, <2>2 DEF Handler, Labels, Kinds
    <2> HIDE DEF k
    <2>4. LocalOK(k)
        BY <1>3, <2>2, <2>3 DEF LocalOK, Fields, Located, Disconnecting
    <2> QED BY <1>2, <2>1, <2>3, <2>4 DEF FireTimeout, k
<1>7. CASE \E j \in fjobs : FireForfeit(p, j)
    <2>1. PICK j \in fjobs : FireForfeit(p, j)
        BY <1>7
    <2> DEFINE k == [Idle EXCEPT !.pc = "check", !.kind = "forfeit", !.user = j.user,
                                 !.job = j.id]
    <2>2. j.user \in Users /\ j.id \in Nat
        BY DEF TypeInv, TypeOK, ForfeitJob, Users
    <2>3. /\ k \in Handler /\ k.pc = "check" /\ k.kind = "forfeit"
          /\ k.user = j.user /\ k.state = Idle.state
        BY <1>3, <2>2 DEF Handler, Labels, Kinds
    <2> HIDE DEF k
    <2>4. LocalOK(k)
        BY <1>3, <2>2, <2>3 DEF LocalOK, Fields, Located, Disconnecting
    <2> QED BY <1>2, <2>1, <2>3, <2>4 DEF FireForfeit, k
<1>8. CASE \E u \in scenario.roaming : Connect(p, u)
    <2>1. PICK u \in scenario.roaming : Connect(p, u)
        BY <1>8
    <2> DEFINE k == [Idle EXCEPT !.pc = "register", !.kind = "connect", !.user = u,
                                 !.sid = opened[u] + 1]
    <2>2. u \in Players /\ u \in Users /\ opened[u] + 1 \in Nat \ {0}
        BY <1>4 DEF TypeInv, TypeOK, Users
    <2>3. /\ k \in Handler /\ k.pc = "register" /\ k.kind = "connect"
          /\ k.user = u /\ k.sid = opened[u] + 1 /\ k.state = Idle.state
        BY <1>3, <2>2 DEF Handler, Labels, Kinds
    <2> HIDE DEF k
    <2>4. LocalOK(k)
        BY <1>3, <2>2, <2>3 DEF LocalOK, Fields, Located, Disconnecting
    <2> QED BY <1>2, <2>1, <2>3, <2>4 DEF Connect, k
<1>9. CASE \E u \in scenario.roaming, sid \in 1..MaxSockets : Disconnect(p, u, sid)
    <2>1. PICK u \in scenario.roaming, sid \in 1..MaxSockets : Disconnect(p, u, sid)
        BY <1>9
    <2> DEFINE k == [Idle EXCEPT !.pc = "inMatch", !.kind = "disconnect", !.user = u,
                                 !.sid = sid]
    <2>2. u \in Players /\ u \in Users /\ sid \in Nat
        BY <1>4 DEF Users
    <2>3. /\ k \in Handler /\ k.pc = "inMatch" /\ k.kind = "disconnect"
          /\ k.user = u /\ k.state = Idle.state
        BY <1>3, <2>2 DEF Handler, Labels, Kinds
    <2> HIDE DEF k
    <2>4. LocalOK(k)
        BY <1>3, <2>2, <2>3 DEF LocalOK, Fields, Located, Disconnecting
    <2> QED BY <1>2, <2>1, <2>3, <2>4 DEF Disconnect, k
<1> QED BY <1>5, <1>6, <1>7, <1>8, <1>9 DEF Acts

\* A command that fails and an instance that dies move a handler in the same way.
LEMMA FailureLocal ==
    ASSUME TypeInv, NEW p \in Procs, CommandFails(p) \/ Crash(p)
    PROVE  Moves(p)
<1> DEFINE h == proc[p]
<1>1. LocalOK(h) /\ proc \in [Procs -> Handler]
    BY DEF TypeInv, TypeOK
<1>2. ASSUME proc' = [proc EXCEPT ![p] = Idle] PROVE Moves(p)
    BY <1>1, <1>2, IdleOK DEF Becomes, Moves
<1>3. ASSUME NEW label, Goto(p, label), Edge(h, label), label # "fremove" PROVE Moves(p)
    BY <1>1, <1>3, GotoOK DEF Goto, Becomes, Moves
<1> HIDE DEF h
<1>4. CASE Crash(p)
    BY <1>2, <1>4 DEF Crash
<1>5. CASE Throw(p)
    BY <1>2, <1>5 DEF Throw
<1>6. CASE /\ proc[p].pc \in {"tget", "tremove", "tdel", "tadd", "tset"}
           /\ Goto(p, IF Finalizing(p) THEN "fget" ELSE "start")
    BY <1>3, <1>6 DEF Edge, Finalizing, h
<1>7. CASE proc[p].pc \in Finalization /\ Finalizer(p) /\ Goto(p, "unguard")
    BY <1>3, <1>7 DEF Edge, Finalizer, Finalizing, h
<1> QED BY <1>4, <1>5, <1>6, <1>7 DEF CommandFails

\* The shared state keeps its types under the steps of the handlers.
LEMMA StepShared ==
    ASSUME TypeInv, NEW p \in Procs, Step(p)
    PROVE  SharedTypeOK' /\ Sound(match)'
<1> DEFINE h == proc[p]
<1>1. SharedTypeOK /\ Sound(match)
    BY DEF TypeInv, TypeOK, SharedTypeOK
<1>2. /\ h.state \in MatchState /\ Sound(h.state) /\ h.user \in Users \cup {NoUser}
      /\ h.sid \in Nat /\ h.key \in Nat /\ h.state.currentRound \in 1..MAX_ROUNDS
      /\ h.pc \in {"fadd"} => h.user \in Players
    BY DEF TypeInv, TypeOK, LocalOK, Fields, Located, Handler, MatchState
<1>3. \/ UNCHANGED <<tjobs, fjobs>> \/ Return(p) \/ Throw(p) =>
           tjobs' \subseteq TimeoutJob /\ fjobs' \subseteq ForfeitJob
    BY <1>1, LeavingSlot DEF SharedTypeOK
<1> HIDE DEF h
<1> USE DEF redis, timers, forfeits, outputs, clients, failures
<1>4. CASE CheckSocket(p) \/ LookupMatch(p) \/ ResumeMatch(p) \/ GetMatchId(p)
           \/ BroadcastStart(p) \/ EmitResumed(p)
    BY <1>1, <1>3, <1>4
       DEF CheckSocket, LookupMatch, ResumeMatch, GetMatchId, BroadcastStart, EmitResumed, SharedTypeOK
<1>5. CASE LoadState(p) \/ NotifyRound(p) \/ TimerKeyGet(p) \/ ForfeitKeyGet(p) \/ CheckInMatch(p)
    BY <1>1, <1>5 DEF LoadState, NotifyRound, TimerKeyGet, ForfeitKeyGet, CheckInMatch, SharedTypeOK
<1>6. CASE AcquireLock(p) \/ SaveState(p)
    BY <1>1, <1>2, <1>6 DEF AcquireLock, SaveState, SharedTypeOK, h
<1>7. CASE ReleaseLock(p) \/ AbortMutation(p)
    BY <1>1, <1>3, <1>7 DEF ReleaseLock, AbortMutation, Released, SharedTypeOK
<1>8. CASE LockBusy(p)
    BY <1>1, <1>3, <1>8 DEF LockBusy, SharedTypeOK
<1>9. CASE TimerRemove(p)
    BY <1>1, <1>9 DEF TimerRemove, SharedTypeOK
<1>10. CASE TimerKeyDel(p) \/ TimerKeySet(p)
    BY <1>1, <1>2, <1>10 DEF TimerKeyDel, TimerKeySet, SharedTypeOK, h
<1>11. CASE TimerAdd(p)
    <2> DEFINE j == [id |-> tnext + 1, round |-> h.state.currentRound, active |-> FALSE,
                     stalled |-> FALSE]
    <2>1. tnext + 1 \in Nat
        BY <1>1 DEF SharedTypeOK
    <2>2. j \in TimeoutJob
        BY <1>2, <2>1 DEF TimeoutJob
    <2>3. tjobs' = tjobs \cup {j} /\ tnext' = tnext + 1
        BY <1>11 DEF TimerAdd, h
    <2> HIDE DEF j
    <2> QED BY <1>1, <1>11, <2>1, <2>2, <2>3 DEF TimerAdd, SharedTypeOK
<1>12. CASE ClaimFinalization(p) \/ ReleaseGuard(p)
    BY <1>1, <1>3, <1>12 DEF ClaimFinalization, ReleaseGuard, SharedTypeOK
<1>13. CASE ForfeitRemove(p) \/ ForfeitKeyDel(p)
    BY <1>1, <1>13 DEF ForfeitRemove, ForfeitKeyDel, SharedTypeOK
<1>14. CASE ForfeitAdd(p)
    <2> DEFINE j == [id |-> fnext + 1, user |-> h.user, active |-> FALSE, stalled |-> FALSE,
                     tries |-> 0]
    <2>1. fnext + 1 \in Nat /\ h.user \in Players
        BY <1>1, <1>2, <1>14 DEF SharedTypeOK, ForfeitAdd, At, h
    <2>2. j \in ForfeitJob
        BY <2>1 DEF ForfeitJob
    <2>3. fjobs' = fjobs \cup {j} /\ fnext' = fnext + 1
        BY <1>14 DEF ForfeitAdd, h
    <2> HIDE DEF j
    <2> QED BY <1>1, <1>14, <2>1, <2>2, <2>3 DEF ForfeitAdd, SharedTypeOK
<1>15. CASE ForfeitKeySet(p)
    BY <1>1, <1>2, <1>3, <1>15 DEF ForfeitKeySet, SharedTypeOK, h
<1>16. CASE BroadcastEnded(p) \/ CleanupUserMappings(p)
    BY <1>1, <1>2, <1>16 DEF BroadcastEnded, CleanupUserMappings, SharedTypeOK, h
<1>17. CASE PublishMatchEnded(p)
    BY <1>1, <1>2, <1>3, <1>17 DEF PublishMatchEnded, SharedTypeOK, h
<1>18. CASE RegisterSocket(p) 
    BY <1>1, <1>2, <1>18 DEF RegisterSocket, SharedTypeOK, h
<1>19. CASE LeaveQueue(p) \/ UnregisterSocket(p)
    BY <1>1, <1>3, <1>19 DEF LeaveQueue, UnregisterSocket, Unregistered, SharedTypeOK
<1> QED BY <1>4, <1>5, <1>6, <1>7, <1>8, <1>9, <1>10, <1>11, <1>12, <1>13, <1>14, <1>15, <1>16,
           <1>17, <1>18, <1>19 DEF Step

\* And under everything else that may happen.
LEMMA OtherShared ==
    ASSUME TypeInv, NEW p \in Procs, Acts(p) \/ CommandFails(p) \/ Crash(p)
    PROVE  SharedTypeOK' /\ Sound(match)'
<1>1. SharedTypeOK /\ Sound(match)
    BY DEF TypeInv, TypeOK, SharedTypeOK
<1>3. \/ UNCHANGED <<tjobs, fjobs>> \/ Return(p) \/ Throw(p) =>
           tjobs' \subseteq TimeoutJob /\ fjobs' \subseteq ForfeitJob
    BY <1>1, LeavingSlot DEF SharedTypeOK
<1>2. /\ \A j \in TimeoutJob : [j EXCEPT !.active = TRUE] \in TimeoutJob
      /\ \A j \in ForfeitJob : [j EXCEPT !.active = TRUE] \in ForfeitJob
      /\ \A j \in TimeoutJob : [j EXCEPT !.active = FALSE, !.stalled = TRUE] \in TimeoutJob
      /\ \A j \in ForfeitJob : [j EXCEPT !.active = FALSE, !.stalled = TRUE] \in ForfeitJob
    BY DEF TimeoutJob, ForfeitJob
<1> USE DEF redis, timers, forfeits, outputs, clients, failures
<1>4. CASE \E u \in scenario.moving, round \in 1..MAX_ROUNDS, move \in ClientMoves :
                 SubmitPlay(p, u, round, move)
    BY <1>1, <1>4 DEF SubmitPlay, SharedTypeOK
<1>5. CASE \E j \in tjobs : FireTimeout(p, j)
    BY <1>1, <1>2, <1>5 DEF FireTimeout, SharedTypeOK
<1>6. CASE \E j \in fjobs : FireForfeit(p, j)
    BY <1>1, <1>2, <1>6 DEF FireForfeit, SharedTypeOK
<1>7. CASE \E u \in scenario.roaming : Connect(p, u)
    <2>1. PICK u \in scenario.roaming : Connect(p, u)
        BY <1>7
    <2>2. u \in Players
        BY <1>1, BoundsAssumption DEF SharedTypeOK
    <2>3. opened[u] + 1 \in Nat
        BY <1>1, <2>2 DEF SharedTypeOK
    <2>4. opened' \in [Players -> Nat] /\ live' \in [Players -> SUBSET Nat]
        BY <1>1, <2>1, <2>2, <2>3 DEF SharedTypeOK, Connect
    <2> QED BY <1>1, <2>1, <2>4 DEF Connect, SharedTypeOK
<1>8. CASE \E u \in scenario.roaming, sid \in 1..MaxSockets : Disconnect(p, u, sid)
    BY <1>1, <1>8 DEF Disconnect, SharedTypeOK
<1>9. CASE CommandFails(p)
    <2>1. tjobs' \subseteq TimeoutJob /\ fjobs' \subseteq ForfeitJob
        BY <1>3, <1>9 DEF CommandFails
    <2>2. lock' \in Procs \cup {NoProc} /\ finalized' \in BOOLEAN
        BY <1>1, <1>9 DEF CommandFails, Released, SharedTypeOK
    <2>3. byUser' \in [Players -> BOOLEAN]
        BY <1>1, <1>9 DEF CommandFails, SharedTypeOK
    <2>4. faults' \in Nat
        BY <1>1, <1>9 DEF CommandFails, SharedTypeOK
    <2>5. UNCHANGED <<match, sock, tkey, tnext, fkey, fnext, outputs, clients, crashes, timerLost>>
        BY <1>9 DEF CommandFails
    <2> QED BY <1>1, <2>1, <2>2, <2>3, <2>4, <2>5 DEF SharedTypeOK
<1>10. CASE Crash(p)
    <2>1. OtherTimeoutJobs(p) \subseteq tjobs /\ OtherForfeitJobs(p) \subseteq fjobs
          /\ OwnForfeitJobs(p) \subseteq fjobs
        BY DEF OtherTimeoutJobs, OtherForfeitJobs, OwnForfeitJobs
    <2>4. tjobs \subseteq TimeoutJob /\ fjobs \subseteq ForfeitJob
        BY <1>1 DEF SharedTypeOK
    <2>5. tjobs' \subseteq TimeoutJob
        <3> SUFFICES ASSUME NEW j \in tjobs' PROVE j \in TimeoutJob
            OBVIOUS
        <3>1. CASE j \in OtherTimeoutJobs(p)
            BY <2>1, <2>4, <3>1
        <3>2. CASE \E i \in tjobs : j = [i EXCEPT !.active = FALSE, !.stalled = TRUE]
            BY <1>2, <2>4, <3>2
        <3> QED BY <1>10, <3>1, <3>2 DEF Crash
    <2>6. fjobs' \subseteq ForfeitJob
        <3> SUFFICES ASSUME NEW j \in fjobs' PROVE j \in ForfeitJob
            OBVIOUS
        <3>1. CASE j \in OtherForfeitJobs(p)
            BY <2>1, <2>4, <3>1
        <3>2. CASE \E i \in fjobs : j = [i EXCEPT !.active = FALSE, !.stalled = TRUE]
            BY <1>2, <2>4, <3>2
        <3> QED BY <1>10, <2>1, <3>1, <3>2 DEF Crash
    <2>7. /\ crashes' = crashes + 1
          /\ UNCHANGED <<redis, tkey, tnext, fkey, fnext, outputs, clients, faults, timerLost>>
        BY <1>10, Zenon DEF Crash
    <2>3. crashes' \in Nat
        BY <1>1, <2>7 DEF SharedTypeOK
    <2> QED BY <1>1, <2>3, <2>5, <2>6, <2>7 DEF SharedTypeOK
<1> QED BY <1>4, <1>5, <1>6, <1>7, <1>8, <1>9, <1>10 DEF Acts

LEMMA NextBySlot ==
    ASSUME Next
    PROVE  \/ \E p \in Procs : Acts(p) \/ Step(p) \/ CommandFails(p) \/ Crash(p)
           \/ LockExpire
BY DEF Next, TimeoutsFire, ForfeitsFire, Acts, Procs

\* Which step writes which key.
LEMMA StepWrites ==
    ASSUME NEW p \in Procs, Step(p)
    PROVE  /\ match' = match \/ SaveState(p)
           /\ lock' = lock \/ AcquireLock(p) \/ ReleaseLock(p) \/ AbortMutation(p)
           /\ finalized' = finalized \/ ClaimFinalization(p) \/ ReleaseGuard(p)
           /\ byUser' = byUser \/ CleanupUserMappings(p)
           /\ told' = told \/ BroadcastEnded(p)
           /\ published' = published \/ PublishMatchEnded(p)
           /\ sock' = sock \/ RegisterSocket(p) \/ LeaveQueue(p) \/ UnregisterSocket(p)
           /\ UNCHANGED <<opened, live>>
BY DEF Step, CheckSocket, AcquireLock, LockBusy, LoadState, SaveState, ReleaseLock, AbortMutation,
       NotifyRound, TimerKeyGet, TimerRemove, TimerKeyDel, TimerAdd, TimerKeySet, BroadcastStart,
       ClaimFinalization, ForfeitKeyGet, ForfeitRemove, ForfeitKeyDel, ForfeitAdd, ForfeitKeySet,
       BroadcastEnded, CleanupUserMappings, PublishMatchEnded, ReleaseGuard, RegisterSocket,
       LookupMatch, ResumeMatch, EmitResumed, CheckInMatch, LeaveQueue, GetMatchId,
       UnregisterSocket, redis, outputs, clients

\* Handlers that start and failures write none of the keys of the match, except that the
\* finally block of mutateState releases the lock and a failed cleanup may have freed a player.
LEMMA OtherWrites ==
    ASSUME NEW p \in Procs, Acts(p) \/ CommandFails(p) \/ Crash(p)
    PROVE  /\ UNCHANGED <<match, finalized, told, published, sock>>
           /\ lock' = lock \/ (proc[p].pc \in Critical /\ lock' = Released(p))
           /\ byUser' = byUser \/ CommandFails(p)
           /\ Acts(p) \/ UNCHANGED <<opened, live>>
<1>1. CASE Acts(p)
    BY <1>1 DEF Acts, SubmitPlay, FireTimeout, FireForfeit, Connect, Disconnect, redis, outputs
<1>2. CASE CommandFails(p)
    <2>1. UNCHANGED <<match, sock, outputs, clients>>
        BY <1>2 DEF CommandFails
    <2>2. finalized' = finalized /\ (lock' = lock \/ (proc[p].pc \in Critical /\ lock' = Released(p)))
        BY <1>2 DEF CommandFails
    <2> QED BY <1>2, <2>1, <2>2 DEF outputs, clients
<1>3. CASE Crash(p)
    <2>1. UNCHANGED <<redis, outputs, clients>>
        BY <1>3, Zenon DEF Crash
    <2> QED BY <2>1 DEF redis, outputs, clients
<1> QED BY <1>1, <1>2, <1>3

LEMMA InitTypeInv == Init => TypeInv
<1> SUFFICES ASSUME Init PROVE TypeInv
    OBVIOUS
<1>1. SharedTypeOK
    <2>1. byUser \in [Players -> BOOLEAN] /\ finalized \in BOOLEAN /\ timerLost \in BOOLEAN
        BY DEF Init
    <2>2. /\ sock \in [Players -> Nat] /\ fkey \in [Players -> Nat]
          /\ opened \in [Players -> Nat] /\ live \in [Players -> SUBSET Nat]
        BY DEF Init
    <2> QED BY <2>1, <2>2 DEF Init, SharedTypeOK
<1>2. Sound(match) /\ match \in MatchState
    BY InitialSound DEF Init, Sound
<1>3. \A p \in Procs : LocalOK(proc[p])
    <2> DEFINE k == [Idle EXCEPT !.pc = "tget", !.kind = "start"]
    <2>1. /\ k \in Handler /\ k.pc = "tget" /\ k.kind = "start" /\ k.state = buildInitialState
        BY IdleOK DEF LocalOK, Fields, Idle, Handler, Labels, Kinds
    <2> HIDE DEF k
    <2>2. LocalOK(k)
        BY <2>1, InitialSound DEF LocalOK, Fields, Located, Disconnecting
    <2> QED BY <2>2, IdleOK DEF Init, k
<1>4. proc \in [Procs -> Handler]
    BY <1>3 DEF Init, LocalOK, Fields
<1> QED BY <1>1, <1>2, <1>3, <1>4 DEF TypeInv, TypeOK, SharedTypeOK

LEMMA NextTypeInv == TypeInv /\ [Next]_vars => TypeInv'
<1> SUFFICES ASSUME TypeInv, [Next]_vars PROVE TypeInv'
    OBVIOUS
<1>1. ASSUME NEW p \in Procs, Acts(p) \/ Step(p) \/ CommandFails(p) \/ Crash(p)
      PROVE  TypeInv'
    <2>1. Becomes(p, proc'[p]) /\ LocalOK(proc'[p])
        BY <1>1, BeginLocal, StepLocal, LoadLocal, FailureLocal DEF Moves, Loads, Begins
    <2>2. SharedTypeOK' /\ Sound(match)'
        BY <1>1, StepShared, OtherShared
    <2> QED BY <2>1, <2>2, TypeInvBySlot
<1>2. CASE LockExpire
    BY <1>2 DEF LockExpire, TypeInv, TypeOK, timers, forfeits, outputs, clients, failures
<1>3. CASE UNCHANGED vars
    BY <1>3 DEF vars, redis, timers, forfeits, outputs, clients, failures, TypeInv, TypeOK
<1> QED BY <1>1, <1>2, <1>3, NextBySlot

\* Every shared key, job and handler has its type in every state, also when a lock
\* expires under its holder: in particular no stale save stores a state with a score or
\* a round out of range.
THEOREM PlayTypeCorrect == Spec => []TypeOK
<1>1. TypeInv => TypeOK
    BY DEF TypeInv
<1> QED BY <1>1, InitTypeInv, NextTypeInv, PTL DEF Spec

-----------------------------------------------------------------------------
(* The guard of finalizeMatch. *)

\* InFinalization as a predicate of the handler.
InFin(h) ==
    /\ h.kind \in MatchKinds /\ h.state.status = "ENDED"
    /\ h.pc \in Finalization \cup {"tget", "tremove", "tdel", "unguard"}

LEMMA GuardInvariant == TypeInv /\ OneFinalizer /\ [Next]_vars => OneFinalizer'
<1> SUFFICES ASSUME TypeInv, OneFinalizer, [Next]_vars PROVE OneFinalizer'
    OBVIOUS
<1>1. /\ OneFinalizer <=>
           \A p, q \in Procs : InFin(proc[p]) /\ InFin(proc[q]) => p = q /\ finalized
      /\ OneFinalizer' <=>
           \A p, q \in Procs : InFin(proc'[p]) /\ InFin(proc'[q]) => p = q /\ finalized'
    BY DEF OneFinalizer, InFinalization, Finalizer, Finalizing, InFin, MatchKinds
<1>2. TypeInv'
    BY NextTypeInv
<1>3. ASSUME NEW p \in Procs, Becomes(p, proc'[p]),
             \/ finalized' = finalized /\ (InFin(proc'[p]) => InFin(proc[p]))
             \/ finalized' = TRUE /\ ~finalized
             \/ ~InFin(proc'[p]) /\ InFin(proc[p])
      PROVE  OneFinalizer'
    <2>1. \A q \in Procs : q # p => proc'[q] = proc[q]
        BY <1>3 DEF Becomes, TypeInv, TypeOK
    <2> QED BY <1>1, <1>3, <2>1
<1>4. ASSUME NEW p \in Procs, Moves(p), ~At(p, "claim")
      PROVE  InFin(proc'[p]) => InFin(proc[p])
    <2>1. LocalOK(proc[p])
        BY DEF TypeInv
    <2>2. CASE proc'[p] = Idle
        BY <2>2 DEF InFin, Idle, MatchKinds
    <2>3. CASE Follows(proc[p], proc'[p])
        BY <1>4, <2>1, <2>3
           DEF Follows, Edge, InFin, At, Finalization, LocalOK, Fields, Located, MatchKinds,
               Disconnecting
    <2> QED BY <1>4, <2>2, <2>3 DEF Moves
<1>5. ASSUME NEW p \in Procs, Acts(p)
      PROVE  OneFinalizer'
    <2>1. finalized' = finalized
        BY <1>5 DEF Acts, SubmitPlay, FireTimeout, FireForfeit, Connect, Disconnect, redis
    <2> QED BY <1>3, <1>5, <2>1, BeginLocal DEF Begins, InFin
<1>6. ASSUME NEW p \in Procs, CommandFails(p) \/ Crash(p)
      PROVE  OneFinalizer'
    <2>1. finalized' = finalized
        BY <1>6 DEF CommandFails, Crash, redis
    <2>2. At(p, "claim") => proc'[p] = Idle
        BY <1>6 DEF CommandFails, Crash, At, Throw, TypeInv, TypeOK, Finalization
    <2>3. ~InFin(Idle)
        BY DEF InFin, Idle, MatchKinds
    <2> QED BY <1>3, <1>4, <1>6, <2>1, <2>2, <2>3, FailureLocal DEF Moves
<1>7. ASSUME NEW p \in Procs, Step(p)
      PROVE  OneFinalizer'
    <2>1. CASE LoadState(p)
        <3>1. finalized' = finalized
            BY <2>1 DEF LoadState, redis
        <3> QED BY <1>3, <2>1, <3>1, LoadLocal DEF Loads, InFin, Finalization
    <2>2. CASE ClaimFinalization(p)
        <3>1. Moves(p)
            BY <1>7, <2>2, StepLocal DEF ClaimFinalization, LoadState, At
        <3>2. CASE finalized
            <4>1. proc'[p] = Idle
                BY <2>2, <3>2 DEF ClaimFinalization, Return, TypeInv, TypeOK
            <4>2. ~InFin(Idle)
                BY DEF InFin, Idle, MatchKinds
            <4>3. finalized' = finalized
                BY <2>2, <3>2 DEF ClaimFinalization, TypeInv, TypeOK
            <4> QED BY <1>3, <3>1, <4>1, <4>2, <4>3 DEF Moves
        <3> QED BY <1>3, <2>2, <3>1, <3>2 DEF ClaimFinalization, Moves
    <2>3. CASE ReleaseGuard(p)
        <3>1. Moves(p)
            BY <1>7, <2>3, StepLocal DEF ReleaseGuard, LoadState, At
        <3>2. proc'[p] = Idle
            BY <2>3 DEF ReleaseGuard, Throw, TypeInv, TypeOK
        <3>3. InFin(proc[p]) /\ ~InFin(Idle)
            BY <2>3 DEF ReleaseGuard, At, InFin, Idle, MatchKinds, TypeInv, LocalOK, Fields, Located
        <3> QED BY <1>3, <3>1, <3>2, <3>3 DEF Moves
    <2>4. CASE ~LoadState(p) /\ ~ClaimFinalization(p) /\ ~ReleaseGuard(p)
        <3>1. finalized' = finalized /\ ~At(p, "claim")
            BY <1>7, <2>4
               DEF Step, CheckSocket, AcquireLock, LockBusy, SaveState, ReleaseLock, AbortMutation,
                   NotifyRound, TimerKeyGet, TimerRemove, TimerKeyDel, TimerAdd, TimerKeySet,
                   BroadcastStart, ForfeitKeyGet, ForfeitRemove, ForfeitKeyDel, ForfeitAdd,
                   ForfeitKeySet, BroadcastEnded, CleanupUserMappings, PublishMatchEnded,
                   RegisterSocket, LookupMatch, ResumeMatch, EmitResumed, CheckInMatch, LeaveQueue,
                   GetMatchId, UnregisterSocket, At, redis
        <3> QED BY <1>3, <1>4, <1>7, <2>4, <3>1, StepLocal DEF Moves
    <2> QED BY <2>1, <2>2, <2>3, <2>4
<1>8. CASE LockExpire \/ UNCHANGED vars
    BY <1>8 DEF LockExpire, vars, redis, OneFinalizer, InFinalization, Finalizer, Finalizing
<1> QED BY <1>5, <1>6, <1>7, <1>8, NextBySlot

\* finalizeMatch is mutually exclusive and runs only under the guard, for any number of
\* handlers, failures and crashes, and even when match locks expire too early: a match is
\* never archived by two handlers at once.
THEOREM FinalizationIsExclusive == Spec => []OneFinalizer
<1>1. Init => OneFinalizer
    <2>1. Idle.pc = "idle" /\ Idle.state = buildInitialState
        BY DEF Idle
    <2>2. \A p \in Procs : Init => proc[p].state = buildInitialState
        BY <2>1 DEF Init, Idle
    <2> QED BY <2>2, InitialSound DEF OneFinalizer, InFinalization, Finalizer, Finalizing
<1> QED BY <1>1, InitTypeInv, NextTypeInv, GuardInvariant, PTL DEF Spec

-----------------------------------------------------------------------------
(* mutateState. *)

\* Mutual exclusion, and what it is for.
SessionInv == Exclusive /\ SavesMutation /\ KnowsFinalState

LEMMA SessionInvariant ==
    ASSUME ~SlowHolder
    PROVE  TypeInv /\ SessionInv /\ [Next]_vars => SessionInv'
<1> SUFFICES ASSUME TypeInv, SessionInv, [Next]_vars PROVE SessionInv'
    OBVIOUS
<1>1. proc \in [Procs -> Handler] /\ \A p \in Procs : LocalOK(proc[p])
    BY DEF TypeInv, TypeOK
\* A slot that does not enter mutateState and writes nothing but its own lock.
<1>2. ASSUME NEW p \in Procs, Becomes(p, proc'[p]), match' = match,
             lock' = lock \/ proc[p].pc \in Critical,
             proc'[p].pc \notin Critical,
             proc'[p].state.status = "ENDED" => proc[p].pc # "save" /\ proc'[p].state = proc[p].state
      PROVE  SessionInv'
    <2>1. \A q \in Procs : q # p => proc'[q] = proc[q]
        BY <1>1, <1>2 DEF Becomes
    <2>2. Exclusive'
        BY <1>2, <2>1 DEF SessionInv, Exclusive
    <2>3. SavesMutation'
        BY <1>2, <2>1 DEF SessionInv, SavesMutation, At, Critical
    <2>4. KnowsFinalState'
        BY <1>2, <2>1 DEF SessionInv, KnowsFinalState, At, Finalizing
    <2> QED BY <2>2, <2>3, <2>4 DEF SessionInv
<1>3. ASSUME NEW p \in Procs, Moves(p), match' = match, lock' = lock \/ proc[p].pc \in Critical,
             ~At(p, "acquire"), ~At(p, "save") \/ proc'[p] = Idle
      PROVE  SessionInv'
    <2>1. CASE proc'[p] = Idle
        BY <1>2, <1>3, <2>1, InitialSound DEF Moves, Idle, Critical
    <2>2. CASE Follows(proc[p], proc'[p]) /\ proc'[p] # Idle
        <3>1. proc'[p].pc \notin Critical
            BY <1>3, <2>2 DEF Follows, Edge, At, Critical
        <3> QED BY <1>2, <1>3, <2>1, <2>2, <3>1 DEF Moves, Follows, At
    <2> QED BY <1>3, <2>1, <2>2 DEF Moves
<1>4. ASSUME NEW p \in Procs, Acts(p) PROVE SessionInv'
    <2>1. match' = match /\ (lock' = lock \/ proc[p].pc \in Critical)
        BY <1>4, OtherWrites
    <2>2. Begins(p)
        BY <1>4, BeginLocal
    <2> QED BY <1>2, <2>1, <2>2 DEF Begins, Critical
<1>5. ASSUME NEW p \in Procs, CommandFails(p) \/ Crash(p) PROVE SessionInv'
    <2>1. match' = match /\ (lock' = lock \/ proc[p].pc \in Critical)
        BY <1>5, OtherWrites
    <2>2. Moves(p)
        BY <1>5, FailureLocal
    <2>3. At(p, "acquire") \/ At(p, "save") => proc'[p] = Idle
        BY <1>1, <1>5 DEF CommandFails, Crash, At, Throw, Finalization
    <2>4. CASE proc'[p] = Idle
        BY <1>2, <2>1, <2>2, <2>4, InitialSound DEF Moves, Idle, Critical
    <2> QED BY <1>3, <2>1, <2>2, <2>3, <2>4
<1>6. ASSUME NEW p \in Procs, Step(p) PROVE SessionInv'
    <2>1. CASE AcquireLock(p)
        <3>1. /\ proc' = [proc EXCEPT ![p].pc = "load"] /\ lock = NoProc /\ lock' = p
              /\ match' = match /\ proc[p].pc = "acquire"
            BY <2>1 DEF AcquireLock, Goto, At
        <3>2. /\ \A q \in Procs : q # p => proc'[q] = proc[q]
              /\ proc'[p].pc = "load" /\ proc'[p].state = proc[p].state
            BY <1>1, <3>1 DEF Handler
        <3>3. Exclusive'
            BY <3>1, <3>2, ProcsAssumption DEF SessionInv, Exclusive
        <3>4. SavesMutation'
            BY <3>1, <3>2 DEF SessionInv, SavesMutation, At
        <3>5. KnowsFinalState'
            BY <3>1, <3>2 DEF SessionInv, KnowsFinalState, At, Finalizing
        <3> QED BY <3>3, <3>4, <3>5 DEF SessionInv
    <2>2. CASE LoadState(p)
        <3>1. match' = match /\ lock' = lock /\ At(p, "load") /\ Loads(p)
            BY <2>2, LoadLocal DEF LoadState, redis
        <3>2. \A q \in Procs : q # p => proc'[q] = proc[q]
            BY <1>1, <3>1 DEF Loads, Becomes
        <3>3. Exclusive'
            BY <3>1, <3>2 DEF SessionInv, Exclusive, At, Critical
        <3>4. SavesMutation'
            BY <3>1, <3>2 DEF SessionInv, SavesMutation, At, Loads
        <3>5. KnowsFinalState'
            BY <3>1, <3>2 DEF SessionInv, KnowsFinalState, At, Finalizing, Loads
        <3> QED BY <3>3, <3>4, <3>5 DEF SessionInv
    <2>3. CASE SaveState(p)
        <3>1. /\ proc' = [proc EXCEPT ![p].pc = "release"] /\ lock' = lock
              /\ match' = proc[p].state /\ proc[p].pc = "save"
            BY <2>3 DEF SaveState, Goto, At
        <3>2. /\ \A q \in Procs : q # p => proc'[q] = proc[q]
              /\ proc'[p].pc = "release" /\ proc'[p].state = proc[p].state
            BY <1>1, <3>1 DEF Handler
        <3>3. \A q \in Procs : q # p => proc[q].pc \notin Critical
            BY <3>1 DEF SessionInv, Exclusive, Critical
        <3>4. Exclusive'
            BY <3>1, <3>2, <3>3 DEF SessionInv, Exclusive, Critical
        <3>5. SavesMutation'
            BY <3>2, <3>3 DEF SavesMutation, At, Critical
        <3>6. KnowsFinalState'
            <4>1. match.status = "ENDED" => match' = match
                BY <3>1, EndedIsFinal DEF SessionInv, SavesMutation, At
            <4> QED BY <3>1, <3>2, <3>3, <4>1
                    DEF SessionInv, KnowsFinalState, At, Finalizing, Critical
        <3> QED BY <3>4, <3>5, <3>6 DEF SessionInv
    <2>4. CASE ~AcquireLock(p) /\ ~LoadState(p) /\ ~SaveState(p)
        <3>1. Moves(p) /\ match' = match
            BY <1>6, <2>4, StepLocal, StepWrites
        <3>2. lock' = lock \/ proc[p].pc \in Critical
            BY <1>6, <2>4, StepWrites DEF ReleaseLock, AbortMutation, At, Critical
        <3>3. CASE LockBusy(p)
            <4>1. proc[p].pc = "acquire" /\ proc'[p].pc # "load"
                <5>1. /\ proc[p].pc = "acquire" /\ proc[p] \in Handler
                      /\ \/ proc' = [proc EXCEPT ![p].tries = @ + 1]
                         \/ proc' = [proc EXCEPT ![p] = Idle]
                    BY <1>1, <3>3 DEF LockBusy, At, Throw
                <5> QED BY <1>1, <5>1 DEF Idle, Handler
            <4>2. CASE proc'[p] = Idle
                BY <1>2, <3>1, <3>2, <4>2, InitialSound DEF Moves, Idle, Critical
            <4>3. CASE Follows(proc[p], proc'[p])
                BY <1>2, <3>1, <3>2, <4>1, <4>3 DEF Moves, Follows, Edge, Critical
            <4> QED BY <3>1, <4>2, <4>3 DEF Moves
        <3>4. CASE ~LockBusy(p)
            <4>1. ~At(p, "acquire") /\ ~At(p, "save")
                BY <1>6, <2>4, <3>4
                   DEF Step, CheckSocket, ReleaseLock, AbortMutation,
                       NotifyRound, TimerKeyGet, TimerRemove, TimerKeyDel, TimerAdd, TimerKeySet, BroadcastStart,
                       ClaimFinalization, ForfeitKeyGet, ForfeitRemove, ForfeitKeyDel, ForfeitAdd, ForfeitKeySet,
                       BroadcastEnded, CleanupUserMappings, PublishMatchEnded, ReleaseGuard, RegisterSocket,
                       LookupMatch, ResumeMatch, EmitResumed, CheckInMatch, LeaveQueue, GetMatchId,
                       UnregisterSocket, At
            <4> QED BY <1>3, <3>1, <3>2, <4>1
        <3> QED BY <3>3, <3>4
    <2> QED BY <2>1, <2>2, <2>3, <2>4
<1>7. CASE LockExpire
    <2>1. UNCHANGED <<match, proc>> /\ lock # NoProc /\ proc[lock].pc \notin Critical
        BY <1>7 DEF LockExpire
    <2>2. Exclusive'
        BY <2>1 DEF SessionInv, Exclusive
    <2> QED BY <2>1, <2>2 DEF SessionInv, SavesMutation, KnowsFinalState, At, Finalizing
<1>8. CASE UNCHANGED vars
    BY <1>8 DEF vars, redis, SessionInv, Exclusive, SavesMutation, KnowsFinalState, At, Finalizing
<1> QED BY <1>4, <1>5, <1>6, <1>7, <1>8, NextBySlot

LEMMA InitSession == Init => SessionInv
<1> SUFFICES ASSUME Init PROVE SessionInv
    OBVIOUS
<1>1. ASSUME NEW p \in Procs
      PROVE  proc[p].pc \in {"idle", "tget"} /\ proc[p].state.status # "ENDED"
    BY InitialSound DEF Init, Idle
<1> QED BY <1>1 DEF SessionInv, Exclusive, SavesMutation, KnowsFinalState, Critical, At, Finalizing

\* The rules that MatchSession computes with are the rules of MatchPlay.
LEMMA SameRules ==
    /\ Session!buildInitialState = buildInitialState
    /\ Session!Users = Users /\ Session!Move = Move
    /\ \A s, u, round : Session!playRejected(s, u, round) <=> playRejected(s, u, round)
    /\ \A s, u, move : Session!afterPlay(s, u, move) = afterPlay(s, u, move)
    /\ \A s, round : Session!timeoutApplies(s, round) <=> timeoutApplies(s, round)
    /\ \A s, round : Session!afterTimeout(s, round) = afterTimeout(s, round)
    /\ \A s, u : Session!forfeitApplies(s, u) <=> forfeitApplies(s, u)
    /\ \A s, u : Session!afterForfeit(s, u) = afterForfeit(s, u)
<1>1. /\ Session!Side = Side /\ Session!players = players /\ Session!NoUser = NoUser
      /\ Session!NoMove = NoMove /\ Session!NoReason = NoReason
      /\ Session!Move = Move /\ Session!Users = Users
      /\ Session!emptyRoundPlays = emptyRoundPlays /\ Session!winsAgainst = winsAgainst
    BY DEF Session!Side, Side, Session!players, players, Session!NoUser, NoUser, Session!NoMove,
           NoMove, Session!NoReason, NoReason, Session!Move, Move, Session!Users, Users,
           Session!Players, Players, Session!emptyRoundPlays, emptyRoundPlays,
           Session!winsAgainst, winsAgainst
<1>2. /\ \A side : Session!Opponent(side) = Opponent(side)
      /\ \A u : Session!playerIndex(u) = playerIndex(u)
    BY DEF Session!Opponent, Opponent, Session!playerIndex, playerIndex
<1>3. \A a, b : Session!resolveRps(a, b) = resolveRps(a, b)
    BY <1>1 DEF Session!resolveRps, resolveRps
<1>4. \A s, w, r : Session!endMatch(s, w, r) = endMatch(s, w, r)
    BY DEF Session!endMatch, endMatch
<1>5. \A s, w : Session!scoreAfter(s, w) = scoreAfter(s, w)
    BY <1>1 DEF Session!scoreAfter, scoreAfter
<1>6. \A sc : /\ Session!decided(sc) <=> decided(sc)
              /\ Session!bestOf3Winner(sc) = bestOf3Winner(sc)
    BY <1>1 DEF Session!decided, decided, Session!bestOf3Winner, bestOf3Winner
<1>7. \A s : Session!atRoundLimit(s) <=> atRoundLimit(s)
    BY DEF Session!atRoundLimit, atRoundLimit
<1>8. \A s, w : Session!resolveRound(s, w) = resolveRound(s, w)
    <2> SUFFICES ASSUME NEW s, NEW w PROVE Session!resolveRound(s, w) = resolveRound(s, w)
        OBVIOUS
    <2> DEFINE t == [s EXCEPT !.score = scoreAfter(s, w)]
    <2>1. Session!scoreAfter(s, w) = scoreAfter(s, w)
        BY <1>5
    <2>2. /\ Session!decided(t.score) <=> decided(t.score)
          /\ Session!bestOf3Winner(t.score) = bestOf3Winner(t.score)
          /\ Session!atRoundLimit(s) <=> atRoundLimit(s)
        BY <1>6, <1>7
    <2>3. \A win, r : Session!endMatch(t, win, r) = endMatch(t, win, r)
        BY <1>4
    <2> QED BY <1>1, <2>1, <2>2, <2>3, Zenon DEF Session!resolveRound, resolveRound
<1>9. \A s, plays, w : Session!appendRound(s, plays, w) = appendRound(s, plays, w)
    BY DEF Session!appendRound, appendRound
<1>10. /\ \A s, u, round : Session!playRejected(s, u, round) <=> playRejected(s, u, round)
       /\ \A s, u : Session!completesRound(s, u) <=> completesRound(s, u)
    BY <1>1, <1>2 DEF Session!playRejected, playRejected, Session!completesRound, completesRound
<1>11. \A s, u, move : Session!afterPlay(s, u, move) = afterPlay(s, u, move)
    <2> SUFFICES ASSUME NEW s, NEW u, NEW move
                 PROVE  Session!afterPlay(s, u, move) = afterPlay(s, u, move)
        OBVIOUS
    <2> DEFINE plays == [s.roundPlays EXCEPT ![playerIndex(u)] = move]
               w     == resolveRps(plays["A"], plays["B"])
               r     == [s EXCEPT !.roundPlays = plays, !.status = "RESOLVING"]
    <2>1. Session!playerIndex(u) = playerIndex(u)
        BY <1>2
    <2>2. Session!resolveRps(plays["A"], plays["B"]) = w
        BY <1>3
    <2>3. Session!appendRound(r, plays, w) = appendRound(r, plays, w)
        BY <1>9
    <2>4. Session!resolveRound(appendRound(r, plays, w), w) = resolveRound(appendRound(r, plays, w), w)
        BY <1>8
    <2>5. Session!completesRound(s, u) <=> completesRound(s, u)
        BY <1>10
    <2> QED BY <2>1, <2>2, <2>3, <2>4, <2>5, Zenon DEF Session!afterPlay, afterPlay
<1>12. \A plays : Session!resolveSilentPlayer(plays) = resolveSilentPlayer(plays)
    BY <1>1 DEF Session!resolveSilentPlayer, resolveSilentPlayer
<1>13. \A s, silent : Session!timeoutMatch(s, silent) = timeoutMatch(s, silent)
    BY <1>1, <1>2, <1>4 DEF Session!timeoutMatch, timeoutMatch
<1>14. \A s, round : Session!timeoutApplies(s, round) <=> timeoutApplies(s, round)
    BY DEF Session!timeoutApplies, timeoutApplies
<1>15. \A s, round : Session!afterTimeout(s, round) = afterTimeout(s, round)
    BY <1>2, <1>9, <1>12, <1>13, <1>14 DEF Session!afterTimeout, afterTimeout
<1>16. \A s, u : Session!forfeitApplies(s, u) <=> forfeitApplies(s, u)
    BY <1>2 DEF Session!forfeitApplies, forfeitApplies
<1>17. \A s, u : Session!afterForfeit(s, u) = afterForfeit(s, u)
    BY <1>1, <1>2, <1>4, <1>16 DEF Session!afterForfeit, afterForfeit
<1>18. Session!buildInitialState = buildInitialState
    BY <1>1 DEF Session!buildInitialState, buildInitialState
<1> QED BY <1>1, <1>10, <1>11, <1>14, <1>15, <1>16, <1>17, <1>18

\* What is stored changes by mutations only.
LEMMA StoresMutation ==
    ASSUME SessionInv, [Next]_vars
    PROVE  Mutation(match, match')
<1>1. ASSUME NEW p \in Procs, Acts(p) \/ Step(p) \/ CommandFails(p) \/ Crash(p)
      PROVE  Mutation(match, match')
    <2>1. match' = match \/ SaveState(p)
        BY <1>1, StepWrites, OtherWrites
    <2>2. CASE SaveState(p)
        BY <2>2 DEF SaveState, SessionInv, SavesMutation
    <2> QED BY <2>1, <2>2 DEF Mutation
<1>2. CASE LockExpire \/ UNCHANGED vars
    BY <1>2 DEF LockExpire, vars, redis, Mutation
<1> QED BY <1>1, <1>2, NextBySlot

\* Whatever the handlers interleave, fail at or die in, the stored state goes through
\* whole mutations of the state before it, as MatchSession says: mutateState's lock,
\* read, write and release amount to one step, for any number of handlers, as long as
\* the lock outlives the commands of a live holder.
THEOREM PlayImplementsSession ==
    ASSUME ~SlowHolder
    PROVE  Spec => ImplementsSession
<1>1. Init => Session!Init
    BY SameRules DEF Init, Session!Init
<1>2. SessionInv /\ [Next]_vars => [Session!Next]_match
    <2> SUFFICES ASSUME SessionInv, [Next]_vars, match' # match
                 PROVE  Session!Next
        OBVIOUS
    <2>1. Mutation(match, match')
        BY StoresMutation
    <2> QED BY <2>1, SameRules
            DEF Mutation, Session!Next, Session!Play, Session!Timeout, Session!Forfeit
<1> QED BY <1>1, <1>2, InitTypeInv, NextTypeInv, InitSession, SessionInvariant, PTL
        DEF Spec, ImplementsSession, Session!Spec

-----------------------------------------------------------------------------
(* finalizeMatch. *)

FinalInv == ToldFirst /\ EveryoneSeesFinalState /\ FreedOnlyAfterEnd

LEMMA FinalInvariant == TypeInv /\ SessionInv /\ FinalInv /\ [Next]_vars => FinalInv'
<1> SUFFICES ASSUME TypeInv, SessionInv, FinalInv, [Next]_vars PROVE FinalInv'
    OBVIOUS
<1>1. Ended => match' = match /\ Ended'
    BY StoresMutation, EndedIsFinal DEF Ended
<1>2. proc \in [Procs -> Handler] /\ \A p \in Procs : LocalOK(proc[p])
    BY DEF TypeInv, TypeOK
\* The handler that broadcasts, frees or publishes holds the stored state.
<1>3. ASSUME NEW p \in Procs, proc[p].pc \in {"bcast", "cleanup", "publish"}
      PROVE  Ended /\ proc[p].state = match
    <2>1. proc[p].state.status = "ENDED"
        BY <1>2, <1>3 DEF LocalOK, Located
    <2> QED BY <1>3, <2>1 DEF SessionInv, KnowsFinalState, At, Finalizing, Ended
\* What is told, published and freed once the match has ended.
<1>4. ASSUME NEW p \in Procs, Becomes(p, proc'[p]),
             proc'[p].pc = "cleanup" => proc'[p].state \in told',
             told \subseteq told',
             \A s \in told' \cup published' : s \in told \cup published \/ (Ended /\ s = match),
             \A u \in Players : ~byUser'[u] => ~byUser[u] \/ (Ended /\ match \in told)
      PROVE  FinalInv'
    <2>1. \A q \in Procs : q # p => proc'[q] = proc[q]
        BY <1>2, <1>4 DEF Becomes
    <2>2. ToldFirst'
        BY <1>4, <2>1 DEF FinalInv, ToldFirst, At
    <2>3. EveryoneSeesFinalState'
        BY <1>1, <1>4 DEF FinalInv, EveryoneSeesFinalState
    <2>4. FreedOnlyAfterEnd'
        BY <1>1, <1>4 DEF FinalInv, FreedOnlyAfterEnd
    <2> QED BY <2>2, <2>3, <2>4 DEF FinalInv
<1>5. ASSUME NEW p \in Procs, Moves(p), ~At(p, "bcast")
      PROVE  proc'[p].pc # "cleanup"
    BY <1>5 DEF Moves, Follows, Edge, At, Idle
<1>6. ASSUME NEW p \in Procs, Acts(p) PROVE FinalInv'
    <2>1. UNCHANGED <<told, published, byUser>>
        BY <1>6 DEF Acts, SubmitPlay, FireTimeout, FireForfeit, Connect, Disconnect, redis, outputs
    <2> QED BY <1>4, <1>6, <2>1, BeginLocal DEF Begins
<1>7. ASSUME NEW p \in Procs, CommandFails(p) PROVE FinalInv'
    <2>1. UNCHANGED <<told, published>>
        BY <1>7, OtherWrites
    <2>2. Moves(p) /\ proc'[p].pc # "cleanup"
        <3>1. \/ proc' = [proc EXCEPT ![p] = Idle]
              \/ \E label \in {"fget", "start", "unguard"} : proc' = [proc EXCEPT ![p].pc = label]
            BY <1>7 DEF CommandFails, Throw, Goto
        <3>2. proc'[p].pc # "cleanup"
            BY <1>2, <3>1 DEF Idle, Handler
        <3> QED BY <1>7, <3>2, FailureLocal
    <2>3. byUser \in [Players -> BOOLEAN]
        BY DEF TypeInv, TypeOK
    <2>4. \A u \in Players : ~byUser'[u] => ~byUser[u] \/ At(p, "cleanup")
        BY <1>7, <2>3 DEF CommandFails, At
    <2>5. At(p, "cleanup") => Ended /\ match \in told
        BY <1>3 DEF At, FinalInv, ToldFirst
    <2> QED BY <1>4, <2>1, <2>2, <2>4, <2>5 DEF Moves
<1>8. ASSUME NEW p \in Procs, Crash(p) PROVE FinalInv'
    <2>1. UNCHANGED <<redis, outputs>> /\ Becomes(p, Idle)
        BY <1>8, Zenon DEF Crash, Becomes
    <2>2. proc'[p] = Idle
        BY <1>2, <2>1 DEF Becomes
    <2> QED BY <1>4, <2>1, <2>2 DEF redis, outputs, Idle
<1>9. ASSUME NEW p \in Procs, Step(p) PROVE FinalInv'
    <2>1. CASE LoadState(p)
        <3>1. UNCHANGED <<told, published, byUser>>
            BY <2>1 DEF LoadState, redis, outputs
        <3> QED BY <1>4, <2>1, <3>1, LoadLocal DEF Loads
    <2>2. CASE BroadcastEnded(p)
        <3>1. /\ At(p, "bcast") /\ told' = told \cup {proc[p].state}
              /\ UNCHANGED <<published, byUser>>
            BY <2>2 DEF BroadcastEnded, redis
        <3>2. Moves(p) /\ proc'[p].state \in told'
            <4>1. Moves(p)
                BY <1>9, <3>1, StepLocal DEF LoadState, At
            <4>2. proc'[p].state = proc[p].state
                BY <1>2, <2>2 DEF BroadcastEnded, Goto, Handler
            <4> QED BY <3>1, <4>1, <4>2
        <3> QED BY <1>3, <1>4, <3>1, <3>2 DEF Moves, At
    <2>3. CASE CleanupUserMappings(p)
        <3>1. At(p, "cleanup") /\ UNCHANGED <<told, published>>
            BY <2>3 DEF CleanupUserMappings, outputs
        <3>2. Moves(p) /\ proc'[p].pc # "cleanup"
            BY <1>5, <1>9, <3>1, StepLocal DEF LoadState, At
        <3> QED BY <1>3, <1>4, <3>1, <3>2 DEF Moves, At, FinalInv, ToldFirst
    <2>4. CASE PublishMatchEnded(p)
        <3>1. At(p, "publish") /\ published' = published \cup {proc[p].state}
              /\ UNCHANGED <<told, byUser>>
            BY <2>4 DEF PublishMatchEnded, redis
        <3>2. Moves(p) /\ proc'[p].pc # "cleanup"
            BY <1>5, <1>9, <3>1, StepLocal DEF LoadState, At
        <3> QED BY <1>3, <1>4, <3>1, <3>2 DEF Moves, At
    <2>5. CASE ~LoadState(p) /\ ~BroadcastEnded(p) /\ ~CleanupUserMappings(p) /\ ~PublishMatchEnded(p)
        <3>1. Moves(p) /\ UNCHANGED <<told, published, byUser>>
            BY <1>9, <2>5, StepLocal, StepWrites
        <3>2. ~At(p, "bcast")
            BY <1>9, <2>5 DEF Step, At, CheckSocket, AcquireLock, LockBusy, SaveState, ReleaseLock,
               AbortMutation, NotifyRound, TimerKeyGet, TimerRemove, TimerKeyDel, TimerAdd,
               TimerKeySet, BroadcastStart, ClaimFinalization, ForfeitKeyGet, ForfeitRemove,
               ForfeitKeyDel, ForfeitAdd, ForfeitKeySet, ReleaseGuard, RegisterSocket, LookupMatch,
               ResumeMatch, EmitResumed, CheckInMatch, LeaveQueue, GetMatchId, UnregisterSocket
        <3> QED BY <1>4, <1>5, <3>1, <3>2 DEF Moves
    <2> QED BY <2>1, <2>2, <2>3, <2>4, <2>5
<1>10. CASE LockExpire \/ UNCHANGED vars
    BY <1>10 DEF LockExpire, vars, redis, outputs, FinalInv, ToldFirst, EveryoneSeesFinalState,
       FreedOnlyAfterEnd, Ended, At
<1> QED BY <1>6, <1>7, <1>8, <1>9, <1>10, NextBySlot

LEMMA InitFinal == Init => FinalInv
<1> SUFFICES ASSUME Init PROVE FinalInv
    OBVIOUS
<1>1. \A p \in Procs : proc[p].pc \in {"idle", "tget"}
    BY DEF Init, Idle
<1>2. \A u \in Players : byUser[u]
    BY DEF Init
<1> QED BY <1>1, <1>2 DEF Init, FinalInv, ToldFirst, EveryoneSeesFinalState, FreedOnlyAfterEnd, At

\* The players and job-runner are given the one final state of the match, for any
\* number of handlers, failed finalizations that are run again and crashes.
THEOREM FinalStateIsSeen ==
    ASSUME ~SlowHolder
    PROVE  Spec => []EveryoneSeesFinalState
<1>1. FinalInv => EveryoneSeesFinalState
    BY DEF FinalInv
<1> QED BY <1>1, InitTypeInv, NextTypeInv, InitSession, SessionInvariant, InitFinal, FinalInvariant,
           PTL DEF Spec

\* Nobody can queue again before the match is over and its end has been sent, also
\* when cleanupUserMappings fails between the two players.
THEOREM FreedAfterEnd ==
    ASSUME ~SlowHolder
    PROVE  Spec => []FreedOnlyAfterEnd
<1>1. FinalInv => FreedOnlyAfterEnd
    BY DEF FinalInv
<1> QED BY <1>1, InitTypeInv, NextTypeInv, InitSession, SessionInvariant, InitFinal, FinalInvariant,
           PTL DEF Spec

-----------------------------------------------------------------------------
(* Sockets. *)

LEMMA SocketInvariant == TypeInv /\ ClosedSockets /\ [Next]_vars => ClosedSockets'
<1> SUFFICES ASSUME TypeInv, ClosedSockets, [Next]_vars PROVE ClosedSockets'
    OBVIOUS
<1>1. /\ proc \in [Procs -> Handler] /\ \A p \in Procs : LocalOK(proc[p])
      /\ opened \in [Players -> Nat] /\ live \in [Players -> SUBSET Nat]
      /\ \A p \in Procs : proc[p].sid \in Nat
    BY DEF TypeInv, TypeOK, Handler
<1>2. \A p \in Procs : proc[p].pc \in Disconnecting => proc[p].user \in Players
    BY <1>1 DEF LocalOK, Located, Fields
<1>3. ASSUME NEW p \in Procs, Becomes(p, proc'[p]), UNCHANGED <<opened, live>>,
             proc'[p].pc \in Disconnecting =>
                /\ proc[p].pc \in Disconnecting
                /\ proc'[p].user = proc[p].user /\ proc'[p].sid = proc[p].sid
      PROVE  ClosedSockets'
    <2>1. \A q \in Procs : q # p => proc'[q] = proc[q]
        BY <1>1, <1>3 DEF Becomes
    <2> QED BY <1>3, <2>1 DEF ClosedSockets
<1>4. ASSUME NEW p \in Procs, Moves(p), UNCHANGED <<opened, live>>
      PROVE  ClosedSockets'
    <2>1. proc'[p].pc \in Disconnecting =>
             /\ proc[p].pc \in Disconnecting
             /\ proc'[p].user = proc[p].user /\ proc'[p].sid = proc[p].sid
        BY <1>4 DEF Moves, Follows, Edge, Idle, Disconnecting
    <2> QED BY <1>3, <1>4, <2>1 DEF Moves
<1>5. ASSUME NEW p \in Procs, CommandFails(p) \/ Crash(p) PROVE ClosedSockets'
    <2>1. Moves(p)
        BY <1>5, FailureLocal
    <2>2. UNCHANGED <<opened, live>>
        <3>1. CASE CommandFails(p)
            BY <3>1 DEF CommandFails, clients
        <3>2. CASE Crash(p)
            <4>1. UNCHANGED clients
                BY <3>2, Zenon DEF Crash
            <4> QED BY <4>1 DEF clients
        <3> QED BY <1>5, <3>1, <3>2
    <2> QED BY <1>4, <2>1, <2>2
<1>6. ASSUME NEW p \in Procs, Step(p) PROVE ClosedSockets'
    <2>1. UNCHANGED <<opened, live>>
        BY <1>6, StepWrites
    <2>2. CASE LoadState(p)
        BY <1>3, <2>1, <2>2, LoadLocal DEF Loads, Disconnecting
    <2> QED BY <1>4, <1>6, <2>1, <2>2, StepLocal
<1>7. ASSUME NEW p \in Procs, NEW u \in scenario.roaming, Connect(p, u) PROVE ClosedSockets'
    <2>1. u \in Players
        BY BoundsAssumption DEF TypeInv, TypeOK
    <2>2. /\ opened' = [opened EXCEPT ![u] = opened[u] + 1]
          /\ live' = [live EXCEPT ![u] = live[u] \cup {opened[u] + 1}]
        BY <1>7 DEF Connect
    <2>3. Acts(p)
        BY <1>7 DEF Acts
    <2>4. proc'[p].pc \notin Disconnecting
        BY <1>1, <1>7 DEF Connect, Begin, Idle, Disconnecting
    <2>5. \A q \in Procs : q # p => proc'[q] = proc[q]
        BY <1>1, <2>3, BeginLocal DEF Begins, Becomes
    <2>6. opened[u] \in Nat
        BY <1>1, <2>1
    <2>7. ASSUME NEW v \in Players PROVE live'[v] \subseteq 1..opened'[v]
        BY <1>1, <2>1, <2>2, <2>6 DEF ClosedSockets
    <2>8. ASSUME NEW q \in Procs, proc'[q].pc \in Disconnecting
          PROVE  proc'[q].sid \notin live'[proc'[q].user] /\ proc'[q].sid <= opened'[proc'[q].user]
        <3>1. proc'[q] = proc[q] /\ proc[q].user \in Players /\ proc[q].sid \in Nat
            BY <1>1, <1>2, <2>4, <2>5, <2>8
        <3>2. /\ proc[q].sid \notin live[proc[q].user] /\ proc[q].sid <= opened[proc[q].user]
            BY <2>8, <3>1 DEF ClosedSockets
        <3> QED BY <1>1, <2>1, <2>2, <2>6, <3>1, <3>2
    <2> QED BY <2>7, <2>8 DEF ClosedSockets
<1>8. ASSUME NEW p \in Procs, NEW u \in scenario.roaming, NEW sid \in 1..MaxSockets,
             Disconnect(p, u, sid)
      PROVE  ClosedSockets'
    <2>1. u \in Players
        BY BoundsAssumption DEF TypeInv, TypeOK
    <2>2. /\ sid \in live[u] /\ live' = [live EXCEPT ![u] = live[u] \ {sid}] /\ opened' = opened
        BY <1>8 DEF Disconnect
    <2>3. Acts(p)
        BY <1>8 DEF Acts
    <2>4. proc'[p].user = u /\ proc'[p].sid = sid
        BY <1>1, <1>8 DEF Disconnect, Begin, Idle
    <2>5. \A q \in Procs : q # p => proc'[q] = proc[q]
        BY <1>1, <2>3, BeginLocal DEF Begins, Becomes
    <2>6. \A v \in Players : live'[v] \subseteq live[v]
        BY <1>1, <2>1, <2>2
    <2>7. sid <= opened[u] /\ sid \notin live'[u]
        BY <1>1, <2>1, <2>2 DEF ClosedSockets
    <2> QED BY <1>2, <2>2, <2>4, <2>5, <2>6, <2>7 DEF ClosedSockets
<1>9. ASSUME NEW p \in Procs, Acts(p) PROVE ClosedSockets'
    <2>1. CASE \E u \in scenario.moving, round \in 1..MAX_ROUNDS, move \in ClientMoves :
                  SubmitPlay(p, u, round, move)
        <3>1. UNCHANGED <<opened, live>> /\ proc'[p].pc \notin Disconnecting
            BY <1>1, <2>1 DEF SubmitPlay, clients, Begin, Idle, Disconnecting
        <3> QED BY <1>3, <1>9, <3>1, BeginLocal DEF Begins
    <2>2. CASE \E j \in tjobs : FireTimeout(p, j)
        <3>1. UNCHANGED <<opened, live>> /\ proc'[p].pc \notin Disconnecting
            BY <1>1, <2>2 DEF FireTimeout, clients, Begin, Idle, Disconnecting
        <3> QED BY <1>3, <1>9, <3>1, BeginLocal DEF Begins
    <2>3. CASE \E j \in fjobs : FireForfeit(p, j)
        <3>1. UNCHANGED <<opened, live>> /\ proc'[p].pc \notin Disconnecting
            BY <1>1, <2>3 DEF FireForfeit, clients, Begin, Idle, Disconnecting
        <3> QED BY <1>3, <1>9, <3>1, BeginLocal DEF Begins
    <2> QED BY <1>7, <1>8, <1>9, <2>1, <2>2, <2>3 DEF Acts
<1>10. CASE LockExpire \/ UNCHANGED vars
    BY <1>10 DEF LockExpire, vars, clients, ClosedSockets
<1> QED BY <1>5, <1>6, <1>9, <1>10, NextBySlot

\* The disconnect handler of an old socket, however late it runs, never deletes the
\* key of a socket that is open: nothing but the connect handler of another socket of
\* that player, newer or older, takes an open socket off record.
THEOREM LiveSocketIsKept == Spec => LiveSocketStaysRegistered
<1>1. Init => ClosedSockets
    <2> SUFFICES ASSUME Init PROVE ClosedSockets
        OBVIOUS
    <2>1. \A p \in Procs : proc[p].pc \in {"idle", "tget"}
        BY DEF Init, Idle
    <2>2. \A u \in Players : live[u] \subseteq 1..opened[u]
        BY DEF Init
    <2> QED BY <2>1, <2>2 DEF ClosedSockets, Disconnecting
<1> DEFINE Replaced(u) ==
        \E p \in Procs : At(p, "register") /\ proc[p].user = u /\ sock'[u] = proc[p].sid
<1>2. TypeInv /\ ClosedSockets /\ [Next]_vars =>
         [\A u \in Players : sock[u] \in live[u] => sock'[u] = sock[u] \/ Replaced(u)]_vars
    <2> SUFFICES ASSUME TypeInv, ClosedSockets, Next, NEW u \in Players, sock[u] \in live[u]
                 PROVE  sock'[u] = sock[u] \/ Replaced(u)
        OBVIOUS
    <2>1. sock \in [Players -> Nat]
        BY DEF TypeInv, TypeOK
    <2>2. ASSUME NEW p \in Procs, RegisterSocket(p) PROVE sock'[u] = sock[u] \/ Replaced(u)
        <3>1. At(p, "register") /\ sock' = [sock EXCEPT ![proc[p].user] = proc[p].sid]
            BY <2>2 DEF RegisterSocket
        <3>2. CASE proc[p].user = u
            BY <2>1, <3>1, <3>2
        <3>3. CASE proc[p].user # u
            BY <2>1, <3>1, <3>3
        <3> QED BY <3>2, <3>3
    <2>3. ASSUME NEW p \in Procs, LeaveQueue(p) \/ UnregisterSocket(p) PROVE sock'[u] = sock[u]
        <3>1. proc[p].sid \notin live[proc[p].user] /\ sock' = Unregistered(p)
            BY <2>3 DEF LeaveQueue, UnregisterSocket, At, ClosedSockets, Disconnecting
        <3> QED BY <2>1, <3>1 DEF Unregistered
    <2>4. ASSUME NEW p \in Procs, Acts(p) \/ Step(p) \/ CommandFails(p) \/ Crash(p)
          PROVE  sock'[u] = sock[u] \/ Replaced(u)
        <3> HIDE DEF Replaced
        <3> QED BY <2>2, <2>3, <2>4, StepWrites, OtherWrites
    <2>5. CASE LockExpire
        BY <2>5 DEF LockExpire
    <2> QED BY <2>4, <2>5, NextBySlot
<1>3. TypeInv /\ ClosedSockets /\ [Next]_vars =>
         [\A u \in Players : sock[u] \in live[u] =>
             \/ sock'[u] = sock[u]
             \/ \E p \in Procs : At(p, "register") /\ proc[p].user = u /\ sock'[u] = proc[p].sid]_vars
    BY <1>2
<1> QED BY <1>1, <1>3, InitTypeInv, NextTypeInv, SocketInvariant, PTL
        DEF Spec, LiveSocketStaysRegistered
=============================================================================
