------------------------------ MODULE MatchRules ------------------------------
(***************************************************************************)
(* The rules of one match: the game itself (rps/resolve.ts), the match     *)
(* state machine (match-session/match-state-machine.ts) and the mutators   *)
(* that match-play.service.ts hands to MatchSessionService.mutateState.    *)
(* Everything here is a pure function of a MatchState.  Display names,     *)
(* ratings, time stamps and deadlines are left out: no rule reads them.    *)
(***************************************************************************)
EXTENDS Naturals, Sequences

CONSTANTS
    UserA, UserB,   \* players[0].userId and players[1].userId
    OtherUsers,     \* users who may send a play for a match they are not in
    MAX_ROUNDS,     \* 5 in match-session.types.ts
    WINS_TO_END     \* 2 in match-session.types.ts

ASSUME PlayersAssumption == UserA # UserB /\ {UserA, UserB} \cap OtherUsers = {}
ASSUME RoundsAssumption == MAX_ROUNDS \in Nat \ {0} /\ WINS_TO_END \in Nat \ {0}

Players == {UserA, UserB}
Users == Players \cup OtherUsers
NoUser == "no user"
ASSUME NoUserAssumption == NoUser \notin Users

Side == {"A", "B"}
Opponent(side) == IF side = "A" THEN "B" ELSE "A"
players == [side \in Side |-> IF side = "A" THEN UserA ELSE UserB]

\* The index of a user in state.players: a side, or "none" for a stranger.
playerIndex(u) == IF u = UserA THEN "A" ELSE IF u = UserB THEN "B" ELSE "none"

-----------------------------------------------------------------------------
(* The game. *)

Move == {"rock", "paper", "scissors"}
NoMove == "no move"

winsAgainst == [m \in Move |-> CASE m = "rock"     -> "scissors"
                                 [] m = "paper"    -> "rock"
                                 [] m = "scissors" -> "paper"]

\* The side that wins a round, or "DRAW".
resolveRps(moveA, moveB) ==
    IF moveA = moveB THEN "DRAW" ELSE IF winsAgainst[moveA] = moveB THEN "A" ELSE "B"

-----------------------------------------------------------------------------
(* The state of a match, as stored under match:{id}:state. *)

EndReason == {"BEST_OF_3", "FORFEIT_TIMEOUT", "DISCONNECT_FORFEIT", "MAX_ROUNDS_DRAW"}
NoReason == "no reason"

ResolvedRound ==
    [roundNumber : 1..MAX_ROUNDS, moves : [Side -> Move \cup {NoMove}],
     winner : Side \cup {"DRAW"}]

MatchState ==
    [status       : {"WAITING_PLAYS", "RESOLVING", "ENDED"},
     currentRound : 1..MAX_ROUNDS,
     score        : [Side -> 0..WINS_TO_END],
     roundPlays   : [Side -> Move \cup {NoMove}],
     rounds       : Seq(ResolvedRound),
     winnerId     : Players \cup {NoUser},
     endReason    : EndReason \cup {NoReason}]

emptyRoundPlays == [side \in Side |-> NoMove]

\* MatchSessionService.buildInitialState
buildInitialState ==
    [status |-> "WAITING_PLAYS", currentRound |-> 1, score |-> [side \in Side |-> 0],
     roundPlays |-> emptyRoundPlays, rounds |-> << >>,
     winnerId |-> NoUser, endReason |-> NoReason]

endMatch(s, winnerId, reason) ==
    [s EXCEPT !.status = "ENDED", !.winnerId = winnerId, !.endReason = reason]

scoreAfter(s, winner) ==
    [side \in Side |-> s.score[side] + (IF winner = side THEN 1 ELSE 0)]

decided(score) == score["A"] = WINS_TO_END \/ score["B"] = WINS_TO_END
bestOf3Winner(score) == players[IF score["A"] = WINS_TO_END THEN "A" ELSE "B"]

\* Mutant: the limit is tested with > instead of >=.
atRoundLimit_Exclusive(s) == s.currentRound > MAX_ROUNDS

atRoundLimit(s) == s.currentRound >= MAX_ROUNDS

\* transitionMatchState on ROUND_RESOLVED.  Its InvalidMatchTransitionError cannot
\* occur: both callers test the status of the state they pass to it first.
resolveRound(s, winner) ==
    LET t == [s EXCEPT !.score = scoreAfter(s, winner)] IN
    IF decided(t.score) THEN endMatch(t, bestOf3Winner(t.score), "BEST_OF_3")
    ELSE IF atRoundLimit(s) THEN endMatch(t, NoUser, "MAX_ROUNDS_DRAW")
    ELSE [t EXCEPT !.status = "WAITING_PLAYS", !.currentRound = @ + 1,
                   !.roundPlays = emptyRoundPlays]

\* transitionMatchState on TIMEOUT; silent is a side or "BOTH".
timeoutMatch(s, silent) ==
    endMatch(s, IF silent = "BOTH" THEN NoUser ELSE players[Opponent(silent)],
             "FORFEIT_TIMEOUT")

\* The record a resolved (or timed out) round adds to state.rounds.
appendRound(s, plays, winner) ==
    [s EXCEPT !.rounds = Append(@, [roundNumber |-> s.currentRound, moves |-> plays,
                                    winner |-> winner])]

-----------------------------------------------------------------------------
(* The mutators of match-play.service.ts. *)

\* Mutant: the mutator of submitPlay does not look at the status.
playRejected_AnyStatus(s, u, round) ==
    ~(/\ playerIndex(u) # "none"
      /\ round = s.currentRound
      /\ s.roundPlays[playerIndex(u)] = NoMove)

\* submitPlay's mutator throws NOT_IN_MATCH, WRONG_ROUND or ALREADY_PLAYED.
playRejected(s, u, round) ==
    ~(/\ playerIndex(u) # "none"
      /\ s.status = "WAITING_PLAYS" /\ round = s.currentRound
      /\ s.roundPlays[playerIndex(u)] = NoMove)

\* Both slots are filled, so the play resolves the round.
completesRound(s, u) == s.roundPlays[Opponent(playerIndex(u))] # NoMove

\* Mutant: the record of the round is added to the state after the transition.
afterPlay_RecordLast(s, u, move) ==
    LET plays  == [s.roundPlays EXCEPT ![playerIndex(u)] = move]
        winner == resolveRps(plays["A"], plays["B"])
    IN  IF completesRound(s, u)
        THEN appendRound(resolveRound([s EXCEPT !.roundPlays = plays, !.status = "RESOLVING"],
                                      winner), plays, winner)
        ELSE [s EXCEPT !.roundPlays = plays]

\* The state an accepted play leaves behind: the move alone, or the resolved round
\* (PLAYS_RECEIVED and ROUND_RESOLVED in one mutation; RESOLVING is never stored).
afterPlay(s, u, move) ==
    LET plays  == [s.roundPlays EXCEPT ![playerIndex(u)] = move]
        winner == resolveRps(plays["A"], plays["B"])
    IN  IF completesRound(s, u)
        THEN resolveRound(appendRound([s EXCEPT !.roundPlays = plays, !.status = "RESOLVING"],
                                      plays, winner), winner)
        ELSE [s EXCEPT !.roundPlays = plays]

\* Mutant: the first test does not look at the other slot.
resolveSilentPlayer_FirstSlot(plays) ==
    IF plays["A"] = NoMove THEN "A"
    ELSE IF plays["B"] = NoMove /\ plays["A"] # NoMove THEN "B"
    ELSE "BOTH"

resolveSilentPlayer(plays) ==
    IF plays["A"] = NoMove /\ plays["B"] # NoMove THEN "A"
    ELSE IF plays["B"] = NoMove /\ plays["A"] # NoMove THEN "B"
    ELSE "BOTH"

\* Mutant: only a round in which somebody moved can time out.
timeoutApplies_SomePlay(s, round) ==
    /\ s.status = "WAITING_PLAYS"
    /\ s.currentRound = round
    /\ s.roundPlays # emptyRoundPlays

\* A timeout armed for a round the match has left changes nothing.
timeoutApplies(s, round) == s.status = "WAITING_PLAYS" /\ s.currentRound = round

\* applyPhaseTimeout's mutator: one silent player loses the round and the match,
\* two silent players end it without a winner and without a round record.
afterTimeout(s, round) ==
    IF ~timeoutApplies(s, round) THEN s
    ELSE LET silent == resolveSilentPlayer(s.roundPlays) IN
         IF silent = "BOTH" THEN timeoutMatch(s, silent)
         ELSE timeoutMatch(appendRound(s, s.roundPlays, Opponent(silent)), silent)

\* Mutant: the forfeit does not look at the status of the match.
forfeitApplies_AnyStatus(s, u) == playerIndex(u) # "none"

\* handleDisconnectForfeit's mutator
forfeitApplies(s, u) == s.status # "ENDED" /\ playerIndex(u) # "none"

afterForfeit(s, u) ==
    IF ~forfeitApplies(s, u) THEN s
    ELSE endMatch(s, players[Opponent(playerIndex(u))], "DISCONNECT_FORFEIT")
=============================================================================
