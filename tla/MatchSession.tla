----------------------------- MODULE MatchSession -----------------------------
(***************************************************************************)
(* What a match session promises: the stored MatchState changes only by    *)
(* whole mutations, one at a time, each computed from the state the        *)
(* previous one stored.  MatchPlay, with its lock, its two-step            *)
(* read-modify-write and its job workers, is shown to implement this.      *)
(***************************************************************************)
EXTENDS MatchRules, FiniteSets

VARIABLE match    \* the value of match:{id}:state

Init == match = buildInitialState

\* A play that the mutator of submitPlay accepts.
Play(u, round, move) ==
    /\ ~playRejected(match, u, round)
    /\ match' = afterPlay(match, u, move)

\* A round-timeout job that finds its round still open.
Timeout(round) ==
    /\ timeoutApplies(match, round)
    /\ match' = afterTimeout(match, round)

\* A disconnect-forfeit job that finds the match still open.
Forfeit(u) ==
    /\ forfeitApplies(match, u)
    /\ match' = afterForfeit(match, u)

Next ==
    \/ \E u \in Users, round \in 1..MAX_ROUNDS, move \in Move : Play(u, round, move)
    \/ \E round \in 1..MAX_ROUNDS : Timeout(round)
    \/ \E u \in Users : Forfeit(u)

Spec == Init /\ [][Next]_match

-----------------------------------------------------------------------------
Ended == match.status = "ENDED"

\* The number of recorded rounds a side has won.
WinsOf(rounds, side) == Cardinality({i \in DOMAIN rounds : rounds[i].winner = side})

\* The side that a timed out round was given to, when there is one.
WonByTimeout(side) == match.endReason = "FORFEIT_TIMEOUT" /\ match.winnerId = players[side]

TypeOK == match \in MatchState

\* The score that is broadcast and persisted is the number of recorded rounds each
\* side won, except that the round a timeout gives away is recorded and not scored;
\* the records are numbered 1, 2, 3, ... without a gap or a repetition, and the open
\* round is the one after the last record (rounds and score are updated by different
\* functions: trySubmitPlay, applyPhaseTimeout, resolveRound).
ScoreMatchesRounds ==
    /\ \A side \in Side :
          WinsOf(match.rounds, side)
              = match.score[side] + (IF WonByTimeout(side) THEN 1 ELSE 0)
    /\ \A i \in DOMAIN match.rounds : match.rounds[i].roundNumber = i
    /\ ~Ended => match.currentRound = Len(match.rounds) + 1

\* Winner, reason and score of an ended match agree: a BEST_OF_3 winner has
\* WINS_TO_END and the loser has not, MAX_ROUNDS_DRAW only comes after MAX_ROUNDS
\* recorded rounds with nobody at WINS_TO_END, a forfeit is never declared once a
\* side has won, and an open match has neither winner nor reason.
OutcomeConsistent ==
    LET reached(side) == match.score[side] = WINS_TO_END IN
    /\ ~Ended => match.winnerId = NoUser /\ match.endReason = NoReason
    /\ Ended => match.endReason # NoReason
    /\ match.endReason = "BEST_OF_3" <=> \E side \in Side : reached(side)
    /\ \A side \in Side : reached(side) =>
          match.winnerId = players[side] /\ ~reached(Opponent(side))
    /\ match.endReason = "MAX_ROUNDS_DRAW" =>
          match.winnerId = NoUser /\ Len(match.rounds) = MAX_ROUNDS
    /\ match.endReason = "DISCONNECT_FORFEIT" => match.winnerId # NoUser

\* Seen from the other slot, a state is the same game with the sides swapped.
SwapSides(f) == [side \in Side |-> f[Opponent(side)]]
SwapUser(u) == CASE u = UserA -> UserB [] u = UserB -> UserA [] OTHER -> u
SwapWinner(w) == IF w \in Side THEN Opponent(w) ELSE w
SwapRecord(r) == [r EXCEPT !.moves = SwapSides(@), !.winner = SwapWinner(@)]
SwapRounds(rounds) == [i \in DOMAIN rounds |-> SwapRecord(rounds[i])]
Swap(s) == [s EXCEPT !.score = SwapSides(@), !.roundPlays = SwapSides(@),
                     !.winnerId = SwapUser(@), !.rounds = SwapRounds(@)]

\* Neither slot of the match is privileged: whatever a player's move, a timeout or a
\* disconnection does to the state, the same event from the other slot does to the
\* swapped state (players[0] and players[1] are treated by separate branches of
\* resolveRound, resolveSilentPlayer and transitionMatchState).
SidesInterchangeable ==
    \A side \in Side :
        LET u == players[side]
            v == players[Opponent(side)]
        IN  /\ \A move \in Move :
                 /\ playRejected(match, u, match.currentRound)
                      <=> playRejected(Swap(match), v, match.currentRound)
                 /\ ~playRejected(match, u, match.currentRound) =>
                      Swap(afterPlay(match, u, move)) = afterPlay(Swap(match), v, move)
            /\ Swap(afterTimeout(match, match.currentRound))
                 = afterTimeout(Swap(match), match.currentRound)
            /\ Swap(afterForfeit(match, u)) = afterForfeit(Swap(match), v)
=============================================================================
