-------------------------- MODULE MatchSessionProofs --------------------------
(***************************************************************************)
(* The session keeps its books right for every MAX_ROUNDS and WINS_TO_END: *)
(* the inductive invariant IInv and its consequences.                      *)
(***************************************************************************)
EXTENDS MatchSession, FiniteSetTheorems, SequenceTheorems, TLAPS

(* The rules. *)

\* A state that may be stored: never half way through a resolution, and nobody has
\* the wins that end the match while it is open.
Sound(s) ==
    /\ s \in MatchState
    /\ s.status # "RESOLVING"
    /\ s.status = "WAITING_PLAYS" => \A side \in Side : s.score[side] < WINS_TO_END

LEMMA SideFacts ==
    /\ \A side \in Side : Opponent(side) \in Side /\ Opponent(side) # side
    /\ \A side \in Side : players[side] \in Players
    /\ players["A"] # players["B"]
    /\ NoUser \notin Players
    /\ \A u : playerIndex(u) # "none" => playerIndex(u) \in Side
BY PlayersAssumption, NoUserAssumption
   DEF Side, Opponent, players, Players, Users, playerIndex

\* The game always has an outcome.
LEMMA RpsOutcome ==
    ASSUME NEW a, NEW b
    PROVE  resolveRps(a, b) \in Side \cup {"DRAW"}
BY DEF resolveRps, Side

\* The record of a round is a ResolvedRound.
LEMMA AppendRoundType ==
    ASSUME NEW s \in MatchState, NEW plays \in [Side -> Move \cup {NoMove}],
           NEW w \in Side \cup {"DRAW"}
    PROVE  /\ appendRound(s, plays, w) \in MatchState
           /\ appendRound(s, plays, w).score = s.score
           /\ appendRound(s, plays, w).status = s.status
<1> DEFINE r == [roundNumber |-> s.currentRound, moves |-> plays, winner |-> w]
<1>1. r \in ResolvedRound /\ s.rounds \in Seq(ResolvedRound)
    BY DEF ResolvedRound, MatchState
<1>2. Append(s.rounds, r) \in Seq(ResolvedRound)
    BY <1>1
<1>3. appendRound(s, plays, w) = [s EXCEPT !.rounds = Append(s.rounds, r)]
    BY DEF appendRound
<1> HIDE DEF r
<1> QED BY <1>2, <1>3 DEF MatchState

-----------------------------------------------------------------------------

\* What TypeOK, ScoreMatchesRounds and OutcomeConsistent do not say and need: a
\* stored state is never half way through a resolution, and in an open match nobody
\* has the wins that end it.
OpenMatch ==
    /\ match.status # "RESOLVING"
    /\ match.status = "WAITING_PLAYS" => \A side \in Side : match.score[side] < WINS_TO_END

\* Under it the three invariants are inductive.
IInv == TypeOK /\ OpenMatch /\ ScoreMatchesRounds /\ OutcomeConsistent

-----------------------------------------------------------------------------
(* Operators. *)

\* The number of wins is a number, and a record adds one to the side that won it.
LEMMA WinsAppend ==
    ASSUME NEW rounds \in Seq(ResolvedRound), NEW r \in ResolvedRound, NEW side \in Side
    PROVE  /\ WinsOf(rounds, side) \in Nat
           /\ WinsOf(Append(rounds, r), side)
                 = WinsOf(rounds, side) + (IF r.winner = side THEN 1 ELSE 0)
<1> DEFINE S == {i \in DOMAIN rounds : rounds[i].winner = side}
           T == {i \in DOMAIN Append(rounds, r) : Append(rounds, r)[i].winner = side}
           n == Len(rounds) + 1
<1>1. S \subseteq 1..Len(rounds) /\ Len(rounds) \in Nat
    OBVIOUS
<1>2. IsFiniteSet(S) /\ Cardinality(S) \in Nat
    <2>1. IsFiniteSet(1..Len(rounds))
        BY <1>1, FS_Interval
    <2>2. IsFiniteSet(S)
        BY ONLY <1>1, <2>1, FS_Subset
    <2> QED BY ONLY <2>2, FS_CardinalityType
<1>3. T = IF r.winner = side THEN S \cup {n} ELSE S
    OBVIOUS
<1>4. n \notin S
    BY <1>1
<1> HIDE DEF S, T, n
<1>5. Cardinality(T) = Cardinality(S) + (IF r.winner = side THEN 1 ELSE 0)
    <2>1. CASE r.winner = side
        BY <2>1, <1>2, <1>3, <1>4, FS_AddElement
    <2>2. CASE r.winner # side
        BY <2>2, <1>2, <1>3
    <2> QED BY <2>1, <2>2
<1> QED BY <1>2, <1>5 DEF WinsOf, S, T

\* No round, no win.
LEMMA WinsEmpty ==
    ASSUME NEW side
    PROVE  WinsOf(<< >>, side) = 0
BY FS_EmptySet DEF WinsOf

-----------------------------------------------------------------------------
(* The invariant is inductive. *)

LEMMA InitIInv == Init => IInv
<1> SUFFICES ASSUME Init PROVE IInv
    OBVIOUS
<1> USE DEF Init, buildInitialState
<1>1. TypeOK
    BY RoundsAssumption DEF TypeOK, MatchState, emptyRoundPlays
<1>2. OpenMatch
    BY RoundsAssumption DEF OpenMatch
<1>3. ScoreMatchesRounds
    BY WinsEmpty, SideFacts DEF ScoreMatchesRounds, WonByTimeout, Ended
<1>4. OutcomeConsistent
    BY RoundsAssumption, SideFacts DEF OutcomeConsistent, Ended, Side, NoReason
<1> QED BY <1>1, <1>2, <1>3, <1>4 DEF IInv

\* A play that leaves the round open changes nothing but the slot of the player.
LEMMA FirstPlayIInv ==
    ASSUME IInv, NEW u \in Users, NEW round, NEW move \in Move, Play(u, round, move),
           ~completesRound(match, u)
    PROVE  IInv'
<1> DEFINE plays == [match.roundPlays EXCEPT ![playerIndex(u)] = move]
<1>1. match' = [match EXCEPT !.roundPlays = plays]
    BY DEF Play, afterPlay
<1>2. plays \in [Side -> Move \cup {NoMove}]
    BY SideFacts DEF IInv, TypeOK, MatchState, Play, playRejected
<1> HIDE DEF plays
<1>3. TypeOK'
    BY <1>1, <1>2 DEF IInv, TypeOK, MatchState
<1>4. /\ match'.status = match.status /\ match'.score = match.score
      /\ match'.rounds = match.rounds /\ match'.currentRound = match.currentRound
      /\ match'.winnerId = match.winnerId /\ match'.endReason = match.endReason
    BY <1>1 DEF IInv, TypeOK, MatchState
<1> QED
    BY <1>3, <1>4 DEF IInv, OpenMatch, ScoreMatchesRounds, OutcomeConsistent, WonByTimeout,
                      Ended

\* A play that completes the round: the record, the score and the verdict agree.
LEMMA SecondPlayIInv ==
    ASSUME IInv, NEW u \in Users, NEW round, NEW move \in Move, Play(u, round, move),
           completesRound(match, u)
    PROVE  IInv'
<1> DEFINE plays == [match.roundPlays EXCEPT ![playerIndex(u)] = move]
           w     == resolveRps(plays["A"], plays["B"])
           r     == [roundNumber |-> match.currentRound, moves |-> plays, winner |-> w]
           sc    == [side \in Side |-> match.score[side] + (IF w = side THEN 1 ELSE 0)]
<1>1. /\ match \in MatchState /\ match.status = "WAITING_PLAYS"
      /\ match.rounds \in Seq(ResolvedRound) /\ match.score \in [Side -> 0..WINS_TO_END]
      /\ match.currentRound \in 1..MAX_ROUNDS
      /\ match.currentRound = Len(match.rounds) + 1
      /\ \A side \in Side : match.score[side] < WINS_TO_END
      /\ match.winnerId = NoUser /\ match.endReason = NoReason
    BY DEF Play, playRejected, IInv, TypeOK, OpenMatch, ScoreMatchesRounds, OutcomeConsistent,
           Ended, MatchState
<1>2. plays \in [Side -> Move \cup {NoMove}]
    BY SideFacts DEF IInv, TypeOK, MatchState, Play, playRejected
<1>3. w \in Side \cup {"DRAW"}
    BY RpsOutcome
<1>4. r \in ResolvedRound
    BY <1>1, <1>2, <1>3 DEF ResolvedRound
<1>5. /\ sc \in [Side -> 0..WINS_TO_END]
      /\ \A side \in Side : sc[side] = match.score[side] + (IF w = side THEN 1 ELSE 0)
      /\ ~(sc["A"] = WINS_TO_END /\ sc["B"] = WINS_TO_END)
    BY <1>1, RoundsAssumption DEF Side
<1>6. match' =
        LET t == [match EXCEPT !.roundPlays = plays, !.status = "RESOLVING",
                               !.rounds = Append(match.rounds, r), !.score = sc]
        IN  IF decided(sc) THEN endMatch(t, bestOf3Winner(sc), "BEST_OF_3")
            ELSE IF match.currentRound >= MAX_ROUNDS THEN endMatch(t, NoUser, "MAX_ROUNDS_DRAW")
            ELSE [t EXCEPT !.status = "WAITING_PLAYS", !.currentRound = @ + 1,
                           !.roundPlays = emptyRoundPlays]
    <2> DEFINE resolving == [match EXCEPT !.roundPlays = plays, !.status = "RESOLVING"]
               t0 == [resolving EXCEPT !.rounds = Append(match.rounds, r)]
    <2>1. match' = resolveRound(appendRound(resolving, plays, w), w)
        BY DEF Play, afterPlay
    <2>2. appendRound(resolving, plays, w) = t0
        BY <1>1 DEF appendRound, MatchState
    <2>3. t0.score = match.score /\ t0.currentRound = match.currentRound
        BY <1>1 DEF MatchState
    <2>4. scoreAfter(t0, w) = sc
        BY <2>3 DEF scoreAfter
    <2> DEFINE t1 == [t0 EXCEPT !.score = sc]
    <2>5. t1 = [match EXCEPT !.roundPlays = plays, !.status = "RESOLVING",
                             !.rounds = Append(match.rounds, r), !.score = sc]
        BY <1>1 DEF MatchState
    <2>6. t1.score = sc
        BY <1>1 DEF MatchState
    <2> HIDE DEF t0, sc, w, plays, r
    <2>7. match' = resolveRound(t0, w)
        BY <2>1, <2>2
    <2>8. resolveRound(t0, w) =
             IF decided(t1.score) THEN endMatch(t1, bestOf3Winner(t1.score), "BEST_OF_3")
             ELSE IF t0.currentRound >= MAX_ROUNDS THEN endMatch(t1, NoUser, "MAX_ROUNDS_DRAW")
             ELSE [t1 EXCEPT !.status = "WAITING_PLAYS", !.currentRound = @ + 1,
                             !.roundPlays = emptyRoundPlays]
        BY <2>4 DEF resolveRound, atRoundLimit
    <2> HIDE DEF t1
    <2> QED BY <2>3, <2>5, <2>6, <2>7, <2>8
<1> HIDE DEF plays, w, sc, r
<1>7. match'.rounds = Append(match.rounds, r) /\ match'.score = sc
    BY <1>1, <1>6 DEF endMatch, MatchState
<1>8. /\ match'.rounds \in Seq(ResolvedRound)
      /\ Len(match'.rounds) = Len(match.rounds) + 1
      /\ \A i \in DOMAIN match'.rounds : match'.rounds[i].roundNumber = i
    BY <1>1, <1>4, <1>7 DEF r, IInv, ScoreMatchesRounds
<1>9. \A side \in Side : WinsOf(match'.rounds, side) = sc[side]
    <2> TAKE side \in Side
    <2>1. WinsOf(match'.rounds, side)
            = WinsOf(match.rounds, side) + (IF r.winner = side THEN 1 ELSE 0)
        BY <1>1, <1>4, <1>7, WinsAppend
    <2>2. WinsOf(match.rounds, side) = match.score[side] + 0
        BY <1>1 DEF IInv, ScoreMatchesRounds, WonByTimeout, NoReason
    <2>3. r.winner = w
        BY DEF r
    <2> QED BY <1>1, <1>5, <2>1, <2>2, <2>3
<1>10. CASE decided(sc)
    <2>1. /\ match' = [match EXCEPT !.roundPlays = plays, !.status = "ENDED",
                              !.rounds = Append(match.rounds, r), !.score = sc,
                              !.winnerId = bestOf3Winner(sc), !.endReason = "BEST_OF_3"]
        BY <1>1, <1>6, <1>10 DEF endMatch, MatchState
    <2>2. bestOf3Winner(sc) \in Players
        BY SideFacts DEF bestOf3Winner, Side
    <2>3. TypeOK'
        BY <1>1, <1>2, <1>5, <1>8, <1>7, <2>1, <2>2 DEF TypeOK, MatchState, EndReason
    <2>4. OpenMatch'
        BY <1>1, <2>1 DEF OpenMatch, MatchState
    <2>5. ScoreMatchesRounds'
        BY <1>1, <1>5, <1>7, <1>8, <1>9, <2>1
           DEF ScoreMatchesRounds, WonByTimeout, Ended, MatchState
    <2>6. OutcomeConsistent'
        BY <1>1, <1>5, <1>10, <2>1, SideFacts
           DEF OutcomeConsistent, Ended, MatchState, decided, bestOf3Winner, Side, Opponent,
               NoReason
    <2> QED BY <2>3, <2>4, <2>5, <2>6 DEF IInv
<1>11. CASE ~decided(sc) /\ match.currentRound >= MAX_ROUNDS
    <2>1. /\ match' = [match EXCEPT !.roundPlays = plays, !.status = "ENDED",
                              !.rounds = Append(match.rounds, r), !.score = sc,
                              !.winnerId = NoUser, !.endReason = "MAX_ROUNDS_DRAW"]
        BY <1>1, <1>6, <1>11 DEF endMatch, MatchState
    <2>3. TypeOK'
        BY <1>1, <1>2, <1>5, <1>8, <1>7, <2>1 DEF TypeOK, MatchState, EndReason
    <2>4. OpenMatch'
        BY <1>1, <2>1 DEF OpenMatch, MatchState
    <2>5. ScoreMatchesRounds'
        BY <1>1, <1>5, <1>7, <1>8, <1>9, <2>1
           DEF ScoreMatchesRounds, WonByTimeout, Ended, MatchState
    <2>2. Len(match'.rounds) = MAX_ROUNDS
        BY <1>1, <1>8, <1>11, RoundsAssumption
    <2>6. OutcomeConsistent'
        BY <1>1, <1>5, <1>11, <2>1, <2>2, SideFacts
           DEF OutcomeConsistent, Ended, MatchState, decided, Side, NoReason
    <2> QED BY <2>3, <2>4, <2>5, <2>6 DEF IInv
<1>12. CASE ~decided(sc) /\ ~(match.currentRound >= MAX_ROUNDS)
    <2>1. /\ match' = [match EXCEPT !.roundPlays = emptyRoundPlays,
                              !.rounds = Append(match.rounds, r), !.score = sc,
                              !.currentRound = match.currentRound + 1]
        BY <1>1, <1>6, <1>12 DEF MatchState
    <2>7. match.currentRound + 1 \in 1..MAX_ROUNDS
        BY <1>1, <1>12, RoundsAssumption
    <2>8. \A side \in Side : sc[side] < WINS_TO_END
        BY <1>5, <1>12, RoundsAssumption DEF decided, Side
    <2>2. emptyRoundPlays \in [Side -> Move \cup {NoMove}]
        BY DEF emptyRoundPlays
    <2>9. /\ match'.currentRound = match.currentRound + 1
          /\ match'.status = "WAITING_PLAYS" /\ match'.endReason = NoReason
        BY <1>1, <2>1 DEF MatchState
    <2>3. TypeOK'
        BY <1>1, <1>5, <1>8, <1>7, <2>1, <2>2, <2>7 DEF TypeOK, MatchState
    <2>4. OpenMatch'
        BY <1>1, <2>1, <2>8 DEF OpenMatch, MatchState
    <2>5. ScoreMatchesRounds'
        <3>1. \A side \in Side : ~WonByTimeout(side)'
            BY <2>9 DEF WonByTimeout, NoReason
        <3>2. \A side \in Side : WinsOf(match'.rounds, side) = match'.score[side] + 0
            BY <1>5, <1>7, <1>9, RoundsAssumption
        <3> QED BY <1>1, <1>8, <2>9, <3>1, <3>2 DEF ScoreMatchesRounds
    <2>6. OutcomeConsistent'
        BY <1>1, <1>5, <1>12, <2>1, SideFacts
           DEF OutcomeConsistent, Ended, MatchState, decided, Side, NoReason
    <2> QED BY <2>3, <2>4, <2>5, <2>6 DEF IInv
<1> QED BY <1>10, <1>11, <1>12

\* An open match that ends by forfeit keeps its score, hence nobody has won by it.
LEMMA ForfeitIInv ==
    ASSUME IInv, NEW u \in Users, Forfeit(u)
    PROVE  IInv'
<1> DEFINE winner == players[Opponent(playerIndex(u))]
<1>1. /\ match \in MatchState /\ match.status = "WAITING_PLAYS"
      /\ \A side \in Side : match.score[side] < WINS_TO_END
      /\ match.endReason = NoReason
    BY DEF Forfeit, forfeitApplies, IInv, TypeOK, OpenMatch, OutcomeConsistent, Ended, MatchState
<1>2. winner \in Players /\ winner # NoUser
    BY SideFacts DEF Forfeit, forfeitApplies
<1>3. match' = [match EXCEPT !.status = "ENDED", !.winnerId = winner,
                             !.endReason = "DISCONNECT_FORFEIT"]
    BY DEF Forfeit, afterForfeit, endMatch
<1> HIDE DEF winner
<1>4. TypeOK'
    BY <1>1, <1>2, <1>3 DEF TypeOK, MatchState, EndReason
<1>5. /\ match'.status = "ENDED" /\ match'.winnerId = winner
      /\ match'.endReason = "DISCONNECT_FORFEIT"
      /\ match'.score = match.score /\ match'.rounds = match.rounds
    BY <1>1, <1>3 DEF MatchState
<1>6. OpenMatch'
    BY <1>5 DEF OpenMatch
<1>7. ScoreMatchesRounds'
    BY <1>1, <1>5 DEF IInv, ScoreMatchesRounds, WonByTimeout, Ended, NoReason
<1>8. OutcomeConsistent'
    <2>1. \A side \in Side : match'.score[side] # WINS_TO_END
        BY <1>1, <1>5, RoundsAssumption DEF MatchState
    <2> QED BY <1>2, <1>5, <2>1 DEF OutcomeConsistent, Ended, NoReason
<1> QED BY <1>4, <1>6, <1>7, <1>8 DEF IInv

\* A timeout with one silent player adds the record of the round it gives away.
LEMMA TimeoutIInv ==
    ASSUME IInv, NEW round, Timeout(round)
    PROVE  IInv'
<1> DEFINE silent == resolveSilentPlayer(match.roundPlays)
           winner == IF silent = "BOTH" THEN NoUser ELSE players[Opponent(silent)]
           r == [roundNumber |-> match.currentRound, moves |-> match.roundPlays,
                 winner |-> Opponent(silent)]
           rounds == IF silent = "BOTH" THEN match.rounds ELSE Append(match.rounds, r)
<1>1. /\ match \in MatchState /\ match.status = "WAITING_PLAYS"
      /\ match.rounds \in Seq(ResolvedRound) /\ match.score \in [Side -> 0..WINS_TO_END]
      /\ match.currentRound \in 1..MAX_ROUNDS
      /\ match.currentRound = Len(match.rounds) + 1
      /\ \A side \in Side : match.score[side] < WINS_TO_END
      /\ match.endReason = NoReason
    BY DEF Timeout, timeoutApplies, IInv, TypeOK, OpenMatch, ScoreMatchesRounds,
           OutcomeConsistent, Ended, MatchState
<1>2. silent \in Side \cup {"BOTH"} /\ "BOTH" \notin Side
    BY DEF resolveSilentPlayer, Side
<1>3. match' = [match EXCEPT !.rounds = rounds, !.status = "ENDED", !.winnerId = winner,
                             !.endReason = "FORFEIT_TIMEOUT"]
    BY <1>1 DEF Timeout, afterTimeout, timeoutMatch, appendRound, endMatch, MatchState
<1>4. silent # "BOTH" => Opponent(silent) \in Side /\ r \in ResolvedRound
    BY <1>1, <1>2, SideFacts DEF ResolvedRound, MatchState
<1>5. winner \in Players \cup {NoUser}
    BY <1>2, SideFacts
<1>6. rounds \in Seq(ResolvedRound)
    BY <1>1, <1>2, <1>4
<1>7. \A i \in DOMAIN rounds : rounds[i].roundNumber = i
    BY <1>1, <1>4 DEF IInv, ScoreMatchesRounds
<1>8. \A side \in Side : WinsOf(rounds, side)
         = match.score[side] + (IF winner = players[side] THEN 1 ELSE 0)
    <2> TAKE side \in Side
    <2>1. WinsOf(match.rounds, side) = match.score[side]
        <3>1. WinsOf(match.rounds, side) = match.score[side] + 0
            BY <1>1 DEF IInv, ScoreMatchesRounds, WonByTimeout, NoReason
        <3> QED BY <1>1, <3>1, RoundsAssumption
    <2>2. CASE silent = "BOTH"
        BY <1>1, <2>1, <2>2, SideFacts, RoundsAssumption
    <2>3. CASE silent # "BOTH"
        <3>1. WinsOf(rounds, side)
                = WinsOf(match.rounds, side) + (IF r.winner = side THEN 1 ELSE 0)
            BY <1>1, <1>4, <2>3, WinsAppend
        <3>2. r.winner = Opponent(silent)
            OBVIOUS
        <3>3. winner = players[side] <=> Opponent(silent) = side
            BY <1>4, <2>3, SideFacts DEF Side
        <3> QED BY <2>1, <3>1, <3>2, <3>3
    <2> QED BY <2>2, <2>3
<1> HIDE DEF silent, winner, r, rounds
<1>9. /\ match'.status = "ENDED" /\ match'.winnerId = winner /\ match'.rounds = rounds
      /\ match'.endReason = "FORFEIT_TIMEOUT" /\ match'.score = match.score
    BY <1>1, <1>3 DEF MatchState
<1>10. TypeOK'
    BY <1>1, <1>3, <1>5, <1>6 DEF TypeOK, MatchState, EndReason
<1>11. OpenMatch'
    BY <1>9 DEF OpenMatch
<1>12. ScoreMatchesRounds'
    BY <1>7, <1>8, <1>9 DEF ScoreMatchesRounds, WonByTimeout, Ended
<1>13. OutcomeConsistent'
    <2>1. \A side \in Side : match'.score[side] # WINS_TO_END
        BY <1>1, <1>9, RoundsAssumption
    <2> QED BY <1>9, <2>1 DEF OutcomeConsistent, Ended, NoReason
<1> QED BY <1>10, <1>11, <1>12, <1>13 DEF IInv

LEMMA NextIInv == IInv /\ [Next]_match => IInv'
<1> SUFFICES ASSUME IInv, [Next]_match PROVE IInv'
    OBVIOUS
<1>1. CASE UNCHANGED match
    BY <1>1 DEF IInv, TypeOK, OpenMatch, ScoreMatchesRounds, OutcomeConsistent, WonByTimeout,
                Ended
<1>2. CASE \E u \in Users, round \in 1..MAX_ROUNDS, move \in Move : Play(u, round, move)
    BY <1>2, FirstPlayIInv, SecondPlayIInv
<1>3. CASE \E round \in 1..MAX_ROUNDS : Timeout(round)
    BY <1>3, TimeoutIInv
<1>4. CASE \E u \in Users : Forfeit(u)
    BY <1>4, ForfeitIInv
<1> QED BY <1>1, <1>2, <1>3, <1>4 DEF Next

-----------------------------------------------------------------------------
(* The two slots. *)

LEMMA SwapUsers ==
    /\ SwapUser(UserA) = UserB /\ SwapUser(UserB) = UserA /\ SwapUser(NoUser) = NoUser
    /\ \A side \in Side : SwapUser(players[side]) = players[Opponent(side)]
BY PlayersAssumption, NoUserAssumption DEF SwapUser, players, Side, Opponent, Users, Players

LEMMA SwapTypes ==
    ASSUME NEW f, NEW S, f \in [Side -> S]
    PROVE  /\ SwapSides(f) \in [Side -> S]
           /\ SwapSides(f)["A"] = f["B"] /\ SwapSides(f)["B"] = f["A"]
BY DEF SwapSides, Side, Opponent

LEMMA SwapRoundsType ==
    ASSUME NEW rounds \in Seq(ResolvedRound)
    PROVE  SwapRounds(rounds) \in Seq(ResolvedRound)
<1>1. ASSUME NEW i \in DOMAIN rounds PROVE SwapRecord(rounds[i]) \in ResolvedRound
    <2> DEFINE r == rounds[i]
    <2>1. r \in ResolvedRound
        OBVIOUS
    <2>2. r.moves \in [Side -> Move \cup {NoMove}] /\ r.winner \in Side \cup {"DRAW"}
        BY <2>1 DEF ResolvedRound
    <2>3. SwapSides(r.moves) \in [Side -> Move \cup {NoMove}]
        BY <2>2, SwapTypes
    <2>4. SwapWinner(r.winner) \in Side \cup {"DRAW"}
        BY <2>2, SideFacts DEF SwapWinner
    <2> HIDE DEF r
    <2>5. SwapRecord(r) \in ResolvedRound
        BY <2>1, <2>3, <2>4 DEF SwapRecord, ResolvedRound
    <2> QED BY <2>5 DEF r
<1>2. DOMAIN rounds = 1..Len(rounds) /\ Len(rounds) \in Nat
    OBVIOUS
<1> QED BY <1>1, <1>2 DEF SwapRounds

LEMMA SwapState ==
    ASSUME NEW s \in MatchState
    PROVE  /\ Swap(s) \in MatchState
           /\ Swap(s).status = s.status /\ Swap(s).currentRound = s.currentRound
           /\ Swap(s).score = SwapSides(s.score) /\ Swap(s).roundPlays = SwapSides(s.roundPlays)
           /\ Swap(s).rounds = SwapRounds(s.rounds) /\ Swap(s).winnerId = SwapUser(s.winnerId)
           /\ Swap(s).endReason = s.endReason
<1>1. /\ SwapSides(s.score) \in [Side -> 0..WINS_TO_END]
      /\ SwapSides(s.roundPlays) \in [Side -> Move \cup {NoMove}]
    BY SwapTypes DEF MatchState
<1>2. SwapRounds(s.rounds) \in Seq(ResolvedRound)
    BY SwapRoundsType DEF MatchState
<1>3. SwapUser(s.winnerId) \in Players \cup {NoUser}
    BY SwapUsers DEF MatchState, Players
<1> QED BY <1>1, <1>2, <1>3 DEF Swap, MatchState

\* Two states are equal when their fields are.
LEMMA SameState ==
    ASSUME NEW s \in MatchState, NEW t \in MatchState,
           s.status = t.status, s.currentRound = t.currentRound, s.score = t.score,
           s.roundPlays = t.roundPlays, s.rounds = t.rounds, s.winnerId = t.winnerId,
           s.endReason = t.endReason
    PROVE  s = t
BY DEF MatchState

\* Ending a match ...
LEMMA SwapEnd ==
    ASSUME NEW s \in MatchState, NEW w \in Players \cup {NoUser}, NEW reason \in EndReason
    PROVE  Swap(endMatch(s, w, reason)) = endMatch(Swap(s), SwapUser(w), reason)
<1>1. SwapUser(w) \in Players \cup {NoUser}
    BY SwapUsers DEF Players
<1> DEFINE e == endMatch(s, w, reason)
           f == endMatch(Swap(s), SwapUser(w), reason)
<1>2. /\ e \in MatchState /\ e.status = "ENDED" /\ e.currentRound = s.currentRound
      /\ e.score = s.score /\ e.roundPlays = s.roundPlays /\ e.rounds = s.rounds
      /\ e.winnerId = w /\ e.endReason = reason
    BY DEF endMatch, MatchState
<1>3. /\ f \in MatchState /\ f.status = "ENDED" /\ f.currentRound = Swap(s).currentRound
      /\ f.score = Swap(s).score /\ f.roundPlays = Swap(s).roundPlays
      /\ f.rounds = Swap(s).rounds /\ f.winnerId = SwapUser(w) /\ f.endReason = reason
    BY <1>1, SwapState DEF endMatch, MatchState
<1> HIDE DEF e, f
<1>4. Swap(e) = f
    BY <1>2, <1>3, SwapState, SameState
<1> QED BY <1>4 DEF e, f

\* ... recording a round ...
LEMMA SwapAppend ==
    ASSUME NEW s \in MatchState, NEW plays \in [Side -> Move \cup {NoMove}],
           NEW w \in Side \cup {"DRAW"}
    PROVE  Swap(appendRound(s, plays, w)) = appendRound(Swap(s), SwapSides(plays), SwapWinner(w))
<1> DEFINE r == [roundNumber |-> s.currentRound, moves |-> plays, winner |-> w]
           q == [roundNumber |-> s.currentRound, moves |-> SwapSides(plays),
                 winner |-> SwapWinner(w)]
           e == appendRound(s, plays, w)
           f == appendRound(Swap(s), SwapSides(plays), SwapWinner(w))
<1>1. SwapSides(plays) \in [Side -> Move \cup {NoMove}] /\ SwapWinner(w) \in Side \cup {"DRAW"}
    BY SwapTypes, SideFacts DEF SwapWinner
<1>2. r \in ResolvedRound /\ q \in ResolvedRound /\ SwapRecord(r) = q
    <2>1. s.currentRound \in 1..MAX_ROUNDS
        BY DEF MatchState
    <2>2. r \in ResolvedRound /\ q \in ResolvedRound
        BY <1>1, <2>1 DEF ResolvedRound
    <2>3. SwapRecord(r) = q
        <3> DEFINE moves == SwapSides(plays)
                   winner == SwapWinner(w)
        <3>1. r.moves = plays /\ r.winner = w
            OBVIOUS
        <3>2. SwapRecord(r) = [r EXCEPT !.moves = moves, !.winner = winner]
            <4> HIDE DEF r
            <4> QED BY <3>1 DEF SwapRecord
        <3>3. r.roundNumber = q.roundNumber /\ q.moves = moves /\ q.winner = winner
            BY DEF moves, winner
        <3> HIDE DEF r, q
        <3> QED BY <2>2, <3>2, <3>3 DEF ResolvedRound
    <2> QED BY <2>2, <2>3
<1>3. s.rounds \in Seq(ResolvedRound)
    BY DEF MatchState
<1>4. /\ e \in MatchState /\ e.status = s.status /\ e.currentRound = s.currentRound
      /\ e.score = s.score /\ e.roundPlays = s.roundPlays /\ e.rounds = Append(s.rounds, r)
      /\ e.winnerId = s.winnerId /\ e.endReason = s.endReason
    BY AppendRoundType DEF appendRound, MatchState
<1>5. /\ f \in MatchState /\ f.status = s.status /\ f.currentRound = s.currentRound
      /\ f.score = Swap(s).score /\ f.roundPlays = Swap(s).roundPlays
      /\ f.rounds = Append(SwapRounds(s.rounds), q)
      /\ f.winnerId = Swap(s).winnerId /\ f.endReason = s.endReason
    <2>1. f \in MatchState
        BY <1>1, AppendRoundType, SwapState
    <2>2. f = [Swap(s) EXCEPT !.rounds = Append(SwapRounds(s.rounds), q)]
        BY SwapState DEF appendRound
    <2> HIDE DEF f, q
    <2> QED BY <2>1, <2>2, SwapState DEF MatchState
<1> HIDE DEF r, q, e, f
<1>6. SwapRounds(Append(s.rounds, r)) = Append(SwapRounds(s.rounds), q)
    <2> DEFINE n == Len(s.rounds)
               a == SwapRounds(Append(s.rounds, r))
               b == Append(SwapRounds(s.rounds), q)
    <2>1. n \in Nat /\ DOMAIN s.rounds = 1..n
        BY <1>3
    <2>2. /\ Append(s.rounds, r) \in Seq(ResolvedRound) /\ Len(Append(s.rounds, r)) = n + 1
          /\ \A i \in 1..n : Append(s.rounds, r)[i] = s.rounds[i]
          /\ Append(s.rounds, r)[n + 1] = r
        BY <1>2, <1>3, <2>1
    <2>3. /\ a = [i \in 1..(n + 1) |-> SwapRecord(Append(s.rounds, r)[i])]
        BY <2>1, <2>2 DEF SwapRounds
    <2>4. SwapRounds(s.rounds) \in Seq(ResolvedRound) /\ Len(SwapRounds(s.rounds)) = n
        <3>1. SwapRounds(s.rounds) \in Seq(ResolvedRound)
            BY <1>3, SwapRoundsType
        <3>2. DOMAIN SwapRounds(s.rounds) = 1..n
            BY <2>1 DEF SwapRounds
        <3> QED BY <2>1, <3>1, <3>2, LenProperties
    <2>5. /\ b \in Seq(ResolvedRound) /\ Len(b) = n + 1 /\ b[n + 1] = q
          /\ \A i \in 1..n : b[i] = SwapRounds(s.rounds)[i]
        BY <1>2, <2>1, <2>4
    <2>6. \A i \in 1..n : SwapRounds(s.rounds)[i] = SwapRecord(s.rounds[i])
        BY <2>1 DEF SwapRounds
    <2>7. b = [i \in 1..(n + 1) |-> b[i]]
        BY <2>5
    <2> HIDE DEF a, b, n
    <2>8. \A i \in 1..(n + 1) : b[i] = SwapRecord(Append(s.rounds, r)[i])
        BY <1>2, <2>1, <2>2, <2>5, <2>6
    <2> QED BY <2>3, <2>7, <2>8 DEF a, b
<1>7. Swap(e) = f
    <2>1. /\ Swap(e) \in MatchState /\ Swap(e).status = f.status
          /\ Swap(e).currentRound = f.currentRound /\ Swap(e).endReason = f.endReason
        BY <1>4, <1>5, SwapState
    <2>2. /\ Swap(e).score = f.score /\ Swap(e).roundPlays = f.roundPlays
          /\ Swap(e).winnerId = f.winnerId
        BY <1>4, <1>5, SwapState
    <2>3. Swap(e).rounds = f.rounds
        <3>1. Swap(e).rounds = SwapRounds(e.rounds)
            BY <1>4, SwapState
        <3>2. e.rounds = Append(s.rounds, r) /\ f.rounds = Append(SwapRounds(s.rounds), q)
            BY <1>4, <1>5
        <3> QED BY <1>6, <3>1, <3>2, Zenon
    <2> QED BY <1>5, <2>1, <2>2, <2>3, SameState
<1> QED BY <1>7 DEF e, f

\* ... and resolving one are the same from either slot: two sides never win together.
LEMMA SwapResolve ==
    ASSUME NEW s \in MatchState, NEW w \in Side \cup {"DRAW"},
           \A side \in Side : s.score[side] < WINS_TO_END
    PROVE  Swap(resolveRound(s, w)) = resolveRound(Swap(s), SwapWinner(w))
<1> DEFINE z  == Swap(s)
           x  == SwapWinner(w)
           sc == scoreAfter(s, w)
           zc == scoreAfter(z, x)
           t  == [s EXCEPT !.score = sc]
           y  == [z EXCEPT !.score = zc]
<1>1. /\ s.score \in [Side -> 0..WINS_TO_END] /\ s.currentRound \in 1..MAX_ROUNDS
      /\ z \in MatchState /\ z.score = SwapSides(s.score) /\ z.currentRound = s.currentRound
      /\ z.score["A"] = s.score["B"] /\ z.score["B"] = s.score["A"]
    BY SwapState, SwapTypes DEF MatchState
<1>2. x \in Side \cup {"DRAW"} /\ (x = "A" <=> w = "B") /\ (x = "B" <=> w = "A")
    BY DEF SwapWinner, Side, Opponent
<1>3. /\ sc \in [Side -> 0..WINS_TO_END] /\ zc = SwapSides(sc)
      /\ ~(sc["A"] = WINS_TO_END /\ sc["B"] = WINS_TO_END)
    BY <1>1, <1>2, RoundsAssumption DEF scoreAfter, SwapSides, Side, Opponent
<1>4. zc \in [Side -> 0..WINS_TO_END] /\ zc["A"] = sc["B"] /\ zc["B"] = sc["A"]
    BY <1>3, SwapTypes
<1>5. t \in MatchState /\ t.score = sc /\ t.currentRound = s.currentRound
    BY <1>3 DEF MatchState
<1>6. y \in MatchState /\ y.score = zc /\ y.currentRound = s.currentRound
    BY <1>1, <1>4 DEF MatchState
<1> HIDE DEF sc, zc, x, z
<1>7. Swap(t) = y
    <2>1. /\ t.status = s.status /\ t.roundPlays = s.roundPlays /\ t.rounds = s.rounds
          /\ t.winnerId = s.winnerId /\ t.endReason = s.endReason
        BY DEF MatchState
    <2>2. /\ y.status = s.status /\ y.roundPlays = z.roundPlays /\ y.rounds = z.rounds
          /\ y.winnerId = z.winnerId /\ y.endReason = s.endReason
        BY <1>1, SwapState DEF MatchState, z
    <2> HIDE DEF t, y
    <2> QED BY <1>3, <1>5, <1>6, <2>1, <2>2, SwapState, SameState DEF z
<1>8. decided(sc) <=> decided(zc)
    BY <1>4 DEF decided
<1>9. atRoundLimit(s) <=> atRoundLimit(z)
    BY <1>1 DEF atRoundLimit
<1>10. CASE decided(sc)
    <2>1. /\ resolveRound(s, w) = endMatch(t, bestOf3Winner(sc), "BEST_OF_3")
          /\ resolveRound(z, x) = endMatch(y, bestOf3Winner(zc), "BEST_OF_3")
        BY <1>5, <1>6, <1>8, <1>10 DEF resolveRound, sc, zc
    <2>2. bestOf3Winner(sc) \in Players /\ SwapUser(bestOf3Winner(sc)) = bestOf3Winner(zc)
        BY <1>3, <1>4, <1>10, SwapUsers, SideFacts DEF bestOf3Winner, decided, Side, Opponent
    <2> HIDE DEF t, y
    <2> QED BY <1>5, <1>7, <2>1, <2>2, SwapEnd DEF EndReason, z, x
<1>11. CASE ~decided(sc) /\ atRoundLimit(s)
    <2>1. /\ resolveRound(s, w) = endMatch(t, NoUser, "MAX_ROUNDS_DRAW")
          /\ resolveRound(z, x) = endMatch(y, NoUser, "MAX_ROUNDS_DRAW")
        BY <1>5, <1>6, <1>8, <1>9, <1>11 DEF resolveRound, sc, zc
    <2> HIDE DEF t, y
    <2> QED BY <1>5, <1>7, <2>1, SwapEnd, SwapUsers DEF EndReason, z, x
<1>12. CASE ~decided(sc) /\ ~atRoundLimit(s)
    <2> DEFINE e == resolveRound(s, w)
               f == resolveRound(z, x)
    <2>1. /\ e = [t EXCEPT !.status = "WAITING_PLAYS", !.currentRound = s.currentRound + 1,
                           !.roundPlays = emptyRoundPlays]
          /\ f = [y EXCEPT !.status = "WAITING_PLAYS", !.currentRound = s.currentRound + 1,
                           !.roundPlays = emptyRoundPlays]
        BY <1>5, <1>6, <1>8, <1>9, <1>12 DEF resolveRound, sc, zc, MatchState
    <2>2. s.currentRound + 1 \in 1..MAX_ROUNDS
        BY <1>1, <1>12, RoundsAssumption DEF atRoundLimit
    <2>3. emptyRoundPlays \in [Side -> Move \cup {NoMove}] /\ SwapSides(emptyRoundPlays) = emptyRoundPlays
        BY DEF emptyRoundPlays, SwapSides, Side, Opponent
    <2> HIDE DEF t, y, e, f
    <2>4. /\ e \in MatchState /\ e.status = "WAITING_PLAYS" /\ e.currentRound = s.currentRound + 1
          /\ e.score = t.score /\ e.roundPlays = emptyRoundPlays /\ e.rounds = t.rounds
          /\ e.winnerId = t.winnerId /\ e.endReason = t.endReason
        BY <1>5, <2>1, <2>2, <2>3 DEF MatchState
    <2>5. /\ f \in MatchState /\ f.status = "WAITING_PLAYS" /\ f.currentRound = s.currentRound + 1
          /\ f.score = y.score /\ f.roundPlays = emptyRoundPlays /\ f.rounds = y.rounds
          /\ f.winnerId = y.winnerId /\ f.endReason = y.endReason
        BY <1>6, <2>1, <2>2, <2>3 DEF MatchState
    <2>6. Swap(e) = f
        BY <1>5, <1>7, <2>3, <2>4, <2>5, SwapState, SameState
    <2> QED BY <2>6 DEF e, f, z, x
<1> QED BY <1>10, <1>11, <1>12

LEMMA SwapRps ==
    ASSUME NEW a \in Move, NEW b \in Move
    PROVE  resolveRps(b, a) = SwapWinner(resolveRps(a, b))
<1>1. /\ winsAgainst["rock"] = "scissors" /\ winsAgainst["paper"] = "rock"
      /\ winsAgainst["scissors"] = "paper"
    BY DEF winsAgainst, Move
<1> QED BY <1>1 DEF resolveRps, SwapWinner, Side, Opponent, Move

\* The events of a match.
LEMMA SwapPlay ==
    ASSUME NEW s, Sound(s), NEW side \in Side, NEW move \in Move, NEW round
    PROVE  /\ playRejected(s, players[side], round)
                <=> playRejected(Swap(s), players[Opponent(side)], round)
           /\ ~playRejected(s, players[side], round) =>
                Swap(afterPlay(s, players[side], move))
                    = afterPlay(Swap(s), players[Opponent(side)], move)
<1> DEFINE o  == Opponent(side)
           u  == players[side]
           v  == players[o]
           z  == Swap(s)
           p  == [s.roundPlays EXCEPT ![side] = move]
           q  == [z.roundPlays EXCEPT ![o] = move]
           w  == resolveRps(p["A"], p["B"])
           x  == resolveRps(q["A"], q["B"])
<1>1. /\ o \in Side /\ Opponent(o) = side /\ o # side
      /\ playerIndex(u) = side /\ playerIndex(v) = o /\ "none" \notin Side
    BY PlayersAssumption DEF Opponent, Side, players, playerIndex
<1>2. /\ s \in MatchState /\ z \in MatchState /\ z.status = s.status
      /\ z.currentRound = s.currentRound /\ z.roundPlays = SwapSides(s.roundPlays)
      /\ s.roundPlays \in [Side -> Move \cup {NoMove}]
    BY SwapState DEF Sound, MatchState
<1>3. z.roundPlays[o] = s.roundPlays[side] /\ z.roundPlays[side] = s.roundPlays[o]
    BY <1>1, <1>2 DEF SwapSides
<1>4. playRejected(s, u, round) <=> playRejected(z, v, round)
    <2> HIDE DEF u, v, o, z
    <2> QED BY <1>1, <1>2, <1>3 DEF playRejected
<1>5. ASSUME ~playRejected(s, u, round) PROVE Swap(afterPlay(s, u, move)) = afterPlay(z, v, move)
    <2>1. s.status = "WAITING_PLAYS" /\ \A d \in Side : s.score[d] < WINS_TO_END
        BY <1>5 DEF playRejected, Sound
    <2>2. p \in [Side -> Move \cup {NoMove}] /\ q = SwapSides(p)
        <3> HIDE DEF o, z
        <3> QED BY <1>1, <1>2, <1>3 DEF SwapSides, Side, Opponent
    <2>3. completesRound(s, u) <=> completesRound(z, v)
        <3>1. Opponent(playerIndex(u)) = o /\ Opponent(playerIndex(v)) = side
            BY <1>1
        <3> HIDE DEF u, v, o, z
        <3> QED BY <1>3, <3>1 DEF completesRound
    <2>4. CASE completesRound(s, u)
        <3> DEFINE t == [s EXCEPT !.roundPlays = p, !.status = "RESOLVING"]
                   y == [z EXCEPT !.roundPlays = q, !.status = "RESOLVING"]
        <3>1. p["A"] \in Move /\ p["B"] \in Move
            <4> HIDE DEF u, o
            <4>1. s.roundPlays[o] \in Move
                BY <1>1, <1>2, <2>4 DEF completesRound, o
            <4> QED BY <1>1, <1>2, <4>1 DEF Side
        <3>2. q["A"] = p["B"] /\ q["B"] = p["A"]
            BY <2>2, SwapTypes
        <3>3. w \in Side \cup {"DRAW"} /\ x = SwapWinner(w)
            BY <3>1, <3>2, SwapRps, RpsOutcome
        <3> HIDE DEF p, q, w, x, z
        <3>4. t \in MatchState /\ y \in MatchState /\ t.score = s.score
            <4>1. q \in [Side -> Move \cup {NoMove}]
                BY <2>2, SwapTypes
            <4> QED BY <1>2, <2>2, <4>1 DEF MatchState
        <3>5. Swap(t) = y
            <4>1. /\ t.status = "RESOLVING" /\ t.roundPlays = p /\ t.rounds = s.rounds
                  /\ t.winnerId = s.winnerId /\ t.endReason = s.endReason
                  /\ t.currentRound = s.currentRound
                BY <1>2, <2>2 DEF MatchState
            <4>2. /\ y.status = "RESOLVING" /\ y.roundPlays = q /\ y.rounds = z.rounds
                  /\ y.winnerId = z.winnerId /\ y.endReason = z.endReason
                  /\ y.currentRound = z.currentRound /\ y.score = z.score
                BY <1>2, <2>2 DEF MatchState
            <4> HIDE DEF t, y
            <4> QED BY <1>2, <2>2, <3>4, <4>1, <4>2, SwapState, SameState DEF z
        <3>6. afterPlay(s, u, move) = resolveRound(appendRound(t, p, w), w)
            BY <1>1, <2>4 DEF afterPlay, p, w
        <3>7. afterPlay(z, v, move) = resolveRound(appendRound(y, q, x), x)
            BY <1>1, <2>3, <2>4 DEF afterPlay, q, x
        <3> HIDE DEF t, y
        <3>8. /\ appendRound(t, p, w) \in MatchState
              /\ \A d \in Side : appendRound(t, p, w).score[d] < WINS_TO_END
            BY <2>1, <2>2, <3>3, <3>4, AppendRoundType
        <3>9. Swap(appendRound(t, p, w)) = appendRound(y, q, x)
            BY <2>2, <3>3, <3>4, <3>5, SwapAppend
        <3> QED BY <3>3, <3>6, <3>7, <3>8, <3>9, SwapResolve
    <2>5. CASE ~completesRound(s, u)
        <3> DEFINE e == [s EXCEPT !.roundPlays = p]
                   f == [z EXCEPT !.roundPlays = q]
        <3>1. afterPlay(s, u, move) = e /\ afterPlay(z, v, move) = f
            BY <1>1, <2>3, <2>5 DEF afterPlay
        <3> HIDE DEF p, q
        <3>2. /\ e \in MatchState /\ e.status = s.status /\ e.roundPlays = p /\ e.rounds = s.rounds
              /\ e.winnerId = s.winnerId /\ e.endReason = s.endReason
              /\ e.currentRound = s.currentRound /\ e.score = s.score
            BY <1>2, <2>2 DEF MatchState
        <3>3. q \in [Side -> Move \cup {NoMove}]
            BY <2>2, SwapTypes
        <3> HIDE DEF z
        <3>4. /\ f \in MatchState /\ f.status = z.status /\ f.roundPlays = q /\ f.rounds = z.rounds
              /\ f.winnerId = z.winnerId /\ f.endReason = z.endReason
              /\ f.currentRound = z.currentRound /\ f.score = z.score
            BY <1>2, <3>3 DEF MatchState
        <3> HIDE DEF e, f
        <3>5. Swap(e) = f
            BY <1>2, <2>2, <3>2, <3>4, SwapState, SameState DEF z
        <3> QED BY <3>1, <3>5
    <2> QED BY <2>4, <2>5
<1> QED BY <1>4, <1>5

LEMMA SwapTimeout ==
    ASSUME NEW s \in MatchState, NEW round
    PROVE  Swap(afterTimeout(s, round)) = afterTimeout(Swap(s), round)
<1> DEFINE z == Swap(s)
           d == resolveSilentPlayer(s.roundPlays)
           e == resolveSilentPlayer(z.roundPlays)
           a == s.roundPlays
           b == z.roundPlays
<1>1. /\ z \in MatchState /\ z.status = s.status /\ z.currentRound = s.currentRound
      /\ b = SwapSides(a) /\ a \in [Side -> Move \cup {NoMove}]
      /\ b["A"] = a["B"] /\ b["B"] = a["A"]
    BY SwapState, SwapTypes DEF MatchState
<1>2. d \in Side \cup {"BOTH"} /\ "BOTH" \notin Side /\ e = SwapWinner(d)
    BY <1>1 DEF resolveSilentPlayer, SwapWinner, Side, Opponent
<1>3. timeoutApplies(s, round) <=> timeoutApplies(z, round)
    BY <1>1 DEF timeoutApplies
<1>4. CASE ~timeoutApplies(s, round)
    BY <1>3, <1>4 DEF afterTimeout
<1>5. CASE timeoutApplies(s, round) /\ d = "BOTH"
    <2>1. e = "BOTH"
        BY <1>2, <1>5 DEF SwapWinner
    <2>2. /\ afterTimeout(s, round) = endMatch(s, NoUser, "FORFEIT_TIMEOUT")
          /\ afterTimeout(z, round) = endMatch(z, NoUser, "FORFEIT_TIMEOUT")
        BY <1>3, <1>5, <2>1 DEF afterTimeout, timeoutMatch
    <2> QED BY <2>2, SwapEnd, SwapUsers DEF EndReason
<1>6. CASE timeoutApplies(s, round) /\ d \in Side
    <2>1. /\ e = Opponent(d) /\ e \in Side /\ Opponent(e) = d /\ d # "BOTH" /\ e # "BOTH"
          /\ Opponent(d) \in Side /\ SwapWinner(Opponent(d)) = Opponent(e)
        BY <1>2, <1>6 DEF SwapWinner, Side, Opponent
    <2> DEFINE t == appendRound(s, a, Opponent(d))
               y == appendRound(z, b, Opponent(e))
    <2>2. /\ afterTimeout(s, round) = endMatch(t, players[Opponent(d)], "FORFEIT_TIMEOUT")
          /\ afterTimeout(z, round) = endMatch(y, players[Opponent(e)], "FORFEIT_TIMEOUT")
        BY <1>3, <1>6, <2>1 DEF afterTimeout, timeoutMatch
    <2>3. t \in MatchState /\ Swap(t) = y
        BY <1>1, <2>1, AppendRoundType, SwapAppend
    <2>4. players[Opponent(d)] \in Players /\ SwapUser(players[Opponent(d)]) = players[Opponent(e)]
        BY <2>1, SwapUsers, SideFacts
    <2> HIDE DEF t, y, d, e, z
    <2> QED BY <2>2, <2>3, <2>4, SwapEnd DEF EndReason, z
<1> QED BY <1>2, <1>4, <1>5, <1>6

LEMMA SwapForfeit ==
    ASSUME NEW s \in MatchState, NEW side \in Side
    PROVE  Swap(afterForfeit(s, players[side])) = afterForfeit(Swap(s), players[Opponent(side)])
<1> DEFINE o == Opponent(side)
           z == Swap(s)
<1>1. /\ o \in Side /\ Opponent(o) = side /\ "none" \notin Side
      /\ playerIndex(players[side]) = side /\ playerIndex(players[o]) = o
    BY PlayersAssumption DEF Opponent, Side, players, playerIndex
<1>2. forfeitApplies(s, players[side]) <=> forfeitApplies(z, players[o])
    BY <1>1, SwapState DEF forfeitApplies
<1>3. SwapUser(players[o]) = players[side] /\ players[o] \in Players
    BY <1>1, SwapUsers, SideFacts
<1>4. CASE ~forfeitApplies(s, players[side])
    BY <1>2, <1>4 DEF afterForfeit
<1>5. CASE forfeitApplies(s, players[side])
    <2>1. /\ afterForfeit(s, players[side]) = endMatch(s, players[o], "DISCONNECT_FORFEIT")
          /\ afterForfeit(z, players[o]) = endMatch(z, players[side], "DISCONNECT_FORFEIT")
        BY <1>1, <1>2, <1>5 DEF afterForfeit
    <2> QED BY <1>3, <2>1, SwapEnd DEF EndReason
<1> QED BY <1>4, <1>5

-----------------------------------------------------------------------------
(* Theorems. *)

\* Every stored state is a MatchState: no round beyond MAX_ROUNDS and no score beyond
\* WINS_TO_END is ever saved.
THEOREM TypeCorrect == Spec => []TypeOK
<1>1. IInv => TypeOK
    BY DEF IInv
<1> QED BY <1>1, InitIInv, NextIInv, PTL DEF Spec

\* The score and the recorded rounds of a match always agree.
THEOREM ScoreIsCorrect == Spec => []ScoreMatchesRounds
<1>1. IInv => ScoreMatchesRounds
    BY DEF IInv
<1> QED BY <1>1, InitIInv, NextIInv, PTL DEF Spec

\* Winner, end reason and score of a match always agree.
THEOREM OutcomeIsCorrect == Spec => []OutcomeConsistent
<1>1. IInv => OutcomeConsistent
    BY DEF IInv
<1> QED BY <1>1, InitIInv, NextIInv, PTL DEF Spec

\* Neither slot of a match is privileged: every event does from one slot what it does from
\* the other, although resolveRound and resolveSilentPlayer test the slots in an order (the
\* order would show if both sides had WINS_TO_END, which OpenMatch excludes).
THEOREM SlotsAreEqual == Spec => []SidesInterchangeable
<1>1. IInv => SidesInterchangeable
    <2> SUFFICES ASSUME IInv PROVE SidesInterchangeable
        OBVIOUS
    <2>1. Sound(match) /\ match \in MatchState
        BY DEF IInv, TypeOK, OpenMatch, Sound
    <2> QED BY <2>1, SwapPlay, SwapTimeout, SwapForfeit DEF SidesInterchangeable
<1> QED BY <1>1, InitIInv, NextIInv, PTL DEF Spec
=============================================================================
