-------------------------------- MODULE Bracket --------------------------------
(***************************************************************************)
(* The tree of a single elimination tournament: seeding (packages/bracket) *)
(* and the structure job-runner builds from it.  A match is named by its   *)
(* round and its position in the round; a slot nobody is in holds NoOne.   *)
(***************************************************************************)
EXTENDS Integers, Sequences, FiniteSets

CONSTANTS BracketSize, NoOne

MAX_BRACKET_SIZE_LOG == 10

ASSUME BracketSizeAssumption == \E k \in 1..MAX_BRACKET_SIZE_LOG : BracketSize = 2^k

Rounds == CHOOSE k \in 1..MAX_BRACKET_SIZE_LOG : BracketSize = 2^k
Matches == UNION {{r} \X (0..(BracketSize \div 2^r) - 1) : r \in 1..Rounds}
Sides == {"a", "b"}

Round(m) == m[1]
Parent(m) == <<m[1] + 1, m[2] \div 2>>
Sibling(m) == <<m[1], IF m[2] % 2 = 0 THEN m[2] + 1 ELSE m[2] - 1>>
Feeder(m, side) == <<m[1] - 1, 2 * m[2] + IF side = "a" THEN 0 ELSE 1>>
\* The side of the parent that a match feeds.
FedSide(m) == IF m[2] % 2 = 0 THEN "a" ELSE "b"
Other(side) == IF side = "a" THEN "b" ELSE "a"
\* m and the matches below it.
Branch(m) == {d \in Matches : d[1] <= m[1] /\ d[2] \div 2^(m[1] - d[1]) = m[2]}

Filled(match) == {side \in Sides : match.slot[side] # NoOne}
Undecided(match) == match.winnerSlot = "none"
Playable(match) == Filled(match) = Sides /\ Undecided(match)

-----------------------------------------------------------------------------
\* seedPlayers: the best rated first; players with the same rating in any order.
Seedings(players, rating) ==
    {s \in [1..Cardinality(players) -> players] :
        \A i, j \in DOMAIN s : i < j => s[i] # s[j] /\ rating[s[i]] >= rating[s[j]]}

\* A match as it is drafted.  next says whether nextMatchId is set, linked whether
\* matchId is.
emptyMatch(m) ==
    [slot |-> [side \in Sides |-> NoOne], winnerSlot |-> "none",
     next |-> Round(m) < Rounds, linked |-> FALSE]

\* Mutant: the opponent is counted from zero.
generateFirstRound_OffByOne(seeds) ==
    LET place(i) == IF i <= Len(seeds) THEN seeds[i] ELSE NoOne IN
    [m \in Matches |->
        IF Round(m) = 1 /\ place(m[2] + 1) # NoOne
        THEN [emptyMatch(m) EXCEPT !.slot = [a |-> place(m[2] + 1), b |-> place(BracketSize - 1 - m[2])]]
        ELSE emptyMatch(m)]

\* generateFirstRound: the best against the last, the second against the last but one;
\* a place beyond the number of players is empty.
generateFirstRound(seeds) ==
    LET place(i) == IF i <= Len(seeds) THEN seeds[i] ELSE NoOne IN
    [m \in Matches |->
        IF Round(m) = 1 /\ place(m[2] + 1) # NoOne
        THEN [emptyMatch(m) EXCEPT !.slot = [a |-> place(m[2] + 1), b |-> place(BracketSize - m[2])]]
        ELSE emptyMatch(m)]

isBranchEmpty(bracket, m) == \A d \in Branch(m) : Filled(bracket[d]) = {}

hasPendingFeeder(bracket, m, side) ==
    Round(m) > 1 /\ ~isBranchEmpty(bracket, Feeder(m, side))

\* The matches of a round with one player whom nobody can meet any more: the byes of
\* round one, and the players advanceUnopposedPlayers moves on.
Unopposed(bracket, r) ==
    {m \in Matches :
        /\ Round(m) = r /\ Undecided(bracket[m])
        /\ \E side \in Sides : /\ Filled(bracket[m]) = {side}
                               /\ ~hasPendingFeeder(bracket, m, Other(side))}

\* Mutant: the side without a player.
WalkoverSide_Missing(match) == CHOOSE side \in Sides : Filled(match) = {Other(side)}

WalkoverSide(match) == CHOOSE side \in Sides : Filled(match) = {side}

\* advanceWinner for the unopposed players of round r.
advanceRound(bracket, r) ==
    LET alone == Unopposed(bracket, r)
        fedBy(m, side) == Round(m) = r + 1 /\ Feeder(m, side) \in alone
    IN [m \in Matches |->
          [bracket[m] EXCEPT
             !.winnerSlot = IF m \in alone THEN WalkoverSide(bracket[m]) ELSE @,
             !.slot = [side \in Sides |->
                 IF fedBy(m, side)
                 THEN LET f == Feeder(m, side) IN bracket[f].slot[WalkoverSide(bracket[f])]
                 ELSE @[side]]]]

\* Mutant: nothing is pruned.
prunePlayableMatchesWithEmptySibling_None(bracket) == bracket

\* A match whose winner would have no opponent is made the last one.
prunePlayableMatchesWithEmptySibling(bracket) ==
    [m \in Matches |->
        [bracket[m] EXCEPT !.next =
            @ /\ ~(Playable(bracket[m]) /\ isBranchEmpty(bracket, Sibling(m)))]]

\* A pass over the rounds from the first to the last leaves nothing for another one: a
\* player only moves upwards, and who is unopposed depends on the rounds below.
buildBracketStructure(seeds) ==
    LET through[r \in 0..Rounds] ==
            IF r = 0 THEN generateFirstRound(seeds) ELSE advanceRound(through[r - 1], r)
    IN prunePlayableMatchesWithEmptySibling(through[Rounds])

-----------------------------------------------------------------------------
\* Mutant: the first empty slot, whichever feeder the winner comes from.
feederTarget_FirstEmpty(m, parent, player) ==
    IF \E side \in Sides : parent.slot[side] = player THEN {}
    ELSE IF parent.slot["a"] = NoOne THEN {"a"}
    ELSE IF parent.slot["b"] = NoOne THEN {"b"} ELSE {}

\* resolveFeederTargetSlotUpdate: the side of the parent to fill, if any.
feederTarget(m, parent, player) ==
    IF \E side \in Sides : parent.slot[side] = player THEN {}
    ELSE IF parent.slot[FedSide(m)] = NoOne THEN {FedSide(m)}
    ELSE {side \in Sides : parent.slot[side] = NoOne}
====
