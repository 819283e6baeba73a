------------------------------- MODULE Ratings -------------------------------
(***************************************************************************)
(* The arithmetic of the ladder: packages/elo, packages/leagues and the    *)
(* queries that order the players.  An entry is a row of elo_ratings,      *)
(* [rating, games].  A real number x is kept in thousandths and            *)
(* Math.round(x) is floor(x + 1/2).                                        *)
(***************************************************************************)
EXTENDS Integers, FiniteSets

CONSTANT getExpectedScore(_)    \* thousandths of 1 / (1 + 10 ^ (-d / 400))

Round(thousandths) == (thousandths + 500) \div 1000

-----------------------------------------------------------------------------
(* packages/elo *)

getKFactor(e) ==
    IF e.rating > 2400 THEN 16
    ELSE IF e.games < 30 THEN 40
    ELSE 32

\* The score of side A, in thousandths, for each outcome.
getScore(outcome) ==
    CASE outcome = "A" -> 1000
      [] outcome = "B" -> 0
      [] outcome = "DRAW" -> 500

\* What the match adds to the ratings of A and of B.
computeElo(a, b, outcome) ==
    LET expectedA == getExpectedScore(a.rating - b.rating)
        scoreA == getScore(outcome)
    IN  [A |-> Round(getKFactor(a) * (scoreA - expectedA)),
         B |-> Round(getKFactor(b) * ((1000 - scoreA) - (1000 - expectedA)))]

softResetRating(rating) == Round(750 * rating + 250 * 1000)

-----------------------------------------------------------------------------
(* packages/leagues *)

Unbounded == -1     \* a maxRating of null
REFERENCE_LEAGUES ==
    <<[name |-> "Bronze", min |-> 0, max |-> 1099],
      [name |-> "Silver", min |-> 1100, max |-> 1199],
      [name |-> "Gold", min |-> 1200, max |-> 1349],
      [name |-> "Platinum", min |-> 1350, max |-> Unbounded]>>

InLeague(rating, l) ==
    rating >= REFERENCE_LEAGUES[l].min
    /\ (REFERENCE_LEAGUES[l].max = Unbounded \/ rating <= REFERENCE_LEAGUES[l].max)

\* The tiers a rating falls in: the code takes the first, and throws when there is none.
LeaguesOf(rating) == {l \in DOMAIN REFERENCE_LEAGUES : InLeague(rating, l)}
getLeagueForRating(rating) == CHOOSE l \in LeaguesOf(rating) : \A k \in LeaguesOf(rating) : l <= k

-----------------------------------------------------------------------------
(* ORDER BY rating DESC, games_played DESC *)

Ahead(e, f) == e.rating > f.rating \/ (e.rating = f.rating /\ e.games > f.games)

\* The ranks the query may give: rows that tie come in any order.
Rankings(elo) ==
    {rank \in [DOMAIN elo -> 1..Cardinality(DOMAIN elo)] :
        \A p, q \in DOMAIN elo :
            /\ Ahead(elo[p], elo[q]) => rank[p] < rank[q]
            /\ rank[p] = rank[q] => p = q}
====
