------------------------------- MODULE MCLadder -------------------------------
(* The scenarios of the runs: what is mixed is what can interfere. *)
EXTENDS Ladder

CONSTANTS alice, bob, carol, m1, m2, m3

\* Near equal ratings the logistic curve is a line, to a thousandth up to 60 points.
Logistic(d) == 500 + (1439 * d) \div 1000

\* Alice meets both others; her K-factor is about to change.
Pairings == m1 :> <<alice, bob>> @@ m2 :> <<carol, alice>> @@ m3 :> <<alice, bob>>
Ratings3 == alice :> [rating |-> 1000, games |-> 29] @@ bob :> [rating |-> 1000, games |-> 30]
            @@ carol :> [rating |-> 1020, games |-> 3]

Quiet ==
    [elo |-> Ratings3, matches |-> {}, outcomes |-> {"A"}, seasons |-> <<"active", "upcoming">>,
     cron |-> FALSE, expires |-> {}, closes |-> 0, board |-> FALSE, faulty |-> {"worker"}, faults |-> 0]

\* Matches of one player, one delivered again.
Persist == [Quiet EXCEPT !.matches = {m1, m2, m3}, !.faults = 1]
Draws == [Quiet EXCEPT !.matches = {m1, m2}, !.outcomes = {"A", "B", "DRAW"}]
\* The leaderboard is read while a match is persisted.
Board == [Quiet EXCEPT !.matches = {m1, m2}, !.board = TRUE, !.faults = 1]
\* The administrator closes a season and a worker fails, or has to close it again.
Close == [Quiet EXCEPT !.closes = 1, !.cron = TRUE, !.faults = 1]
Reclose == [Quiet EXCEPT !.closes = 2, !.faulty = {"api"}, !.faults = 1]
\* The date of the season passes: the cron job, next to the administrator ...
Expiry == [Quiet EXCEPT !.cron = TRUE, !.expires = {1}, !.closes = 1]
\* ... or alone, and something fails.
CronFails == [Quiet EXCEPT !.cron = TRUE, !.expires = {1}, !.faults = 1]
\* A season that nobody follows until one is created.
Late == [Quiet EXCEPT !.seasons = <<"active", "absent">>, !.closes = 1]
\* Matches end around the reset.
Mixed == [Quiet EXCEPT !.matches = {m1, m2}, !.closes = 1]

AllScenarios == {Persist, Draws, Board, Close, Reclose, Expiry, CronFails, Late, Mixed}
====
