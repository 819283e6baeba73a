------------------------------ MODULE MCBrowsing ------------------------------
(* The scenarios of the run: queries that share nothing are not mixed. *)
EXTENDS Browsing

CONSTANTS ua, ub, gold, iron

Matches == {<<1, 1>>, <<1, 2>>, <<2, 1>>, <<2, 2>>}
Standings == {<<1, gold>>, <<2, iron>>}

Alone == [queries |-> {}, user |-> ua, signIns |-> {}, matches |-> {}, users |-> 1,
          clicks |-> 0, faults |-> 1]
\* The match history while matches are persisted.
Reading == [Alone EXCEPT !.queries = {"profile", "history"}, !.matches = Matches]
\* One user after the other: the header and the profile, or the histories.
Sharing == [Alone EXCEPT !.queries = {"season", "profile"}, !.signIns = {ua, ub}]
Succeeding == [Alone EXCEPT !.queries = {"profile", "history"}, !.signIns = {ua, ub},
                            !.matches = {<<1, 1>>, <<2, 1>>}]
\* The administration while users register.
Administrating == [Alone EXCEPT !.queries = {"users"}, !.users = 3]
Auditing == [Alone EXCEPT !.queries = {"users", "audit"}, !.matches = {<<1, 1>>}]
\* A visitor looks at the archived season.
Remembering == [Alone EXCEPT !.queries = {"closed", "standings"}, !.user = Nobody, !.faults = 0]
\* A player registers and leaves, or follows the list.
Entering == [Alone EXCEPT !.queries = {"tournament"}, !.user = ub, !.clicks = 2]
Listing == [Alone EXCEPT !.queries = {"tournaments", "tournament"}, !.user = ub,
                         !.clicks = 1, !.faults = 0]

AllScenarios == {Reading, Sharing, Succeeding, Administrating, Auditing, Remembering, Entering, Listing}
====
