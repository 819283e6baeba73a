------------------------------- MODULE Browsing -------------------------------
(***************************************************************************)
(* The pages of one browser tab and the reads of the API behind them:      *)
(* profile and match history, tournaments and registration, archived       *)
(* seasons, administration.  Every page keeps what it loaded in the query  *)
(* cache of react-query (external), while matches, players, registrations  *)
(* and seasons change on the server.                                       *)
(*                                                                         *)
(* A query is a key of the cache; its data is the sequence of the pages it *)
(* has loaded, one page except for the history.  A fetch is sent, read by  *)
(* the server, and answered later.  Tokens are those of module Accounts: a *)
(* request is made for the user who is signed in when it is sent.          *)
(***************************************************************************)
EXTENDS Integers, FiniteSets, Sequences

CONSTANTS
    Users, Admins, Nobody,
    MatchPool,          \* matches that may be persisted: <<endedAt, id>>
    StandingPool,       \* standings of the season: <<rank, league>>
    Leagues, AllLeagues,
    HistoryLimit, PageLimit,
    BracketSize,
    MaxUsers,           \* bound: registered users
    Scenarios           \* bound: which queries are mixed in one behaviour

ASSUME BrowsingAssumption ==
    /\ Admins \subseteq Users /\ Nobody \notin Users
    /\ MatchPool \subseteq (Nat \ {0}) \X (Nat \ {0})
    /\ HistoryLimit \in Nat \ {0} /\ PageLimit \in Nat \ {0}
    /\ BracketSize \in Nat /\ MaxUsers \in Nat
    /\ IsFiniteSet(StandingPool)

\* A scenario names the queries the tab makes, says who is signed in and who signs in
\* later, and bounds the matches that are played, the users that register, the clicks on
\* the buttons of the registration, and the failing requests.
Queries == {"season", "profile", "history", "users", "audit", "closed", "standings",
            "tournaments", "tournament"}
ASSUME BrowsingScenarios ==
    Scenarios \subseteq [queries : SUBSET Queries, user : Users \cup {Nobody},
                         signIns : SUBSET Users, matches : SUBSET MatchPool,
                         users : 1..MaxUsers, clicks : Nat, faults : Nat]

VARIABLES
    db,         \* the tables of PostgreSQL that are read
    me,         \* the signed-in user
    route,      \* the page that is shown
    view,       \* its component state
    cache,      \* the query cache
    flight,     \* the fetch of each query
    calls,      \* the calls of the registration buttons
    scenario,   \* what is left of the scenario
    attentive   \* history: no registration was left unanswered

clientVars == <<me, route, view, cache, flight, calls, scenario, attentive>>
vars == <<db, clientVars>>

\* The pages of a list, at least one.
pageCount(total) == IF total = 0 THEN 1 ELSE (total + PageLimit - 1) \div PageLimit

Keys ==
    {<<"season">>, <<"closed">>, <<"tournaments">>, <<"tournament">>}
    \cup ({"profile", "history"} \X Users)
    \cup ({"users"} \X (1..pageCount(MaxUsers))) \cup ({"audit"} \X MatchPool)
    \cup ({"standings"} \X (1..pageCount(Cardinality(StandingPool))) \X (Leagues \cup {AllLeagues}))

NoCursor == <<0, 0>>
NoPage == [code |-> 0, rows |-> {}, next |-> NoCursor, total |-> 0, open |-> FALSE, asOf |-> {}]
NoFetch == [phase |-> "idle", base |-> <<>>, got |-> <<>>, want |-> 0, answer |-> NoPage,
            tries |-> 0, by |-> Nobody]
NoQuery == [data |-> <<>>, stale |-> FALSE, error |-> FALSE]
NewView == [page |-> 1, league |-> AllLeagues, tab |-> "overview", previous |-> <<>>,
            match |-> NoCursor]

Init ==
    /\ scenario \in Scenarios
    /\ db = [matches |-> [u \in Users |-> {}], users |-> 1, season |-> "active",
             standings |-> {}, open |-> TRUE, entrants |-> {}]
    /\ me = scenario.user
    /\ route = "lobby" /\ view = NewView
    /\ cache = [k \in Keys |-> NoQuery]
    /\ flight = [k \in Keys |-> NoFetch]
    /\ calls = <<>>
    /\ attentive = TRUE

-----------------------------------------------------------------------------
(* The reads of the API *)

Found(rows) == [NoPage EXCEPT !.code = 200, !.rows = rows]
Refused(code) == [NoPage EXCEPT !.code = code]

\* RolesGuard, after JwtAuthGuard
canActivate(u, required) == required = {} \/ u \in required

\* orderBy endedAt desc, id desc
Before(m, n) == m[1] > n[1] \/ (m[1] = n[1] /\ m[2] > n[2])

\* Mutant: the id of the cursor is forgotten.
afterCursor_TimeOnly(cursor, m) == cursor = NoCursor \/ m[1] < cursor[1]

\* The rows that come after the decoded cursor.
afterCursor(cursor, m) == cursor = NoCursor \/ Before(cursor, m)

\* The first n rows of a set in that order, and the last of them.
Take(rows, n) == {m \in rows : Cardinality({k \in rows : Before(k, m)}) < n}
Last(rows) == CHOOSE m \in rows : \A k \in rows \ {m} : Before(k, m)

\* A cursor is the time, to the millisecond that Date and the column have, and the id.
encodeHistoryCursor(m) == <<m[1], m[2]>>

getHistory(u, cursor) ==
    LET ended == {m \in db.matches[u] : afterCursor(cursor, m)}
        hasMore == Cardinality(Take(ended, HistoryLimit + 1)) > HistoryLimit
        page == Take(ended, HistoryLimit)
    IN [Found(page) EXCEPT
          !.next = IF hasMore THEN encodeHistoryCursor(Last(page)) ELSE NoCursor,
          !.asOf = db.matches[u]]

\* getMe and getHistory: the rows of the user the token names.
MeController(u, cursor) ==
    IF u = Nobody THEN Refused(401) ELSE getHistory(u, cursor)

\* useProfile on one's own profile waits for /me and for the public profile of the id.
getCurrentProfile(u) == <<"me", u>>
getPublicProfile(id) == <<"stats", id>>
OwnProfile(u, id) ==
    IF u = Nobody THEN Refused(401) ELSE Found({getCurrentProfile(u), getPublicProfile(id)})

\* skip and take
Paged(n, page) == {i \in 1..n : (page - 1) * PageLimit < i /\ i <= page * PageLimit}

listUsers(page) == Found(Paged(db.users, page))
UsersController(u, k) ==
    IF u = Nobody THEN Refused(401)
    ELSE IF ~canActivate(u, Admins) THEN Refused(403)
    ELSE listUsers(k[2])

\* A match is persisted when it has ended.
buildAudit(id) ==
    IF \E u \in Users : id \in db.matches[u] THEN Found({id}) ELSE Refused(404)

\* The active season, and where the user stands in it.
getCurrent(u) == IF db.season = "active" THEN Found({<<"me", u>>}) ELSE Refused(404)

listClosed == Found({s \in {db.season} : s = "closed"})

\* resolveLeague and the filter of the standings.
InLeague(league) == {s \in db.standings : league \in {AllLeagues, s[2]}}
getStandings(page, league) ==
    LET rows == InLeague(league)
        Rank(s) == Cardinality({r \in rows : r[1] <= s[1]})
    IN IF db.season # "closed" THEN Refused(409)
       ELSE Found({s \in rows : Rank(s) \in Paged(Cardinality(rows), page)})

SeasonsController(u, k) ==
    CASE k = <<"closed">> -> listClosed
      [] k[1] = "standings" -> getStandings(k[2], k[3])
      [] k = <<"season">> /\ u = Nobody -> Refused(401)
      [] k = <<"season">> /\ u # Nobody -> getCurrent(u)

toListItem == [NoPage EXCEPT !.code = 200, !.open = db.open, !.total = Cardinality(db.entrants)]
listTournaments == toListItem
getTournamentDetail == [toListItem EXCEPT !.rows = db.entrants]
TournamentsController(u, k) ==
    IF u = Nobody THEN Refused(401)
    ELSE IF k = <<"tournaments">> THEN listTournaments
    ELSE getTournamentDetail

\* What the API answers to the queryFn of a key.
Respond(u, k, cursor) ==
    CASE k[1] = "history" -> MeController(u, cursor)
      [] k[1] = "profile" -> OwnProfile(u, k[2])
      [] k[1] = "users" -> UsersController(u, k)
      [] k[1] = "audit" -> buildAudit(k[2])
      [] k[1] \in {"season", "closed", "standings"} -> SeasonsController(u, k)
      [] k[1] \in {"tournaments", "tournament"} -> TournamentsController(u, k)

\* The count of a page is a second statement.
Counted(k) == k[1] \in {"users", "standings", "tournament"}
Count(k) ==
    CASE k[1] = "users" -> db.users
      [] k[1] = "standings" -> Cardinality(InLeague(k[3]))
      [] k[1] = "tournament" -> Cardinality(db.entrants)

-----------------------------------------------------------------------------
(* react-query: a query is fetched, retried once, and kept *)

\* The queries of the header and of each page.
Header(u) == IF u = Nobody THEN {} ELSE {<<"season">>}
ProfilePage(u, v) == {<<"profile", u>>} \cup (IF v.tab = "history" THEN {<<"history", u>>} ELSE {})
useAdminUsers(v) == {<<"users", v.page>>}
AdminMatchAuditPage(v) == {<<"audit", v.match>>}
useClosedSeasons == {<<"closed">>}
useSeasonStandings(v) == {<<"standings", v.page, v.league>>}
TournamentsPage == {<<"tournaments">>}
useTournament == {<<"tournament">>}

Queried(u, r, v) ==
    {k \in Header(u) \cup
            CASE r = "profile" -> ProfilePage(u, v)
              [] r = "users" -> useAdminUsers(v)
              [] r = "audit" -> AdminMatchAuditPage(v)
              [] r = "leaderboard" -> useClosedSeasons
              [] r = "standings" -> useSeasonStandings(v)
              [] r = "tournaments" -> TournamentsPage
              [] r = "tournament" -> useTournament
              [] OTHER -> {} : k[1] \in scenario.queries}
Mounted == Queried(me, route, view)

\* A fetch loads the pages there are again, the first one at least ...
Reloading(k) ==
    [NoFetch EXCEPT !.phase = "sent", !.by = me,
       !.want = IF cache[k].data = <<>> THEN 1 ELSE Len(cache[k].data)]
\* ... or one more page.
Extending(k) ==
    [NoFetch EXCEPT !.phase = "sent", !.by = me, !.base = cache[k].data,
       !.got = cache[k].data, !.want = Len(cache[k].data) + 1]

\* The queries K start to load; one without data is pending again.
Fetch(K, c) ==
    /\ flight' = [k \in Keys |-> IF k \in K THEN Reloading(k) ELSE flight[k]]
    /\ cache' = [k \in Keys |-> IF k \in K /\ c[k].data = <<>> THEN NoQuery ELSE c[k]]

\* The queries that are mounted with this page are fetched when they are missing or
\* old, and not being fetched already.
Mount(r, v) ==
    Fetch({k \in Queried(me, r, v) \ Mounted :
             (cache[k].data = <<>> \/ cache[k].stale) /\ flight[k] = NoFetch}, cache)

\* Five seconds have passed since the data arrived.
StaleTime(k) ==
    /\ cache[k].data # <<>> /\ ~cache[k].stale
    /\ cache' = [cache EXCEPT ![k].stale = TRUE]
    /\ UNCHANGED <<db, me, route, view, flight, calls, scenario, attentive>>

\* The window gets the focus: what is stale is fetched.
Focus ==
    LET K == {k \in Mounted : (cache[k].data = <<>> \/ cache[k].stale) /\ flight[k] = NoFetch} IN
    /\ K # {} /\ Fetch(K, cache)
    /\ UNCHANGED <<db, me, route, view, calls, scenario, attentive>>

\* Every thirty seconds the current season is fetched.
RefetchInterval ==
    /\ <<"season">> \in Mounted /\ flight[<<"season">>] = NoFetch
    /\ Fetch({<<"season">>}, cache)
    /\ UNCHANGED <<db, me, route, view, calls, scenario, attentive>>

\* getNextPageParam of the page loaded last.
NextCursor(got) == IF got = <<>> THEN NoCursor ELSE got[Len(got)].next

\* The handler of the API reads the rows ...
Read(k) ==
    /\ flight[k].phase = "sent"
    /\ LET answer == Respond(flight[k].by, k, NextCursor(flight[k].got)) IN
       flight' = [flight EXCEPT ![k].answer = answer,
                    ![k].phase = IF answer.code = 200 /\ Counted(k) THEN "counting" ELSE "answered"]
    /\ UNCHANGED <<db, me, route, view, cache, calls, scenario, attentive>>

\* ... and counts them.
ReadTotal(k) ==
    /\ flight[k].phase = "counting"
    /\ flight' = [flight EXCEPT ![k].answer.total = Count(k), ![k].phase = "answered"]
    /\ UNCHANGED <<db, me, route, view, cache, calls, scenario, attentive>>

\* A request fails on its way.
RequestFails(k) ==
    /\ flight[k].phase \in {"sent", "counting"}
    /\ scenario.faults > 0 /\ scenario' = [scenario EXCEPT !.faults = @ - 1]
    /\ flight' = [flight EXCEPT ![k].answer = Refused(503), ![k].phase = "answered"]
    /\ UNCHANGED <<db, me, route, view, cache, calls, attentive>>

\* The answer arrives: the next page of the fetch, the end of it, the second try, or an
\* error next to the data there was.
Arrive(k) ==
    LET f == flight[k]
        got == Append(f.got, f.answer)
        complete == Len(got) >= f.want \/ (k[1] = "history" /\ NextCursor(got) = NoCursor)
    IN
    /\ f.phase = "answered"
    /\ \/ /\ f.answer.code = 200 /\ ~complete
          /\ flight' = [flight EXCEPT ![k].got = got, ![k].answer = NoPage,
                                      ![k].phase = "sent", ![k].by = me]
          /\ UNCHANGED cache
       \/ /\ f.answer.code = 200 /\ complete
          /\ cache' = [cache EXCEPT ![k] = [NoQuery EXCEPT !.data = got]]
          /\ flight' = [flight EXCEPT ![k] = NoFetch]
       \/ /\ f.answer.code # 200 /\ f.tries = 0
          /\ flight' = [flight EXCEPT ![k].got = f.base, ![k].answer = NoPage, ![k].tries = 1,
                                      ![k].phase = "sent", ![k].by = me]
          /\ UNCHANGED cache
       \/ /\ f.answer.code # 200 /\ f.tries = 1
          /\ cache' = [cache EXCEPT ![k].error = TRUE]
          /\ flight' = [flight EXCEPT ![k] = NoFetch]
    /\ UNCHANGED <<db, me, route, view, calls, scenario, attentive>>

-----------------------------------------------------------------------------
(* The pages *)

\* What a page has to show for a query: its data, or with keepPreviousData the page
\* that was shown before.
Data(k) ==
    IF k[1] = "users" /\ cache[k].data = <<>> /\ ~cache[k].error THEN view.previous
    ELSE cache[k].data

\* AsyncPanel shows its children: neither loading nor in error, nor empty.
AsyncPanel(k) == k \in Mounted /\ ~cache[k].error /\ Data(k) # <<>>
isEmpty(k) == Data(k)[1].rows = {}

Show(r, v) ==
    /\ Mount(r, v)
    /\ route' = r /\ view' = v
    /\ UNCHANGED <<db, me, scenario>>

Pages == {"lobby", "profile", "users", "audit", "leaderboard", "standings", "tournaments", "tournament"}
\* A page is part of the scenario when its own query is.
Query(r) == CASE r = "leaderboard" -> {"closed"} [] r = "lobby" -> {} [] OTHER -> {r}

Unanswered == \E i \in DOMAIN calls : calls[i].phase # "done"
\* The component is gone: its buttons do not know the calls in progress any more.
Detached == [i \in DOMAIN calls |-> [calls[i] EXCEPT !.attached = FALSE]]

\* ProtectedRoute and AdminRoute let the user in; a link opens the page.  The archived
\* seasons are linked from the leaderboard.
ProtectedRoute == me # Nobody
AdminRoute == me \in Admins
Navigate(r) ==
    /\ r # route /\ Query(r) \subseteq scenario.queries
    /\ r \in {"lobby", "profile", "tournaments", "tournament"} => ProtectedRoute
    /\ r \in {"users", "audit"} => AdminRoute
    /\ r = "standings" =>
         route = "leaderboard" /\ AsyncPanel(<<"closed">>) /\ ~isEmpty(<<"closed">>)
    /\ \E id \in IF r = "audit" THEN scenario.matches ELSE {NoCursor} :
          Show(r, [NewView EXCEPT !.match = id])
    /\ calls' = Detached /\ attentive' = (attentive /\ ~Unanswered)

\* ProfilePage: the tabs of one's own profile.
SelectTab(tab) ==
    /\ route = "profile" /\ AsyncPanel(<<"profile", me>>) /\ view.tab # tab
    /\ "history" \in scenario.queries
    /\ Show(route, [view EXCEPT !.tab = tab])
    /\ UNCHANGED <<calls, attentive>>

\* MatchHistoryList: "Charger plus" replaces a fetch that reloads the list.
isFetchingNextPage(k) == flight[k] # NoFetch /\ flight[k].want > Len(cache[k].data)
LoadMore ==
    LET k == <<"history", me>> IN
    /\ AsyncPanel(k) /\ ~isEmpty(k)
    /\ NextCursor(cache[k].data) # NoCursor /\ ~isFetchingNextPage(k)
    /\ flight' = [flight EXCEPT ![k] = Extending(k)]
    /\ UNCHANGED <<db, me, route, view, cache, calls, scenario, attentive>>

\* The button of a panel in error.
Retry(k) ==
    /\ k \in Mounted /\ cache[k].error
    /\ Fetch({k}, cache)
    /\ UNCHANGED <<db, me, route, view, calls, scenario, attentive>>

\* canPrev and canNext
canTurn(page, step, total) == page + step \in 1..pageCount(total)

\* AdminUsersPage: the rows before stay until the next ones are there.
TurnUsersPage(step) ==
    LET k == <<"users", view.page>> IN
    /\ route = "users" /\ AsyncPanel(k) /\ ~isEmpty(k)
    /\ canTurn(view.page, step, Data(k)[1].total)
    /\ Show(route, [view EXCEPT !.page = @ + step, !.previous = Data(k)])
    /\ UNCHANGED <<calls, attentive>>

\* SeasonStandingsPage
TurnStandingsPage(step) ==
    LET k == <<"standings", view.page, view.league>> IN
    /\ route = "standings" /\ AsyncPanel(k) /\ ~isEmpty(k)
    /\ canTurn(view.page, step, Data(k)[1].total)
    /\ Show(route, [view EXCEPT !.page = @ + step])
    /\ UNCHANGED <<calls, attentive>>

\* Mutant: the page number stays.
handleLeagueChange_KeepsPage(v, league) == [v EXCEPT !.league = league]

handleLeagueChange(v, league) == [v EXCEPT !.league = league, !.page = 1]
ChooseLeague(league) ==
    /\ route = "standings" /\ view.league # league
    /\ Show(route, handleLeagueChange(view, league))
    /\ UNCHANGED <<calls, attentive>>

-----------------------------------------------------------------------------
(* Registration for a tournament *)

isRegistrationOpen(data) == data.open
isTournamentFull(data) == data.total >= BracketSize
isRegistered(data) == me \in data.rows
isPending(op) == \E i \in DOMAIN calls : calls[i].op = op /\ calls[i].attached /\ calls[i].phase # "done"

\* The buttons of TournamentDetailPage.
Click(op) ==
    LET data == Data(<<"tournament">>)[1] IN
    /\ route = "tournament" /\ AsyncPanel(<<"tournament">>)
    /\ isRegistrationOpen(data) /\ ~isPending(op) /\ Len(calls) < scenario.clicks
    /\ IF op = "unregister" THEN isRegistered(data) ELSE ~isRegistered(data) /\ ~isTournamentFull(data)
    /\ calls' = Append(calls, [op |-> op, by |-> me, phase |-> "sent", ok |-> FALSE, attached |-> TRUE])
    /\ UNCHANGED <<db, me, route, view, cache, flight, scenario, attentive>>

\* registerPlayer and unregisterPlayer (module Tournament has their steps).
Accepted(op, u) ==
    /\ db.open
    /\ op = "register" => Cardinality(db.entrants) < BracketSize /\ u \notin db.entrants
Registrations(op, u) == IF op = "register" THEN db.entrants \cup {u} ELSE db.entrants \ {u}

CallServed(i) ==
    /\ calls[i].phase = "sent"
    /\ LET ok == Accepted(calls[i].op, calls[i].by) IN
       /\ calls' = [calls EXCEPT ![i].phase = "answered", ![i].ok = ok]
       /\ db' = [db EXCEPT !.entrants = IF ok THEN Registrations(calls[i].op, calls[i].by) ELSE @]
    /\ UNCHANGED <<me, route, view, cache, flight, scenario, attentive>>

\* Mutant: only the list of the tournaments is invalidated.
invalidated_ListOnly(k) == k = <<"tournaments">>

\* The queries onSuccess invalidates.
invalidated(k) == k \in {<<"tournament">>, <<"tournaments">>}

\* The answer arrives.  After a success what is shown is fetched anew, a fetch that has
\* data to replace is dropped first, and the call is pending until then.
CallAnswered(i) ==
    /\ calls[i].phase = "answered"
    /\ IF calls[i].ok
         THEN /\ Fetch({k \in Mounted : invalidated(k) /\ (cache[k].data # <<>> \/ flight[k] = NoFetch)},
                       [k \in Keys |-> IF invalidated(k) THEN [cache[k] EXCEPT !.stale = TRUE] ELSE cache[k]])
              /\ calls' = [j \in DOMAIN calls |->
                             IF j = i THEN [calls[j] EXCEPT !.phase = "refetching"]
                             ELSE IF calls[j].phase = "refetching" THEN [calls[j] EXCEPT !.phase = "done"]
                             ELSE calls[j]]
         ELSE calls' = [calls EXCEPT ![i].phase = "done"] /\ UNCHANGED <<cache, flight>>
    /\ UNCHANGED <<db, me, route, view, scenario, attentive>>

CallSettles(i) ==
    /\ calls[i].phase = "refetching" /\ flight[<<"tournament">>] = NoFetch
    /\ calls' = [calls EXCEPT ![i].phase = "done"]
    /\ UNCHANGED <<db, me, route, view, cache, flight, scenario, attentive>>

\* The answer is lost: an error is shown and nothing is fetched.
CallLost(i) ==
    /\ calls[i].phase \in {"sent", "answered"}
    /\ scenario.faults > 0 /\ scenario' = [scenario EXCEPT !.faults = @ - 1]
    /\ calls' = [calls EXCEPT ![i].phase = "done"] /\ attentive' = FALSE
    /\ UNCHANGED <<db, me, route, view, cache, flight>>

-----------------------------------------------------------------------------
(* Sessions *)

\* Mutant: what was loaded is kept for the next user.
clearUserQueries_Keeps == UNCHANGED <<cache, flight>>

\* queryClient.clear(): the queries and their fetches are dropped.
clearUserQueries ==
    /\ cache' = [k \in Keys |-> NoQuery]
    /\ flight' = [k \in Keys |-> NoFetch]

\* clearSession, after a logout or a refresh that failed: a protected page is left.
SignOut ==
    /\ me # Nobody /\ scenario.signIns # {}
    /\ me' = Nobody
    /\ clearUserQueries
    /\ route' = "login" /\ view' = NewView
    /\ calls' = Detached /\ attentive' = (attentive /\ ~Unanswered)
    /\ UNCHANGED <<db, scenario>>

\* login: the tab's queries are dropped once more, then the user is set.
SignIn(u) ==
    /\ me = Nobody /\ u \in scenario.signIns
    /\ me' = u
    /\ clearUserQueries
    /\ route' = "lobby" /\ view' = NewView
    /\ UNCHANGED <<db, calls, scenario, attentive>>

\* The header's query is enabled again by the render that follows.
HeaderRenders ==
    /\ <<"season">> \in Mounted /\ flight[<<"season">>] = NoFetch
    /\ cache[<<"season">>] = NoQuery
    /\ Fetch({<<"season">>}, cache)
    /\ UNCHANGED <<db, me, route, view, calls, scenario, attentive>>

-----------------------------------------------------------------------------
(* What happens elsewhere *)

Changes(new) == db' = new /\ UNCHANGED clientVars

\* The job runner persists a match of a user of the tab against somebody else, perhaps
\* after later ones.
PersistMatch(u, m) ==
    /\ {"history", "audit"} \cap scenario.queries # {}
    /\ u \in {scenario.user} \cup scenario.signIns
    /\ m \in scenario.matches /\ \A w \in Users : m \notin db.matches[w]
    /\ Changes([db EXCEPT !.matches[u] = @ \cup {m}])

\* Somebody registers.
NewUser ==
    /\ "users" \in scenario.queries /\ db.users < scenario.users
    /\ Changes([db EXCEPT !.users = @ + 1])

\* The season is closed, and archived by its reset job afterwards.
CloseSeason ==
    /\ {"standings", "season"} \cap scenario.queries # {} /\ db.season = "active"
    /\ Changes([db EXCEPT !.season = "closed"])
ArchiveSeason ==
    /\ "standings" \in scenario.queries /\ db.season = "closed" /\ db.standings = {}
    /\ Changes([db EXCEPT !.standings = StandingPool])

\* Another player registers or leaves; the tournament starts.
OtherRegistration(u) ==
    /\ "tournament" \in scenario.queries /\ u # me
    /\ \E op \in {"register", "unregister"} :
          Accepted(op, u) /\ Changes([db EXCEPT !.entrants = Registrations(op, u)])
StartTournament ==
    /\ "tournament" \in scenario.queries /\ db.open /\ Cardinality(db.entrants) >= 2
    /\ Changes([db EXCEPT !.open = FALSE])

Next ==
    \/ \E r \in Pages : Navigate(r)
    \/ \E tab \in {"overview", "history"} : SelectTab(tab)
    \/ \E step \in {-1, 1} : TurnUsersPage(step) \/ TurnStandingsPage(step)
    \/ \E league \in Leagues \cup {AllLeagues} : ChooseLeague(league)
    \/ LoadMore \/ Focus \/ RefetchInterval \/ HeaderRenders
    \/ \E k \in Keys : StaleTime(k) \/ Read(k) \/ ReadTotal(k) \/ RequestFails(k) \/ Arrive(k) \/ Retry(k)
    \/ \E op \in {"register", "unregister"} : Click(op)
    \/ \E i \in DOMAIN calls : CallServed(i) \/ CallAnswered(i) \/ CallSettles(i) \/ CallLost(i)
    \/ SignOut \/ \E u \in Users : SignIn(u) \/ OtherRegistration(u)
    \/ \E u \in Users, m \in MatchPool : PersistMatch(u, m)
    \/ NewUser \/ CloseSeason \/ ArchiveSeason \/ StartTournament

Spec == Init /\ [][Next]_vars

-----------------------------------------------------------------------------
(* Properties *)

\* A page of a list is never one past the end: AsyncPanel would show an empty list
\* without the buttons that lead back.
NeverPastTheEnd ==
    /\ route = "users" => view.page <= pageCount(db.users)
    /\ route = "standings" => view.page <= pageCount(Cardinality(InLeague(view.league)))

\* The match history that is shown is in order and without repetition across its pages,
\* and misses no match that was there when its first page was read and belongs above
\* its end, although matches of the same instant, and older ones, are persisted while
\* it is loaded page by page, reloaded, or extended.
HistoryComplete ==
    LET data == cache[<<"history", me>>].data
        shown == UNION {data[i].rows : i \in DOMAIN data}
    IN me # Nobody /\ data # <<>> =>
         /\ \A i, j \in DOMAIN data : i < j =>
              \A m \in data[i].rows, n \in data[j].rows : Before(m, n)
         /\ \A m \in data[1].asOf \ shown :
              NextCursor(data) # NoCursor /\ Before(Last(shown), m)

\* The tournament page, at rest, shows whether the player is registered: a fetch that
\* was answered before the registration never has the last word.  (A player who leaves
\* the page before the answer, or does not get one, may see the old state again.)
RegistrationShown ==
    LET k == <<"tournament">> IN
    AsyncPanel(k) /\ route = "tournament" /\ flight[k] = NoFetch /\ ~Unanswered /\ attentive
    => isRegistered(Data(k)[1]) = (me \in db.entrants)

\* What is shown of the user, the league in the header, the address in the profile,
\* every page of the history, is the signed-in user's, whoever used the tab before: the
\* key of the current season does not name the user, and a history that is loaded page by
\* page asks each page for whoever is signed in then.
OwnDataOnly ==
    /\ AsyncPanel(<<"season">>) => Data(<<"season">>)[1].rows = {<<"me", me>>}
    /\ me # Nobody /\ AsyncPanel(<<"profile", me>>) =>
         <<"me", me>> \in Data(<<"profile", me>>)[1].rows
    /\ me # Nobody /\ AsyncPanel(<<"history", me>>) =>
         \A i \in DOMAIN Data(<<"history", me>>) :
            Data(<<"history", me>>)[i].rows \subseteq db.matches[me]
====
