---------------------------- MODULE BrowsingProofs ----------------------------
(***************************************************************************)
(* The pages of a tab, for any users, matches, standings, limits and       *)
(* scenarios.                                                              *)
(***************************************************************************)
EXTENDS Browsing, FiniteSetTheorems, WellFoundedInduction, TLAPS

(* What the variables hold. *)

Rows == ({"me", "stats"} \X (Users \cup {Nobody})) \cup Nat \cup MatchPool \cup {"closed"}
        \cup StandingPool \cup Users
Page == [code : Nat, rows : SUBSET Rows, next : Nat \X Nat, total : Nat, open : BOOLEAN,
         asOf : SUBSET MatchPool]
Stored == [data : Seq(Page), stale : BOOLEAN, error : BOOLEAN]
Fetched == [phase : {"idle", "sent", "counting", "answered"}, base : Seq(Page), got : Seq(Page),
            want : Nat, answer : Page, tries : {0, 1}, by : Users \cup {Nobody}]
AnyLeague == Leagues \cup {AllLeagues}

Tables ==
    /\ db \in [matches : [Users -> SUBSET MatchPool], users : Nat, season : {"active", "closed"},
               standings : {{}, StandingPool}, open : BOOLEAN, entrants : SUBSET Users]
    /\ \A u \in Users : IsFiniteSet(db.matches[u])
    /\ IsFiniteSet(db.entrants)
    /\ db.users \in 1..scenario.users

Tab ==
    /\ me \in Users \cup {Nobody}
    /\ route \in Pages \cup {"login"}
    /\ view \in [page : Nat, league : AnyLeague, tab : {"overview", "history"},
                 previous : Seq(Page), match : MatchPool \cup {NoCursor}]
    /\ calls \in Seq([op : {"register", "unregister"}, by : Users,
                      phase : {"sent", "answered", "refetching", "done"}, ok : BOOLEAN,
                      attached : BOOLEAN])
    /\ scenario \in [queries : SUBSET Queries, user : Users \cup {Nobody},
                     signIns : SUBSET Users, matches : SUBSET MatchPool,
                     users : 1..MaxUsers, clicks : Nat, faults : Nat]
    /\ attentive \in BOOLEAN

Cached == cache \in [Keys -> Stored] /\ flight \in [Keys -> Fetched]

\* The pages of a list that is shown exist, and so do those before.
Shown ==
    /\ route \in {"profile", "tournament"} => me # Nobody
    /\ route = "users" => view.page \in 1..pageCount(db.users)
    /\ route = "standings" => view.page \in 1..pageCount(Cardinality(InLeague(view.league)))
    /\ \A i \in DOMAIN view.previous : view.previous[i].total <= db.users

\* A fetch is made for the signed-in user, and its answer comes last.
Phases(k) ==
    /\ flight[k].phase = "idle" => flight[k] = NoFetch
    /\ flight[k].phase # "idle" => flight[k].by = me /\ (k[1] = "history" => k[2] = me)
    /\ flight[k].phase = "sent" => flight[k].answer = NoPage
    /\ flight[k].phase = "counting" => Counted(k)

\* What is in a page of a query, whenever it was read.
Right(k, page) ==
    /\ k[1] = "season" => page.rows = {<<"me", me>>}
    /\ k[1] = "profile" => <<"me", me>> \in page.rows
    /\ k[1] = "users" => page.total <= db.users
    /\ k[1] = "standings" => page.total <= Cardinality(InLeague(k[3]))
    /\ k[1] = "history" => page.rows \subseteq db.matches[k[2]]
AllRight(k, pages) == \A i \in DOMAIN pages : Right(k, pages[i])
Loaded(k) ==
    /\ AllRight(k, cache[k].data) /\ AllRight(k, flight[k].got) /\ AllRight(k, flight[k].base)
    /\ flight[k].answer.code = 200 => Right(k, flight[k].answer)

Single(k) ==
    k[1] # "history" =>
        /\ cache[k].data = <<>> \/ Len(cache[k].data) = 1
        /\ flight[k].got = <<>> /\ flight[k].base = <<>>
        /\ flight[k].phase # "idle" => flight[k].want = 1

\* Pages of the history of u, one after the other: in order, without a gap in what there was
\* at the beginning, the cursor at the end.
UpTo(cursor, rows) == cursor \in rows /\ \A m \in rows \ {cursor} : Before(m, cursor)
RowsOf(pages) == UNION {pages[i].rows : i \in DOMAIN pages}
Chain(u, pages) ==
    LET cursor == NextCursor(pages) IN
    /\ RowsOf(pages) \subseteq MatchPool
    /\ \A i, j \in DOMAIN pages : i < j =>
          \A m \in pages[i].rows, n \in pages[j].rows : Before(m, n)
    /\ cursor # NoCursor => UpTo(cursor, RowsOf(pages))
    /\ pages # <<>> =>
          /\ pages[1].asOf \subseteq db.matches[u]
          /\ \A m \in pages[1].asOf \ RowsOf(pages) : cursor # NoCursor /\ Before(cursor, m)
Open(pages) == pages # <<>> => NextCursor(pages) # NoCursor
History(u) ==
    LET f == flight[<<"history", u>>] IN
    /\ Chain(u, cache[<<"history", u>>].data)
    /\ Chain(u, f.got) /\ Open(f.got) /\ Chain(u, f.base) /\ Open(f.base)
    /\ f.phase = "answered" /\ f.answer.code = 200 => Chain(u, Append(f.got, f.answer))

\* The registration of a player who waits for the answers: what is shown is right, or an
\* answer is still to come, or a fetch that was not read before it.
Agrees(page) == me \in page.rows <=> me \in db.entrants
Changed == \E i \in DOMAIN calls : calls[i].phase = "answered" /\ calls[i].ok
Told ==
    LET k == <<"tournament">> IN
    /\ flight[k].answer.code = 200 => Agrees(flight[k].answer) \/ Changed
    /\ cache[k].data # <<>> /\ ~cache[k].error =>
          Agrees(cache[k].data[1]) \/ Changed \/ flight[k] # NoFetch
Registration ==
    attentive =>
        /\ Unanswered => /\ route = "tournament" /\ "tournament" \in scenario.queries
                         /\ cache[<<"tournament">>].data # <<>>
        /\ Told

BaseInv == Tables /\ Tab /\ Cached /\ Shown
QueryInv == \A k \in Keys : Phases(k) /\ Loaded(k) /\ Single(k)
HistoryInv == \A u \in Users : History(u)
Inv == BaseInv /\ QueryInv /\ HistoryInv /\ Registration

-----------------------------------------------------------------------------
(* Numbers of pages. *)

LEMMA LeastNumber ==
    ASSUME NEW S \in SUBSET Nat, S # {}
    PROVE  \E n \in S : \A m \in S : n <= m
<1> DEFINE R == {ss \in Nat \X Nat : ss[1] < ss[2]}
<1>1. IsWellFoundedOn(R, Nat)
    BY NatLessThanWellFounded DEF OpToRel
<1> HIDE DEF R
<1>2. PICK n \in S : \A m \in S : ~ (<<m, n>> \in R)
    BY <1>1, WFMin
<1>3. \A m \in S : ~ (m < n)
    BY <1>2 DEF R
<1> QED BY <1>3

LEMMA Quotient ==
    ASSUME NEW a \in Nat, NEW n \in Nat \ {0}
    PROVE  a \div n \in Nat /\ n * (a \div n) <= a /\ a < n * (a \div n) + n
<1>1. a \div n \in Int /\ a % n \in 0..(n - 1) /\ a = n * (a \div n) + (a % n)
    OBVIOUS
<1>2. a \div n >= 0
    BY <1>1, Z3
<1> QED BY <1>1, <1>2

LEMMA QuotientGrows ==
    ASSUME NEW a \in Nat, NEW b \in Nat, NEW n \in Nat \ {0}, a <= b
    PROVE  a \div n <= b \div n
<1> DEFINE p == a \div n
           q == b \div n
<1>1. p \in Nat /\ q \in Nat /\ n * p <= a /\ b < n * q + n
    BY Quotient
<1> HIDE DEF p, q
<1>2. SUFFICES ASSUME p > q PROVE FALSE
    BY <1>1 DEF p, q
<1>3. n * p = n * q + n * (p - q) /\ n * (p - q) >= n /\ n * p \in Nat /\ n * q \in Nat
    <2> DEFINE d == p - q
    <2>1. d \in Nat /\ d >= 1 /\ p = q + d
        BY <1>1, <1>2
    <2> HIDE DEF d
    <2>2. n * (q + d) = n * q + n * d /\ n * d >= n
        BY <1>1, <2>1
    <2>3. n * p \in Nat /\ n * q \in Nat
        BY <1>1
    <2>4. p - q = d
        BY DEF d
    <2> QED BY <2>1, <2>2, <2>3, <2>4
<1>4. n * (p - q) \in Int
    BY <1>1
<1> QED BY <1>1, <1>3, <1>4

\* A longer list has no fewer pages, and a list no more pages than entries or one.
LEMMA PagesGrow ==
    ASSUME NEW a \in Nat, NEW b \in Nat, a <= b
    PROVE  /\ pageCount(a) \in Nat \ {0} /\ pageCount(b) \in Nat \ {0}
           /\ pageCount(a) <= pageCount(b)
<1>1. PageLimit \in Nat \ {0}
    BY BrowsingAssumption
<1>2. ASSUME NEW c \in Nat \ {0}
      PROVE  (c + PageLimit - 1) \in Nat /\ (c + PageLimit - 1) \div PageLimit \in Nat \ {0}
    <2> DEFINE q == (c + PageLimit - 1) \div PageLimit
    <2>1. c + PageLimit - 1 \in Nat
        BY <1>1
    <2>2. q \in Nat /\ c + PageLimit - 1 < PageLimit * q + PageLimit
        BY <1>1, <2>1, Quotient
    <2>3. q # 0
        BY <1>1, <2>2
    <2> QED BY <2>1, <2>2, <2>3
<1>3. a # 0 => (a + PageLimit - 1) \div PageLimit <= (b + PageLimit - 1) \div PageLimit
    BY <1>1, <1>2, QuotientGrows
<1> QED BY <1>2, <1>3 DEF pageCount

-----------------------------------------------------------------------------
(* The order of the matches. *)

Instant == (Nat \ {0}) \X (Nat \ {0})

LEMMA BeforeOrders ==
    /\ \A m \in Instant : ~Before(m, m) /\ m = <<m[1], m[2]>> /\ m # NoCursor
    /\ \A m, n \in Instant : m = n \/ Before(m, n) \/ Before(n, m)
    /\ \A m, n \in Instant : ~(Before(m, n) /\ Before(n, m))
    /\ \A l, m, n \in Instant : Before(l, m) /\ Before(m, n) => Before(l, n)
<1>1. \A m \in Instant : m = <<m[1], m[2]>> /\ m[1] \in Nat \ {0} /\ m[2] \in Nat \ {0}
    BY DEF Instant
<1>2. \A m, n \in Instant : m[1] = n[1] /\ m[2] = n[2] => m = n
    BY <1>1
<1>3. NoCursor[1] = 0
    BY DEF NoCursor
<1> QED BY <1>1, <1>2, <1>3 DEF Before

\* How many come before.
Rank(S, m) == Cardinality({k \in S : Before(k, m)})

LEMMA RankOrders ==
    ASSUME NEW S \in SUBSET Instant, IsFiniteSet(S)
    PROVE  /\ \A m \in S : Rank(S, m) \in Nat
           /\ \A k, m \in S : Before(k, m) => Rank(S, k) < Rank(S, m)
<1> DEFINE P(m) == {k \in S : Before(k, m)}
<1>1. \A m : IsFiniteSet(P(m)) /\ Cardinality(P(m)) \in Nat
    BY FS_Subset, FS_CardinalityType
<1>2. ASSUME NEW k \in S, NEW m \in S, Before(k, m) PROVE Cardinality(P(k)) < Cardinality(P(m))
    <2>1. P(k) \subseteq P(m) /\ k \in P(m) /\ k \notin P(k)
        BY <1>2, BeforeOrders
    <2>2. Cardinality(P(k)) <= Cardinality(P(m)) /\ (Cardinality(P(k)) = Cardinality(P(m)) => P(k) = P(m))
        <3>1. IsFiniteSet(P(m)) /\ IsFiniteSet(P(k))
            BY <1>1
        <3> HIDE DEF P
        <3> QED BY <2>1, <3>1, FS_Subset
    <2>3. Cardinality(P(k)) \in Nat /\ Cardinality(P(m)) \in Nat
        BY <1>1
    <2> HIDE DEF P
    <2> QED BY <2>1, <2>2, <2>3
<1> QED BY <1>1, <1>2 DEF Rank

\* A set of matches that is not empty has a first ...
LEMMA FirstMatch ==
    ASSUME NEW S \in SUBSET Instant, IsFiniteSet(S), NEW T \in SUBSET S, T # {}
    PROVE  \E m \in T : \A k \in T : ~Before(k, m)
<1> DEFINE N == {Rank(S, m) : m \in T}
<1>1. N \in SUBSET Nat /\ N # {}
    BY RankOrders
<1>2. PICK n \in N : \A x \in N : n <= x
    BY <1>1, LeastNumber
<1>3. PICK m \in T : n = Rank(S, m)
    BY <1>2
<1>4. ASSUME NEW k \in T, Before(k, m) PROVE FALSE
    <2>1. Rank(S, k) < Rank(S, m) /\ Rank(S, k) \in Nat /\ Rank(S, m) \in Nat
        BY <1>4, RankOrders
    <2> QED BY <1>2, <1>3, <2>1
<1> QED BY <1>4

\* ... and a last one.
LEMMA LastMatch ==
    ASSUME NEW S \in SUBSET Instant, IsFiniteSet(S), S # {}
    PROVE  UpTo(Last(S), S)
<1> DEFINE c == Cardinality(S)
           N == {c - Rank(S, m) : m \in S}
<1>1. c \in Nat
    BY FS_CardinalityType
<1>2. ASSUME NEW m \in S PROVE Rank(S, m) <= c
    BY FS_Subset DEF Rank
<1> HIDE DEF c
<1>3. N \in SUBSET Nat /\ N # {}
    BY <1>1, <1>2, RankOrders
<1>4. PICK n \in N : \A x \in N : n <= x
    BY <1>3, LeastNumber
<1>5. PICK m \in S : n = c - Rank(S, m)
    BY <1>4
<1>6. ASSUME NEW k \in S \ {m} PROVE Before(k, m)
    <2>1. Before(k, m) \/ Before(m, k)
        BY BeforeOrders
    <2>2. ASSUME Before(m, k) PROVE FALSE
        <3>1. Rank(S, m) < Rank(S, k) /\ Rank(S, k) \in Nat /\ Rank(S, m) \in Nat
            BY <2>2, RankOrders
        <3>2. n <= c - Rank(S, k)
            BY <1>4
        <3> QED BY <1>1, <1>5, <3>1, <3>2
    <2> QED BY <2>1, <2>2
<1> QED BY <1>6 DEF UpTo, Last

LEMMA LastIsUnique ==
    ASSUME NEW S \in SUBSET Instant, NEW c, UpTo(c, S)
    PROVE  Last(S) = c
<1>1. c \in S /\ \A k \in S \ {c} : Before(k, c)
    BY DEF UpTo
<1>2. Last(S) \in S /\ \A k \in S \ {Last(S)} : Before(k, Last(S))
    BY <1>1 DEF Last
<1> HIDE DEF Last
<1> QED BY <1>1, <1>2, BeforeOrders

\* The first n of a list are before the others; when there are others, n + 1 are found.
LEMMA TakeFirst ==
    ASSUME NEW S \in SUBSET Instant, IsFiniteSet(S), NEW n \in Nat \ {0}
    PROVE  /\ Take(S, n) \subseteq S /\ IsFiniteSet(Take(S, n))
           /\ \A m \in S \ Take(S, n), k \in Take(S, n) : Before(k, m)
           /\ S # {} => Take(S, n) # {}
           /\ S \ Take(S, n) # {} => Cardinality(Take(S, n + 1)) > n
<1>1. \A i : Take(S, i) = {m \in S : Rank(S, m) < i}
    BY DEF Take, Rank
<1>2. \A m \in S : Rank(S, m) \in Nat
    BY RankOrders
<1>3. Take(S, n) \subseteq S /\ IsFiniteSet(Take(S, n)) /\ IsFiniteSet(Take(S, n + 1))
    BY <1>1, FS_Subset
<1>4. ASSUME NEW m \in S \ Take(S, n), NEW k \in Take(S, n) PROVE Before(k, m)
    <2>1. m # k /\ Rank(S, k) < Rank(S, m) /\ k \in S
        BY <1>1, <1>2
    <2>2. ~Before(m, k)
        BY <1>2, <2>1, RankOrders
    <2> QED BY <2>1, <2>2, BeforeOrders
<1>5. ASSUME S # {} PROVE Take(S, n) # {}
    <2>1. PICK m \in S : \A k \in S : ~Before(k, m)
        BY <1>5, FirstMatch
    <2>2. {k \in S : Before(k, m)} = {}
        BY <2>1
    <2>3. Rank(S, m) = 0
        BY <2>2, FS_EmptySet DEF Rank
    <2> QED BY <1>1, <2>3
<1>6. ASSUME S \ Take(S, n) # {} PROVE Cardinality(Take(S, n + 1)) > n
    <2> DEFINE T == S \ Take(S, n)
               U == Take(S, n + 1)
    <2>1. PICK m \in T : \A k \in T : ~Before(k, m)
        <3>1. T \in SUBSET S /\ T # {}
            BY <1>6
        <3> QED BY <3>1, FirstMatch
    <2> DEFINE P == {k \in S : Before(k, m)}
    <2>2. Rank(S, m) = Cardinality(P) /\ Rank(S, m) \in Nat /\ Rank(S, m) >= n /\ IsFiniteSet(P)
        <3>1. Rank(S, m) \in Nat /\ Rank(S, m) >= n
            BY <1>1, <1>2
        <3>2. Rank(S, m) = Cardinality(P)
            BY DEF Rank
        <3>3. IsFiniteSet(P)
            BY FS_Subset
        <3> QED BY <3>1, <3>2, <3>3
    <2>3. P \subseteq Take(S, n)
        BY <2>1
    <2>4. P \subseteq U
        BY <1>1, <1>2, <2>3
    <2>5. IsFiniteSet(U) /\ Cardinality(U) \in Nat /\ m \notin P
        BY <1>3, <2>1, FS_CardinalityType, BeforeOrders
    <2> HIDE DEF P, U
    <2>6. CASE m \in U
        <3>1. P \cup {m} \subseteq U
            BY <2>4, <2>6
        <3>2. Cardinality(P \cup {m}) = Cardinality(P) + 1 /\ IsFiniteSet(P \cup {m})
            BY <2>2, <2>5, FS_AddElement
        <3>3. Cardinality(P \cup {m}) <= Cardinality(U)
            BY <2>5, <3>1, FS_Subset
        <3>4. Cardinality(U) > n
            BY <2>2, <2>5, <3>2, <3>3
        <3> QED BY <3>4 DEF U
    <2>7. CASE m \notin U
        <3>1. Rank(S, m) >= n + 1
            BY <1>1, <1>2, <2>2, <2>7 DEF U
        <3>2. Cardinality(P) <= Cardinality(U)
            BY <2>4, <2>5, FS_Subset
        <3>3. Cardinality(U) > n
            BY <2>2, <2>5, <3>1, <3>2
        <3> QED BY <3>3 DEF U
    <2> QED BY <2>6, <2>7
<1> QED BY <1>3, <1>4, <1>5, <1>6

-----------------------------------------------------------------------------
(* What the API answers. *)

LEMMA KeyNames ==
    ASSUME NEW k \in Keys
    PROVE  /\ k[1] \in Queries
           /\ k[1] \in {"season", "closed", "tournaments", "tournament"} => k = <<k[1]>>
           /\ k[1] \in {"history", "profile"} => k[2] \in Users /\ k = <<k[1], k[2]>>
           /\ k[1] = "users" => k[2] \in Nat /\ k = <<"users", k[2]>>
           /\ k[1] = "audit" => k[2] \in MatchPool /\ k = <<"audit", k[2]>>
           /\ k[1] = "standings" =>
                k[2] \in Nat /\ k[3] \in AnyLeague /\ k = <<"standings", k[2], k[3]>>
<1>1. CASE k \in {<<"season">>, <<"closed">>, <<"tournaments">>, <<"tournament">>}
    BY <1>1 DEF Queries
<1>2. CASE k \in {"profile", "history"} \X Users
    BY <1>2 DEF Queries
<1>3. CASE k \in {"users"} \X (1..pageCount(MaxUsers))
    BY <1>3 DEF Queries
<1>4. CASE k \in {"audit"} \X MatchPool
    BY <1>4 DEF Queries
<1>5. CASE k \in {"standings"} \X (1..pageCount(Cardinality(StandingPool))) \X AnyLeague
    BY <1>5 DEF Queries
<1> QED BY <1>1, <1>2, <1>3, <1>4, <1>5 DEF Keys, AnyLeague

LEMMA NoPageType == NoPage \in Page /\ NoPage.code = 0 /\ NoPage.total = 0
BY DEF NoPage, Page, NoCursor

LEMMA FoundType ==
    ASSUME NEW rows \in SUBSET Rows
    PROVE  /\ Found(rows) \in Page /\ Found(rows).code = 200 /\ Found(rows).rows = rows
           /\ Found(rows).total = 0 /\ Found(rows).next = NoCursor /\ Found(rows).asOf = {}
BY DEF Found, NoPage, Page, NoCursor

LEMMA RefusedType ==
    ASSUME NEW code \in Nat
    PROVE  Refused(code) \in Page /\ Refused(code).code = code /\ Refused(code).total = 0
BY DEF Refused, NoPage, Page, NoCursor

\* Standings are of the season's players, and only become more.
LEMMA StandingsAreFinite ==
    ASSUME Tables, NEW league
    PROVE  /\ InLeague(league) \subseteq StandingPool /\ IsFiniteSet(InLeague(league))
           /\ Cardinality(InLeague(league)) \in Nat
           /\ Cardinality(InLeague(league)) <= Cardinality(StandingPool)
           /\ Cardinality(StandingPool) \in Nat
<1>1. InLeague(league) \subseteq StandingPool
    BY DEF InLeague, Tables
<1> QED BY <1>1, BrowsingAssumption, FS_Subset, FS_CardinalityType

\* A page of the history after a cursor: the matches that come first.
LEMMA HistoryPage ==
    ASSUME Tables, NEW u \in Users, NEW cursor
    PROVE  LET page == getHistory(u, cursor)
               ended == {m \in db.matches[u] : afterCursor(cursor, m)}
           IN  /\ page \in Page /\ page.code = 200 /\ page.total = 0
               /\ page.asOf = db.matches[u] /\ page.rows \subseteq ended
               /\ page.next # NoCursor => UpTo(page.next, page.rows)
               /\ \A m \in ended \ page.rows : page.next # NoCursor /\ Before(page.next, m)
<1> DEFINE ended == {m \in db.matches[u] : afterCursor(cursor, m)}
           rows == Take(ended, HistoryLimit)
           more == Cardinality(Take(ended, HistoryLimit + 1)) > HistoryLimit
           last == encodeHistoryCursor(Last(rows))
           next == IF more THEN last ELSE NoCursor
           page == getHistory(u, cursor)
<1>1. /\ ended \subseteq db.matches[u] /\ ended \in SUBSET Instant /\ IsFiniteSet(ended)
      /\ db.matches[u] \subseteq MatchPool /\ HistoryLimit \in Nat \ {0}
    BY BrowsingAssumption, FS_Subset DEF Tables, Instant
<1>2. page = [NoPage EXCEPT !.code = 200, !.rows = rows, !.next = next, !.asOf = db.matches[u]]
    BY DEF getHistory, Found
<1> HIDE DEF ended
<1>3. /\ rows \subseteq ended /\ IsFiniteSet(rows)
      /\ \A m \in ended \ rows, k \in rows : Before(k, m)
      /\ ended # {} => rows # {}
      /\ ended \ rows # {} => more
    BY <1>1, TakeFirst
<1>4. more => ended # {}
    <2>1. ended = {} => Take(ended, HistoryLimit + 1) = {}
        BY DEF Take
    <2> QED BY <1>1, <2>1, FS_EmptySet
<1> HIDE DEF rows, more
<1>5. ASSUME more PROVE UpTo(last, rows) /\ last \in Nat \X Nat /\ last # NoCursor
    <2>1. rows # {} /\ rows \in SUBSET Instant
        BY <1>1, <1>3, <1>4, <1>5
    <2>2. UpTo(Last(rows), rows)
        BY <1>3, <2>1, LastMatch
    <2>3. Last(rows) \in Instant
        BY <2>1, <2>2 DEF UpTo
    <2>4. last = Last(rows) /\ last # NoCursor
        BY <2>3, BeforeOrders DEF encodeHistoryCursor
    <2> HIDE DEF last
    <2> QED BY <2>2, <2>3, <2>4 DEF Instant
<1> HIDE DEF last
<1>6. next \in Nat \X Nat /\ (next # NoCursor => more /\ next = last) /\ (more => next # NoCursor)
    BY <1>5 DEF NoCursor
<1> HIDE DEF next
<1>7. rows \in SUBSET Rows
    BY <1>1, <1>3 DEF Rows
<1> HIDE DEF page
<1>8. /\ page \in Page /\ page.code = 200 /\ page.total = 0
      /\ page.asOf = db.matches[u] /\ page.rows = rows /\ page.next = next
    <2>1. page = [code |-> 200, rows |-> rows, next |-> next, total |-> 0, open |-> FALSE,
                  asOf |-> db.matches[u]]
        BY <1>2 DEF NoPage
    <2>2. db.matches[u] \in SUBSET MatchPool
        BY <1>1
    <2> QED BY <1>6, <1>7, <2>1, <2>2 DEF Page
<1>9. ASSUME NEW m \in ended \ rows PROVE next # NoCursor /\ Before(next, m)
    <2>1. more /\ next = last /\ last \in rows
        BY <1>3, <1>5, <1>6, <1>9 DEF UpTo
    <2> QED BY <1>3, <1>6, <2>1
<1>10. /\ page \in Page /\ page.code = 200 /\ page.total = 0
       /\ page.asOf = db.matches[u] /\ page.rows \subseteq ended
       /\ page.next # NoCursor => UpTo(page.next, page.rows)
       /\ \A m \in ended \ page.rows : page.next # NoCursor /\ Before(page.next, m)
    BY <1>3, <1>5, <1>6, <1>8, <1>9
<1> QED BY <1>10 DEF page, ended

\* Whatever is answered is a page, and says what its query is about.
LEMMA Answers ==
    ASSUME BaseInv, NEW k \in Keys, NEW cursor \in Nat \X Nat
    PROVE  LET page == Respond(me, k, cursor) IN
           /\ page \in Page
           /\ page.code = 200 /\ k[1] \in {"season", "profile", "users", "standings"} => page.total = 0
           /\ page.code = 200 /\ k[1] = "season" => page.rows = {<<"me", me>>}
           /\ page.code = 200 /\ k[1] = "profile" => <<"me", me>> \in page.rows
           /\ page.code = 200 /\ k[1] = "tournament" => page.rows = db.entrants
           /\ page.code = 200 /\ k[1] = "history" =>
                me \in Users /\ page = getHistory(me, cursor) /\ page.rows \subseteq db.matches[me]
<1> DEFINE page == Respond(me, k, cursor)
<1>1. /\ Tables /\ me \in Users \cup {Nobody} /\ Nobody \notin Users
      /\ 200 \in Nat /\ 401 \in Nat /\ 403 \in Nat /\ 404 \in Nat /\ 409 \in Nat
    BY BrowsingAssumption DEF BaseInv, Tab
<1>2. CASE k[1] = "history"
    <2>1. page = IF me = Nobody THEN Refused(401) ELSE getHistory(me, cursor)
        BY <1>2 DEF Respond, MeController
    <2>2. getHistory(me, cursor).rows \subseteq db.matches[me]
        BY DEF getHistory, Take, Found, NoPage
    <2> QED BY <1>1, <1>2, <2>1, <2>2, RefusedType, HistoryPage
<1>3. CASE k[1] = "profile"
    <2>1. page = IF me = Nobody THEN Refused(401) ELSE Found({<<"me", me>>, <<"stats", k[2]>>})
        BY <1>3 DEF Respond, OwnProfile, getCurrentProfile, getPublicProfile
    <2>2. {<<"me", me>>, <<"stats", k[2]>>} \in SUBSET Rows
        BY <1>1, <1>3, KeyNames DEF Rows
    <2> QED BY <1>1, <1>3, <2>1, <2>2, RefusedType, FoundType
<1>4. CASE k[1] = "users"
    <2>1. page \in {Refused(401), Refused(403), Found(Paged(db.users, k[2]))}
        BY <1>4 DEF Respond, UsersController, listUsers
    <2>2. Paged(db.users, k[2]) \in SUBSET Rows
        BY <1>1 DEF Paged, Rows, Tables
    <2> QED BY <1>1, <1>4, <2>1, <2>2, RefusedType, FoundType
<1>5. CASE k[1] = "audit"
    <2>1. page \in {Refused(404), Found({k[2]})}
        BY <1>5 DEF Respond, buildAudit
    <2>2. {k[2]} \in SUBSET Rows
        BY <1>5, KeyNames DEF Rows
    <2> QED BY <1>1, <1>5, <2>1, <2>2, RefusedType, FoundType
<1>6. CASE k[1] = "season"
    <2>1. k = <<"season">>
        BY <1>6, KeyNames
    <2>2. page = SeasonsController(me, k)
        BY <1>6 DEF Respond
    <2>3. page \in {Refused(401), Refused(404), Found({<<"me", me>>})}
        BY <2>1, <2>2 DEF SeasonsController, getCurrent
    <2>4. {<<"me", me>>} \in SUBSET Rows
        BY <1>1 DEF Rows
    <2> QED BY <1>1, <1>6, <2>3, <2>4, RefusedType, FoundType
<1>7. CASE k[1] = "closed"
    <2>1. k = <<"closed">>
        BY <1>7, KeyNames
    <2>2. page = SeasonsController(me, k)
        BY <1>7 DEF Respond
    <2>3. page = Found({s \in {db.season} : s = "closed"})
        BY <2>1, <2>2 DEF SeasonsController, listClosed
    <2>4. {s \in {db.season} : s = "closed"} \in SUBSET Rows
        BY DEF Rows
    <2> QED BY <1>1, <1>7, <2>3, <2>4, FoundType
<1>8. CASE k[1] = "standings"
    <2>1. k # <<"closed">> /\ k # <<"season">>
        BY <1>8
    <2>2. page = SeasonsController(me, k)
        BY <1>8 DEF Respond
    <2>3. page = getStandings(k[2], k[3])
        BY <1>8, <2>1, <2>2 DEF SeasonsController
    <2>4. \E rows \in SUBSET InLeague(k[3]) : page = Refused(409) \/ page = Found(rows)
        BY <2>3 DEF getStandings
    <2>5. SUBSET InLeague(k[3]) \subseteq SUBSET Rows
        BY <1>1, StandingsAreFinite DEF Rows
    <2> QED BY <1>1, <1>8, <2>4, <2>5, RefusedType, FoundType
<1>9. CASE k[1] \in {"tournaments", "tournament"}
    <2> DEFINE item == toListItem
               detail == [toListItem EXCEPT !.rows = db.entrants]
    <2>1. Cardinality(db.entrants) \in Nat /\ db.entrants \in SUBSET Rows /\ db.open \in BOOLEAN
        BY <1>1, FS_CardinalityType DEF Tables, Rows
    <2>2. item \in Page
        BY <2>1 DEF toListItem, NoPage, Page, NoCursor
    <2>3. detail \in Page /\ detail.rows = db.entrants
        <3> HIDE DEF item
        <3> QED BY <2>1, <2>2 DEF Page, item
    <2>4. k[1] = "tournament" => k # <<"tournaments">>
        OBVIOUS
    <2>5. page \in {Refused(401), item, detail} /\ (k[1] = "tournament" => page \in {Refused(401), detail})
        BY <1>9, <2>4 DEF Respond, TournamentsController, listTournaments, getTournamentDetail
    <2> HIDE DEF page, item, detail
    <2>6. page \in Page
        BY <2>2, <2>3, <2>5, RefusedType
    <2>7. k[1] = "tournament" /\ page.code = 200 => page.rows = db.entrants
        BY <2>3, <2>5, RefusedType
    <2> QED BY <1>9, <2>6, <2>7 DEF page
<1> QED BY <1>2, <1>3, <1>4, <1>5, <1>6, <1>7, <1>8, <1>9, KeyNames DEF Queries

-----------------------------------------------------------------------------
(* What a step makes of one query. *)

Kept(k) ==
    /\ cache'[k] \in Stored /\ cache'[k].data = cache[k].data
    /\ cache[k].data # <<>> => cache'[k].error = cache[k].error
Rests(k) == Kept(k) /\ flight'[k] = flight[k]
Restarts(k) == Kept(k) /\ flight'[k] = Reloading(k) /\ (k[1] = "history" => k[2] = me)
Continues(k) ==
    /\ Kept(k) /\ flight'[k] = Extending(k)
    /\ k = <<"history", me>> /\ cache[k].data # <<>> /\ NextCursor(cache[k].data) # NoCursor
Reads(k) ==
    LET answer == Respond(flight[k].by, k, NextCursor(flight[k].got)) IN
    /\ Kept(k) /\ flight[k].phase = "sent"
    /\ flight'[k] = [flight[k] EXCEPT !.answer = answer,
                       !.phase = IF answer.code = 200 /\ Counted(k) THEN "counting" ELSE "answered"]
Counts(k) ==
    /\ Kept(k) /\ flight[k].phase = "counting"
    /\ flight'[k] = [flight[k] EXCEPT !.answer.total = Count(k), !.phase = "answered"]
Fails(k) ==
    /\ Kept(k) /\ flight[k].phase \in {"sent", "counting"}
    /\ flight'[k] = [flight[k] EXCEPT !.answer = Refused(503), !.phase = "answered"]
Taken(k) == Append(flight[k].got, flight[k].answer)
Appends(k) ==
    /\ Kept(k) /\ flight[k].phase = "answered" /\ flight[k].answer.code = 200
    /\ ~(Len(Taken(k)) >= flight[k].want) /\ (k[1] = "history" => NextCursor(Taken(k)) # NoCursor)
    /\ flight'[k] = [flight[k] EXCEPT !.got = Taken(k), !.answer = NoPage, !.phase = "sent", !.by = me]
Completes(k) ==
    /\ flight[k].phase = "answered" /\ flight[k].answer.code = 200
    /\ flight'[k] = NoFetch /\ cache'[k] = [NoQuery EXCEPT !.data = Taken(k)]
Repeats(k) ==
    /\ Kept(k) /\ flight[k].phase = "answered"
    /\ flight'[k] = [flight[k] EXCEPT !.got = flight[k].base, !.answer = NoPage, !.tries = 1,
                       !.phase = "sent", !.by = me]
GivesUp(k) ==
    /\ flight[k].phase = "answered"
    /\ flight'[k] = NoFetch /\ cache'[k] = [cache[k] EXCEPT !.error = TRUE]
Moves(k) ==
    \/ Rests(k) \/ Restarts(k) \/ Continues(k) \/ Reads(k) \/ Counts(k) \/ Fails(k)
    \/ Appends(k) \/ Completes(k) \/ Repeats(k) \/ GivesUp(k)

\* A step of the queries, one of the sessions, one of the tables.
Working ==
    /\ me' = me /\ db' = db
    /\ cache' = [k \in Keys |-> cache'[k]] /\ flight' = [k \in Keys |-> flight'[k]]
    /\ \A k \in Keys : Moves(k)
Elsewhere ==
    /\ UNCHANGED <<me, cache, flight>>
    /\ db'.users >= db.users /\ db.standings \subseteq db'.standings
    /\ \A u \in Users : db.matches[u] \subseteq db'.matches[u]

LEMMA NoFetchType ==
    NoFetch \in Fetched /\ NoFetch.phase = "idle" /\ NoFetch.got = <<>> /\ NoFetch.base = <<>>
    /\ NoFetch.answer = NoPage
BY NoPageType DEF NoFetch, Fetched

LEMMA NoQueryType == NoQuery \in Stored /\ NoQuery.data = <<>> /\ NoQuery.error = FALSE
BY DEF NoQuery, Stored

LEMMA CursorType ==
    ASSUME NEW pages \in Seq(Page)
    PROVE  NextCursor(pages) \in Nat \X Nat
<1>1. NoCursor \in Nat \X Nat
    BY DEF NoCursor
<1>2. CASE pages # <<>>
    <2>1. Len(pages) \in DOMAIN pages
        BY <1>2
    <2>2. pages[Len(pages)] \in Page
        BY <2>1
    <2> QED BY <1>1, <2>2 DEF NextCursor, Page
<1> QED BY <1>1, <1>2 DEF NextCursor

LEMMA CountType ==
    ASSUME Tables, NEW k \in Keys, Counted(k)
    PROVE  /\ Count(k) \in Nat
           /\ k[1] = "users" => Count(k) = db.users
           /\ k[1] = "standings" => Count(k) = Cardinality(InLeague(k[3]))
<1>1. db.users \in Nat /\ Cardinality(db.entrants) \in Nat
    BY FS_CardinalityType DEF Tables
<1>2. Cardinality(InLeague(k[3])) \in Nat
    BY StandingsAreFinite
<1> QED BY <1>1, <1>2 DEF Count, Counted

LEMMA Fetches ==
    ASSUME Cached, Tab, NEW k \in Keys
    PROVE  /\ Reloading(k) \in Fetched /\ Reloading(k).phase = "sent" /\ Reloading(k).by = me
           /\ Reloading(k).base = <<>> /\ Reloading(k).got = <<>> /\ Reloading(k).answer = NoPage
           /\ Reloading(k).want = IF cache[k].data = <<>> THEN 1 ELSE Len(cache[k].data)
           /\ Extending(k) \in Fetched /\ Extending(k).phase = "sent" /\ Extending(k).by = me
           /\ Extending(k).base = cache[k].data /\ Extending(k).got = cache[k].data
           /\ Extending(k).answer = NoPage
<1>1. cache[k].data \in Seq(Page) /\ Len(cache[k].data) \in Nat /\ me \in Users \cup {Nobody}
    BY DEF Cached, Stored, Tab
<1> DEFINE want == IF cache[k].data = <<>> THEN 1 ELSE Len(cache[k].data)
<1>2. want \in Nat /\ Len(cache[k].data) + 1 \in Nat
    BY <1>1
<1> HIDE DEF want
<1>3. Reloading(k) = [NoFetch EXCEPT !.phase = "sent", !.by = me, !.want = want]
    BY DEF Reloading, want
<1>4. Extending(k) = [NoFetch EXCEPT !.phase = "sent", !.by = me, !.base = cache[k].data,
                        !.got = cache[k].data, !.want = Len(cache[k].data) + 1]
    BY DEF Extending
<1>5. Reloading(k) \in Fetched
    BY <1>1, <1>2, <1>3, NoFetchType DEF Fetched
<1>6. Extending(k) \in Fetched
    BY <1>1, <1>2, <1>4, NoFetchType DEF Fetched
<1>7. /\ Reloading(k).phase = "sent" /\ Reloading(k).by = me /\ Reloading(k).want = want
      /\ Reloading(k).base = <<>> /\ Reloading(k).got = <<>> /\ Reloading(k).answer = NoPage
    BY <1>3 DEF NoFetch
<1>8. /\ Extending(k).phase = "sent" /\ Extending(k).by = me
      /\ Extending(k).base = cache[k].data /\ Extending(k).got = cache[k].data
      /\ Extending(k).answer = NoPage
    BY <1>4 DEF NoFetch
<1> QED BY <1>5, <1>6, <1>7, <1>8 DEF want

\* Records and sequences stay what they are.
LEMMA MovesTyped ==
    ASSUME BaseInv, NEW k \in Keys, Phases(k), Moves(k)
    PROVE  cache'[k] \in Stored /\ flight'[k] \in Fetched
<1> DEFINE f == flight[k]
<1>1. cache[k] \in Stored /\ f \in Fetched /\ Cached /\ Tab /\ Tables /\ me \in Users \cup {Nobody}
    BY DEF BaseInv, Cached, Tab
<1>2. /\ f.got \in Seq(Page) /\ f.base \in Seq(Page) /\ f.answer \in Page
      /\ Taken(k) \in Seq(Page)
    BY <1>1 DEF Fetched, Taken
<1>3. CASE Rests(k)
    BY <1>1, <1>3 DEF Rests, Kept
<1>4. CASE Restarts(k)
    BY <1>1, <1>4, Fetches DEF Restarts, Kept
<1>5. CASE Continues(k)
    BY <1>1, <1>5, Fetches DEF Continues, Kept
<1>6. CASE Reads(k)
    <2> DEFINE answer == Respond(flight[k].by, k, NextCursor(flight[k].got))
    <2>1. f.by = me
        BY <1>6 DEF Phases, Reads
    <2>2. answer \in Page
        BY <1>2, <2>1, Answers, CursorType
    <2> HIDE DEF answer
    <2>3. /\ cache'[k] \in Stored
          /\ \E p \in {"counting", "answered"} : flight'[k] = [f EXCEPT !.answer = answer, !.phase = p]
        BY <1>6 DEF Reads, Kept, answer
    <2> QED BY <1>1, <2>2, <2>3 DEF Fetched
<1>7. CASE Counts(k)
    <2>1. Count(k) \in Nat
        BY <1>1, <1>7, CountType DEF Counts, Phases
    <2>2. [f.answer EXCEPT !.total = Count(k)] \in Page
        BY <1>2, <2>1 DEF Page
    <2>3. flight'[k] = [f EXCEPT !.answer = [f.answer EXCEPT !.total = Count(k)], !.phase = "answered"]
        BY <1>1, <1>7 DEF Counts, Fetched
    <2>4. cache'[k] \in Stored
        BY <1>7 DEF Counts, Kept
    <2> QED BY <1>1, <2>2, <2>3, <2>4 DEF Fetched
<1>8. CASE Fails(k)
    <2> DEFINE r == Refused(503)
    <2>1. r \in Page
        BY RefusedType
    <2>2. flight'[k] = [f EXCEPT !.answer = r, !.phase = "answered"] /\ cache'[k] \in Stored
        BY <1>8 DEF Fails, Kept
    <2> HIDE DEF f, r
    <2> QED BY <1>1, <2>1, <2>2 DEF Fetched
<1>9. CASE Appends(k)
    <2>1. /\ flight'[k] = [f EXCEPT !.got = Taken(k), !.answer = NoPage, !.phase = "sent", !.by = me]
          /\ cache'[k] \in Stored
        BY <1>9 DEF Appends, Kept
    <2> HIDE DEF f
    <2> QED BY <1>1, <1>2, <2>1, NoPageType DEF Fetched
<1>10. CASE Completes(k)
    BY <1>2, <1>10, NoFetchType DEF Completes, NoQuery, Stored
<1>11. CASE Repeats(k)
    BY <1>1, <1>2, <1>11, NoPageType DEF Repeats, Kept, Fetched
<1>12. CASE GivesUp(k)
    BY <1>1, <1>12, NoFetchType DEF GivesUp, Stored
<1> QED BY <1>3, <1>4, <1>5, <1>6, <1>7, <1>8, <1>9, <1>10, <1>11, <1>12 DEF Moves

LEMMA MovesPhases ==
    ASSUME BaseInv, NEW k \in Keys, Phases(k), me' = me, Moves(k)
    PROVE  Phases(k)'
<1> DEFINE f == flight[k]
           g == flight'[k]
<1>1. f \in Fetched /\ g \in Fetched /\ Cached /\ Tab
    BY MovesTyped DEF BaseInv, Cached
<1>2. /\ f.phase = "idle" => f = NoFetch
      /\ f.phase # "idle" => f.by = me /\ (k[1] = "history" => k[2] = me)
      /\ f.phase = "sent" => f.answer = NoPage
      /\ f.phase = "counting" => Counted(k)
    BY DEF Phases
<1> SUFFICES /\ g.phase = "idle" => g = NoFetch
             /\ g.phase # "idle" => g.by = me /\ (k[1] = "history" => k[2] = me)
             /\ g.phase = "sent" => g.answer = NoPage
             /\ g.phase = "counting" => Counted(k)
    BY DEF Phases, Counted
<1>3. CASE Rests(k)
    BY <1>2, <1>3 DEF Rests
<1>4. CASE Restarts(k)
    BY <1>1, <1>4, Fetches DEF Restarts
<1>5. CASE Continues(k)
    BY <1>1, <1>5, Fetches DEF Continues
<1>6. CASE Reads(k)
    <2> DEFINE answer == Respond(flight[k].by, k, NextCursor(flight[k].got))
    <2>1. /\ f.phase = "sent"
          /\ \E p \in {"counting", "answered"} :
                /\ g = [f EXCEPT !.answer = answer, !.phase = p]
                /\ p = "counting" => Counted(k)
        BY <1>6 DEF Reads
    <2> HIDE DEF f, g, answer
    <2> QED BY <1>1, <1>2, <2>1 DEF Fetched
<1>7. CASE Counts(k)
    <2>1. f.phase = "counting" /\ g.phase = "answered" /\ g.by = f.by
        BY <1>1, <1>7 DEF Counts, Fetched
    <2> QED BY <1>2, <2>1
<1>8. CASE Fails(k)
    <2>1. f.phase # "idle" /\ g.phase = "answered" /\ g.by = f.by
        BY <1>1, <1>8 DEF Fails, Fetched
    <2> QED BY <1>2, <2>1
<1>9. CASE Appends(k)
    <2>1. f.phase # "idle" /\ g.phase = "sent" /\ g.by = me /\ g.answer = NoPage
        BY <1>1, <1>9 DEF Appends, Fetched
    <2> QED BY <1>2, <2>1
<1>10. CASE Completes(k)
    BY <1>10, NoFetchType DEF Completes
<1>11. CASE Repeats(k)
    <2>1. f.phase # "idle" /\ g.phase = "sent" /\ g.by = me /\ g.answer = NoPage
        BY <1>1, <1>11 DEF Repeats, Fetched
    <2> QED BY <1>2, <2>1
<1>12. CASE GivesUp(k)
    BY <1>12, NoFetchType DEF GivesUp
<1> QED BY <1>3, <1>4, <1>5, <1>6, <1>7, <1>8, <1>9, <1>10, <1>11, <1>12 DEF Moves

\* One page is all that a query has, except for the history.
LEMMA MovesSingle ==
    ASSUME BaseInv, NEW k \in Keys, Phases(k), Single(k), Moves(k)
    PROVE  Single(k)'
<1> DEFINE f == flight[k]
           g == flight'[k]
           c == cache[k]
           d == cache'[k]
<1>1. f \in Fetched /\ g \in Fetched /\ c \in Stored /\ d \in Stored /\ Cached /\ Tab
    BY MovesTyped DEF BaseInv, Cached
<1> SUFFICES ASSUME k[1] # "history"
             PROVE  /\ d.data = <<>> \/ Len(d.data) = 1
                    /\ g.got = <<>> /\ g.base = <<>>
                    /\ g.phase # "idle" => g.want = 1
    BY DEF Single
<1>2. /\ c.data = <<>> \/ Len(c.data) = 1
      /\ f.got = <<>> /\ f.base = <<>>
      /\ f.phase # "idle" => f.want = 1
    BY DEF Single
<1>3. /\ Kept(k) => d.data = c.data
      /\ Taken(k) = <<f.answer>> /\ Len(Taken(k)) = 1
    BY <1>1, <1>2 DEF Kept, Taken, Fetched
<1>4. CASE Rests(k)
    BY <1>2, <1>3, <1>4 DEF Rests
<1>5. CASE Restarts(k)
    BY <1>1, <1>2, <1>3, <1>5, Fetches DEF Restarts
<1>6. CASE Continues(k)
    BY <1>6 DEF Continues
<1>7. CASE Reads(k)
    <2>1. f.phase = "sent" /\ g.got = f.got /\ g.base = f.base /\ g.want = f.want
        BY <1>1, <1>7 DEF Reads, Fetched
    <2> QED BY <1>2, <1>3, <1>7, <2>1 DEF Reads
<1>8. CASE Counts(k)
    <2>1. f.phase = "counting" /\ g.got = f.got /\ g.base = f.base /\ g.want = f.want
        BY <1>1, <1>8 DEF Counts, Fetched
    <2> QED BY <1>2, <1>3, <1>8, <2>1 DEF Counts
<1>9. CASE Fails(k)
    <2>1. f.phase # "idle" /\ g.got = f.got /\ g.base = f.base /\ g.want = f.want
        BY <1>1, <1>9 DEF Fails, Fetched
    <2> QED BY <1>2, <1>3, <1>9, <2>1 DEF Fails
<1>10. CASE Appends(k)
    BY <1>2, <1>3, <1>10 DEF Appends
<1>11. CASE Completes(k)
    <2>1. d.data = Taken(k) /\ g = NoFetch
        BY <1>11 DEF Completes, NoQuery
    <2> QED BY <1>3, <2>1, NoFetchType
<1>12. CASE Repeats(k)
    <2>1. f.phase = "answered" /\ g.got = f.base /\ g.base = f.base /\ g.want = f.want
        BY <1>1, <1>12 DEF Repeats, Fetched
    <2> QED BY <1>2, <1>3, <1>12, <2>1 DEF Repeats
<1>13. CASE GivesUp(k)
    <2>1. d.data = c.data /\ g = NoFetch
        BY <1>1, <1>13 DEF GivesUp, Stored
    <2> QED BY <1>2, <2>1, NoFetchType
<1> QED BY <1>4, <1>5, <1>6, <1>7, <1>8, <1>9, <1>10, <1>11, <1>12, <1>13 DEF Moves

\* What is in a page stays right while nobody signs in and the tables are as they were.
LEMMA MovesLoaded ==
    ASSUME BaseInv, NEW k \in Keys, Phases(k), Loaded(k), me' = me, db' = db, Moves(k)
    PROVE  Loaded(k)'
<1> DEFINE f == flight[k]
           g == flight'[k]
           c == cache[k]
           d == cache'[k]
           R(page) == Right(k, page)
           A(pages) == \A i \in DOMAIN pages : R(pages[i])
<1>1. f \in Fetched /\ g \in Fetched /\ c \in Stored /\ d \in Stored /\ Cached /\ Tab /\ Tables
    BY MovesTyped DEF BaseInv, Cached
<1>2. A(c.data) /\ A(f.got) /\ A(f.base) /\ (f.answer.code = 200 => R(f.answer))
    BY DEF Loaded, AllRight
<1> SUFFICES A(d.data) /\ A(g.got) /\ A(g.base) /\ (g.answer.code = 200 => R(g.answer))
    BY DEF Loaded, AllRight, Right, InLeague
<1>3. /\ f.got \in Seq(Page) /\ f.answer \in Page
      /\ Kept(k) => d.data = c.data
    BY <1>1 DEF Kept, Fetched
<1>4. A(<<>>) /\ NoPage.code # 200
    BY NoPageType
<1>5. f.answer.code = 200 => A(Taken(k))
    <2> HIDE DEF R, f
    <2> SUFFICES ASSUME f.answer.code = 200, NEW i \in DOMAIN Taken(k) PROVE R(Taken(k)[i])
        OBVIOUS
    <2>1. Taken(k) = Append(f.got, f.answer)
        BY DEF Taken, f
    <2> QED BY <1>2, <1>3, <2>1
<1> HIDE DEF R
<1>6. CASE Rests(k)
    BY <1>2, <1>3, <1>6 DEF Rests
<1>7. CASE Restarts(k)
    <2>1. g.got = <<>> /\ g.base = <<>> /\ g.answer = NoPage /\ d.data = c.data
        BY <1>1, <1>3, <1>7, Fetches DEF Restarts
    <2> HIDE DEF g, c, d, f
    <2> QED BY <1>2, <1>4, <2>1
<1>8. CASE Continues(k)
    <2>1. g.got = c.data /\ g.base = c.data /\ g.answer = NoPage /\ d.data = c.data
        BY <1>1, <1>3, <1>8, Fetches DEF Continues
    <2> HIDE DEF g, c, d, f
    <2> QED BY <1>2, <1>4, <2>1
<1>9. CASE Reads(k)
    <2> DEFINE answer == Respond(me, k, NextCursor(f.got))
    <2>1. f.by = me
        BY <1>9 DEF Phases, Reads
    <2>2. g.got = f.got /\ g.base = f.base /\ g.answer = answer /\ d.data = c.data
        BY <1>1, <1>3, <1>9, <2>1 DEF Reads, Fetched
    <2>3. NextCursor(f.got) \in Nat \X Nat
        BY <1>3, CursorType
    <2>4. /\ answer.code = 200 /\ k[1] \in {"season", "profile", "users", "standings"} => answer.total = 0
          /\ answer.code = 200 /\ k[1] = "season" => answer.rows = {<<"me", me>>}
          /\ answer.code = 200 /\ k[1] = "profile" => <<"me", me>> \in answer.rows
          /\ answer.code = 200 /\ k[1] = "history" => answer.rows \subseteq db.matches[me]
        BY <2>3, Answers
    <2>5. db.users \in Nat /\ Cardinality(InLeague(k[3])) \in Nat
        BY <1>1, StandingsAreFinite DEF Tables
    <2>7. k[1] = "history" => k[2] = me
        BY <1>9 DEF Phases, Reads
    <2> HIDE DEF answer
    <2>6. answer.code = 200 => R(answer)
        BY <2>4, <2>5, <2>7 DEF R, Right
    <2> HIDE DEF g, c, d, f
    <2> QED BY <1>2, <2>2, <2>6
<1>10. CASE Counts(k)
    <2>1. Counted(k)
        BY <1>10 DEF Counts, Phases
    <2>2. /\ g.got = f.got /\ g.base = f.base /\ d.data = c.data
          /\ g.answer.code = f.answer.code /\ g.answer.rows = f.answer.rows /\ g.answer.total = Count(k)
        BY <1>1, <1>3, <1>10 DEF Counts, Fetched, Page
    <2>3. /\ Count(k) \in Nat
          /\ k[1] = "users" => Count(k) = db.users
          /\ k[1] = "standings" => Count(k) = Cardinality(InLeague(k[3]))
        BY <1>1, <2>1, CountType
    <2>4. k[1] # "season" /\ k[1] # "profile" /\ k[1] # "history"
        BY <2>1 DEF Counted
    <2> HIDE DEF g, c, d, f
    <2>5. R(g.answer)
        BY <2>2, <2>3, <2>4 DEF R, Right
    <2> QED BY <1>2, <2>2, <2>5
<1>11. CASE Fails(k)
    <2>1. g.got = f.got /\ g.base = f.base /\ d.data = c.data /\ g.answer = Refused(503)
        BY <1>1, <1>3, <1>11 DEF Fails, Fetched
    <2>2. g.answer.code # 200
        BY <2>1, RefusedType
    <2> HIDE DEF g, c, d, f
    <2> QED BY <1>2, <2>1, <2>2
<1>12. CASE Appends(k)
    <2>1. /\ g.got = Taken(k) /\ g.base = f.base /\ d.data = c.data /\ g.answer = NoPage
          /\ f.answer.code = 200
        BY <1>1, <1>3, <1>12 DEF Appends, Fetched
    <2> HIDE DEF g, c, d, f
    <2> QED BY <1>2, <1>4, <1>5, <2>1
<1>13. CASE Completes(k)
    <2>1. d.data = Taken(k) /\ g = NoFetch /\ f.answer.code = 200
        BY <1>13 DEF Completes, NoQuery
    <2>2. g.got = <<>> /\ g.base = <<>> /\ g.answer = NoPage
        BY <2>1, NoFetchType
    <2> HIDE DEF g, c, d, f
    <2> QED BY <1>4, <1>5, <2>1, <2>2
<1>14. CASE Repeats(k)
    <2>1. g.got = f.base /\ g.base = f.base /\ d.data = c.data /\ g.answer = NoPage
        BY <1>1, <1>3, <1>14 DEF Repeats, Fetched
    <2> HIDE DEF g, c, d, f
    <2> QED BY <1>2, <1>4, <2>1
<1>15. CASE GivesUp(k)
    <2>1. d.data = c.data /\ g = NoFetch
        BY <1>1, <1>15 DEF GivesUp, Stored
    <2>2. g.got = <<>> /\ g.base = <<>> /\ g.answer = NoPage
        BY <2>1, NoFetchType
    <2> HIDE DEF g, c, d, f
    <2> QED BY <1>2, <1>4, <2>1, <2>2
<1> QED BY <1>6, <1>7, <1>8, <1>9, <1>10, <1>11, <1>12, <1>13, <1>14, <1>15 DEF Moves

-----------------------------------------------------------------------------
(* The pages of the history. *)

LEMMA EmptyChain ==
    ASSUME NEW u
    PROVE  Chain(u, <<>>) /\ Open(<<>>)
<1>1. RowsOf(<<>>) = {} /\ NextCursor(<<>>) = NoCursor
    BY DEF RowsOf, NextCursor
<1> QED BY <1>1 DEF Chain, Open

\* The page after the cursor continues the pages before it, whatever was persisted since.
LEMMA ChainExtends ==
    ASSUME Tables, NEW u \in Users, NEW pages \in Seq(Page), Chain(u, pages), Open(pages),
           NEW page, page = getHistory(u, NextCursor(pages))
    PROVE  Chain(u, Append(pages, page))
<1> DEFINE c == NextCursor(pages)
           ended == {m \in db.matches[u] : afterCursor(c, m)}
           q == Append(pages, page)
           n == Len(pages)
<1>1. /\ page \in Page /\ page.asOf = db.matches[u] /\ page.rows \subseteq ended
      /\ page.next # NoCursor => UpTo(page.next, page.rows)
      /\ \A m \in ended \ page.rows : page.next # NoCursor /\ Before(page.next, m)
    BY HistoryPage
<1>2. /\ RowsOf(pages) \subseteq MatchPool
      /\ \A i, j \in DOMAIN pages : i < j =>
            \A x \in pages[i].rows, y \in pages[j].rows : Before(x, y)
      /\ c # NoCursor => UpTo(c, RowsOf(pages))
      /\ pages # <<>> =>
            /\ pages[1].asOf \subseteq db.matches[u]
            /\ \A m \in pages[1].asOf \ RowsOf(pages) : c # NoCursor /\ Before(c, m)
    BY DEF Chain
<1>3. pages # <<>> => c # NoCursor
    BY DEF Open
<1>4. /\ n \in Nat /\ DOMAIN pages = 1..n /\ q \in Seq(Page) /\ q # <<>> /\ DOMAIN q = 1..(n + 1)
      /\ q[n + 1] = page /\ \A i \in 1..n : q[i] = pages[i]
      /\ Len(q) = n + 1 /\ (n = 0 <=> pages = <<>>)
    BY <1>1
<1>5. NextCursor(q) = page.next
    BY <1>4 DEF NextCursor
<1>6. RowsOf(q) = RowsOf(pages) \cup page.rows
    <2> HIDE DEF q, n
    <2>1. ASSUME NEW m PROVE m \in RowsOf(q) <=> \E i \in 1..(n + 1) : m \in q[i].rows
        BY <1>4 DEF RowsOf
    <2>2. ASSUME NEW m PROVE m \in RowsOf(pages) <=> \E i \in 1..n : m \in pages[i].rows
        BY <1>4 DEF RowsOf
    <2>3. ASSUME NEW m PROVE m \in RowsOf(q) <=> m \in RowsOf(pages) \/ m \in page.rows
        BY <1>4, <2>1, <2>2
    <2> QED BY <2>3
<1>7. /\ db.matches[u] \subseteq MatchPool /\ MatchPool \subseteq Instant
      /\ page.rows \subseteq MatchPool /\ page.rows \subseteq db.matches[u]
    BY <1>1, BrowsingAssumption DEF Tables, Instant
<1>8. ASSUME pages # <<>>, NEW m \in page.rows PROVE Before(c, m) /\ c \in RowsOf(pages) /\ c \in Instant
    <2>1. c # NoCursor /\ c \in RowsOf(pages)
        BY <1>2, <1>3, <1>8 DEF UpTo
    <2>2. Before(c, m)
        BY <1>1, <2>1 DEF afterCursor
    <2> QED BY <1>2, <1>7, <2>1, <2>2
<1>9. ASSUME NEW x \in RowsOf(pages), NEW y \in page.rows PROVE Before(x, y)
    <2>1. pages # <<>>
        BY DEF RowsOf
    <2>2. x = c \/ Before(x, c)
        BY <1>2, <1>3, <2>1 DEF UpTo
    <2>3. x \in Instant /\ y \in Instant
        BY <1>2, <1>7
    <2> HIDE DEF c
    <2> QED BY <1>8, <2>1, <2>2, <2>3, BeforeOrders
<1> HIDE DEF c, q, n, ended
<1>10. ASSUME NEW i \in DOMAIN q, NEW j \in DOMAIN q, i < j, NEW x \in q[i].rows, NEW y \in q[j].rows
       PROVE  Before(x, y)
    <2>1. CASE j = n + 1
        <3>1. q[j] = page /\ i \in DOMAIN pages /\ q[i] = pages[i]
            BY <1>4, <1>10, <2>1
        <3>2. x \in RowsOf(pages)
            BY <3>1 DEF RowsOf
        <3> QED BY <1>9, <3>1, <3>2
    <2>2. CASE j # n + 1
        <3>1. i \in DOMAIN pages /\ j \in DOMAIN pages /\ q[i] = pages[i] /\ q[j] = pages[j]
            BY <1>4, <1>10, <2>2
        <3> QED BY <1>2, <1>10, <3>1
    <2> QED BY <2>1, <2>2
<1>11. ASSUME page.next # NoCursor PROVE UpTo(page.next, RowsOf(q))
    <2>1. UpTo(page.next, page.rows)
        BY <1>1, <1>11
    <2> QED BY <1>6, <1>9, <2>1 DEF UpTo
<1>12. q[1].asOf \subseteq db.matches[u]
    BY <1>1, <1>2, <1>4
<1>13. ASSUME NEW m \in q[1].asOf \ RowsOf(q) PROVE page.next # NoCursor /\ Before(page.next, m)
    <2>1. m \in db.matches[u] /\ m \notin page.rows /\ m \notin RowsOf(pages)
        BY <1>6, <1>12
    <2>2. afterCursor(c, m)
        <3>1. CASE pages = <<>>
            BY <3>1 DEF c, NextCursor, afterCursor
        <3>2. CASE pages # <<>>
            BY <1>2, <1>4, <2>1, <3>2 DEF afterCursor
        <3> QED BY <3>1, <3>2
    <2>3. m \in ended
        BY <2>1, <2>2 DEF ended
    <2> QED BY <1>1, <2>1, <2>3
<1>14. RowsOf(q) \subseteq MatchPool
    BY <1>2, <1>6, <1>7
<1>15. Chain(u, q)
    BY <1>5, <1>10, <1>11, <1>12, <1>13, <1>14 DEF Chain
<1> QED BY <1>15 DEF q

LEMMA MovesHistory ==
    ASSUME BaseInv, NEW u \in Users, Phases(<<"history", u>>), History(u),
           me' = me, db' = db, Moves(<<"history", u>>)
    PROVE  History(u)'
<1> DEFINE k == <<"history", u>>
           f == flight[k]
           g == flight'[k]
           c == cache[k]
           d == cache'[k]
           C(pages) == Chain(u, pages)
           N(x) == x.phase = "answered" /\ x.answer.code = 200 => C(Append(x.got, x.answer))
<1>1. k \in Keys /\ k[1] = "history" /\ k[2] = u
    BY DEF Keys
<1>2. f \in Fetched /\ g \in Fetched /\ c \in Stored /\ d \in Stored /\ Cached /\ Tab /\ Tables
    BY <1>1, MovesTyped DEF BaseInv, Cached
<1>3. C(c.data) /\ C(f.got) /\ Open(f.got) /\ C(f.base) /\ Open(f.base) /\ N(f)
    BY DEF History
<1> SUFFICES C(d.data) /\ C(g.got) /\ Open(g.got) /\ C(g.base) /\ Open(g.base) /\ N(g)
    BY DEF History, Chain, Open, NextCursor, RowsOf, UpTo, Before
<1> HIDE DEF k
<1>4. /\ f.got \in Seq(Page) /\ f.answer \in Page
      /\ Kept(k) => d.data = c.data
    BY <1>2 DEF Kept, Fetched
<1>5. C(<<>>) /\ Open(<<>>) /\ NoPage.code # 200
    BY NoPageType, EmptyChain
<1> HIDE DEF C
<1>6. CASE Rests(k)
    BY <1>3, <1>4, <1>6 DEF Rests
<1>7. CASE Restarts(k)
    <2>1. g.got = <<>> /\ g.base = <<>> /\ g.phase = "sent" /\ d.data = c.data
        BY <1>1, <1>2, <1>4, <1>7, Fetches DEF Restarts
    <2> HIDE DEF g, c, d, f
    <2> QED BY <1>3, <1>5, <2>1
<1>8. CASE Continues(k)
    <2>1. g.got = c.data /\ g.base = c.data /\ g.phase = "sent" /\ d.data = c.data
        BY <1>1, <1>2, <1>4, <1>8, Fetches DEF Continues
    <2>2. Open(c.data)
        BY <1>8 DEF Continues, Open
    <2> HIDE DEF g, c, d, f
    <2> QED BY <1>3, <1>5, <2>1, <2>2
<1>9. CASE Reads(k)
    <2> DEFINE answer == Respond(me, k, NextCursor(f.got))
    <2>1. f.by = me /\ u = me
        BY <1>1, <1>9 DEF Phases, Reads, k
    <2>2. g.got = f.got /\ g.base = f.base /\ g.answer = answer /\ d.data = c.data
        BY <1>2, <1>4, <1>9, <2>1 DEF Reads, Fetched
    <2>3. NextCursor(f.got) \in Nat \X Nat
        BY <1>4, CursorType
    <2>4. answer.code = 200 => answer = getHistory(u, NextCursor(f.got))
        BY <1>1, <2>1, <2>3, Answers
    <2> HIDE DEF answer
    <2>5. answer.code = 200 => C(Append(f.got, answer))
        BY <1>2, <1>3, <1>4, <2>4, ChainExtends DEF C
    <2> HIDE DEF g, c, d, f
    <2> QED BY <1>3, <2>2, <2>5
<1>10. CASE Counts(k)
    BY <1>1, <1>10 DEF Counts, Phases, Counted, k
<1>11. CASE Fails(k)
    <2>1. g.got = f.got /\ g.base = f.base /\ d.data = c.data /\ g.answer = Refused(503)
        BY <1>2, <1>4, <1>11 DEF Fails, Fetched
    <2>2. g.answer.code # 200
        BY <2>1, RefusedType
    <2> HIDE DEF g, c, d, f
    <2> QED BY <1>3, <2>1, <2>2
<1>12. CASE Appends(k)
    <2>1. /\ g.got = Taken(k) /\ g.base = f.base /\ d.data = c.data /\ g.phase = "sent"
          /\ f.phase = "answered" /\ f.answer.code = 200 /\ NextCursor(Taken(k)) # NoCursor
        BY <1>1, <1>2, <1>4, <1>12 DEF Appends, Fetched
    <2>2. Open(Taken(k)) /\ C(Taken(k))
        BY <1>3, <2>1 DEF Open, Taken
    <2> HIDE DEF g, c, d, f
    <2> QED BY <1>3, <2>1, <2>2
<1>13. CASE Completes(k)
    <2>1. d.data = Taken(k) /\ g = NoFetch /\ f.phase = "answered" /\ f.answer.code = 200
        BY <1>13 DEF Completes, NoQuery
    <2>2. g.got = <<>> /\ g.base = <<>> /\ g.phase = "idle"
        BY <2>1, NoFetchType
    <2>3. C(Taken(k))
        BY <1>3, <2>1 DEF Taken
    <2> HIDE DEF g, c, d, f
    <2> QED BY <1>5, <2>1, <2>2, <2>3
<1>14. CASE Repeats(k)
    <2>1. g.got = f.base /\ g.base = f.base /\ d.data = c.data /\ g.phase = "sent"
        BY <1>2, <1>4, <1>14 DEF Repeats, Fetched
    <2> HIDE DEF g, c, d, f
    <2> QED BY <1>3, <1>5, <2>1
<1>15. CASE GivesUp(k)
    <2>1. d.data = c.data /\ g = NoFetch
        BY <1>2, <1>15 DEF GivesUp, Stored
    <2>2. g.got = <<>> /\ g.base = <<>> /\ g.phase = "idle"
        BY <2>1, NoFetchType
    <2> HIDE DEF g, c, d, f
    <2> QED BY <1>3, <1>5, <2>1, <2>2
<1> QED BY <1>6, <1>7, <1>8, <1>9, <1>10, <1>11, <1>12, <1>13, <1>14, <1>15 DEF Moves, k

-----------------------------------------------------------------------------
(* The invariant of the queries, for each kind of step. *)

\* The answer that arrives last was read after the last change, or another follows.
LEMMA MovesTold ==
    ASSUME BaseInv, Phases(<<"tournament">>), Single(<<"tournament">>), Moves(<<"tournament">>),
           me' = me, db' = db, Told, Changed => Changed'
    PROVE  /\ Told'
           /\ cache[<<"tournament">>].data # <<>> => cache'[<<"tournament">>].data # <<>>
<1> DEFINE k == <<"tournament">>
           f == flight[k]
           g == flight'[k]
           c == cache[k]
           d == cache'[k]
           G(page) == Agrees(page) \/ Changed'
<1>1. k \in Keys /\ k[1] = "tournament"
    BY DEF Keys
<1>2. f \in Fetched /\ g \in Fetched /\ c \in Stored /\ d \in Stored /\ Cached /\ Tab /\ Tables
    BY <1>1, MovesTyped DEF BaseInv, Cached
<1>3. /\ f.answer.code = 200 => G(f.answer)
      /\ c.data # <<>> /\ ~c.error => G(c.data[1]) \/ f # NoFetch
    BY DEF Told
<1> SUFFICES /\ g.answer.code = 200 => G(g.answer)
             /\ d.data # <<>> /\ ~d.error => G(d.data[1]) \/ g # NoFetch
             /\ c.data # <<>> => d.data # <<>>
    BY DEF Told, Agrees
<1> HIDE DEF k, G
<1>4. Kept(k) => d.data = c.data /\ (c.data # <<>> => d.error = c.error)
    BY DEF Kept
<1>5. g.phase # "idle" => g # NoFetch
    BY NoFetchType
<1>6. NoPage.code # 200
    BY NoPageType
<1>7. Taken(k) = <<f.answer>>
    <2>1. f.got = <<>>
        BY <1>1 DEF Single, k
    <2>2. Taken(k) = Append(<<>>, f.answer)
        BY <2>1 DEF Taken
    <2> HIDE DEF f
    <2> QED BY <2>2
<1>8. CASE Rests(k)
    BY <1>3, <1>4, <1>8 DEF Rests
<1>9. CASE Restarts(k)
    <2>1. g.phase = "sent" /\ g.answer = NoPage /\ d.data = c.data
        BY <1>1, <1>2, <1>4, <1>9, Fetches DEF Restarts
    <2> HIDE DEF g, c, d, f
    <2> QED BY <1>5, <1>6, <2>1
<1>10. CASE Continues(k)
    BY <1>1, <1>10 DEF Continues
<1>11. CASE Reads(k)
    <2> DEFINE answer == Respond(me, k, NextCursor(f.got))
    <2>1. f.by = me
        BY <1>1, <1>11 DEF Phases, Reads, k
    <2>2. g.phase # "idle" /\ g.answer = answer /\ d.data = c.data
        BY <1>2, <1>4, <1>11, <2>1 DEF Reads, Fetched
    <2>3. NextCursor(f.got) \in Nat \X Nat
        BY <1>2, CursorType DEF Fetched
    <2>4. answer.code = 200 => answer.rows = db.entrants
        BY <1>1, <2>3, Answers
    <2> HIDE DEF answer
    <2>5. answer.code = 200 => G(answer)
        BY <2>4 DEF G, Agrees
    <2> HIDE DEF g, c, d, f
    <2> QED BY <1>5, <2>2, <2>5
<1>12. CASE Counts(k)
    <2>1. /\ g.phase # "idle" /\ d.data = c.data
          /\ g.answer.code = f.answer.code /\ g.answer.rows = f.answer.rows
        BY <1>2, <1>4, <1>12 DEF Counts, Fetched, Page
    <2> HIDE DEF g, c, d, f
    <2>2. G(f.answer) => G(g.answer)
        BY <2>1 DEF G, Agrees
    <2> QED BY <1>3, <1>5, <2>1, <2>2
<1>13. CASE Fails(k)
    <2>1. g.phase # "idle" /\ d.data = c.data /\ g.answer = Refused(503)
        BY <1>2, <1>4, <1>13 DEF Fails, Fetched
    <2>2. g.answer.code # 200
        BY <2>1, RefusedType
    <2> HIDE DEF g, c, d, f
    <2> QED BY <1>5, <2>1, <2>2
<1>14. CASE Appends(k)
    <2>1. g.phase # "idle" /\ d.data = c.data /\ g.answer = NoPage
        BY <1>2, <1>4, <1>14 DEF Appends, Fetched
    <2> HIDE DEF g, c, d, f
    <2> QED BY <1>5, <1>6, <2>1
<1>15. CASE Completes(k)
    <2>1. d.data = <<f.answer>> /\ g = NoFetch /\ f.answer.code = 200
        BY <1>7, <1>15 DEF Completes, NoQuery
    <2>2. g.answer = NoPage
        BY <2>1, NoFetchType
    <2> HIDE DEF g, c, d, f
    <2> QED BY <1>3, <1>6, <2>1, <2>2
<1>16. CASE Repeats(k)
    <2>1. g.phase # "idle" /\ d.data = c.data /\ g.answer = NoPage
        BY <1>2, <1>4, <1>16 DEF Repeats, Fetched
    <2> HIDE DEF g, c, d, f
    <2> QED BY <1>5, <1>6, <2>1
<1>17. CASE GivesUp(k)
    <2>1. d.data = c.data /\ d.error = TRUE /\ g = NoFetch
        BY <1>2, <1>17 DEF GivesUp, Stored
    <2>2. g.answer = NoPage
        BY <2>1, NoFetchType
    <2> HIDE DEF g, c, d, f
    <2> QED BY <1>6, <2>1, <2>2
<1> QED BY <1>8, <1>9, <1>10, <1>11, <1>12, <1>13, <1>14, <1>15, <1>16, <1>17 DEF Moves, k

Loading == Cached /\ QueryInv /\ HistoryInv

LEMMA WorkingKeeps ==
    ASSUME BaseInv, QueryInv, HistoryInv, Working
    PROVE  Loading'
<1>1. Cached'
    <2>1. \A k \in Keys : cache'[k] \in Stored /\ flight'[k] \in Fetched
        BY MovesTyped DEF Working, QueryInv
    <2> QED BY <2>1 DEF Working, Cached
<1>2. ASSUME NEW k \in Keys PROVE Phases(k)' /\ Loaded(k)' /\ Single(k)'
    BY MovesPhases, MovesSingle, MovesLoaded DEF Working, QueryInv
<1>3. ASSUME NEW u \in Users PROVE History(u)'
    <2>1. <<"history", u>> \in Keys
        BY DEF Keys
    <2> QED BY <2>1, MovesHistory DEF Working, QueryInv, HistoryInv
<1>4. QueryInv'
    BY <1>2 DEF QueryInv
<1>5. HistoryInv'
    BY <1>3 DEF HistoryInv
<1> QED BY <1>1, <1>4, <1>5 DEF Loading

LEMMA LeagueGrows ==
    ASSUME Tables, Tables', db.standings \subseteq db'.standings, NEW league
    PROVE  Cardinality(InLeague(league)) <= Cardinality(InLeague(league)')
<1>1. IsFiniteSet(InLeague(league)')
    <2>1. InLeague(league)' \subseteq StandingPool
        BY DEF InLeague, Tables
    <2> QED BY <2>1, BrowsingAssumption, FS_Subset
<1>2. InLeague(league) \subseteq InLeague(league)'
    BY DEF InLeague
<1> QED BY <1>1, <1>2, FS_Subset

LEMMA ElsewhereKeeps ==
    ASSUME BaseInv, QueryInv, HistoryInv, Elsewhere, Tables'
    PROVE  Loading'
<1>1. Cached'
    BY DEF Elsewhere, BaseInv, Cached
<1>2. ASSUME NEW k \in Keys PROVE Phases(k)' /\ Loaded(k)' /\ Single(k)'
    <2>1. Phases(k) /\ Loaded(k) /\ Single(k)
        BY DEF QueryInv
    <2>2. Phases(k)' /\ Single(k)'
        BY <2>1 DEF Elsewhere, Phases, Single, Counted
    <2> DEFINE n == Cardinality(InLeague(k[3]))
    <2>3. n <= n' /\ n \in Nat /\ n' \in Nat
        <3>1. n <= n' /\ n \in Nat
            BY LeagueGrows, StandingsAreFinite DEF BaseInv, Elsewhere
        <3>2. IsFiniteSet(InLeague(k[3])')
            <4>1. InLeague(k[3])' \subseteq StandingPool
                BY DEF InLeague, Tables
            <4> QED BY <4>1, BrowsingAssumption, FS_Subset
        <3> QED BY <3>1, <3>2, FS_CardinalityType
    <2>4. db.users <= db'.users /\ db.users \in Nat /\ db'.users \in Nat
        BY DEF Elsewhere, BaseInv, Tables
    <2> DEFINE R(page) == Right(k, page)
               Q(page) == /\ k[1] = "season" => page.rows = {<<"me", me>>}
                          /\ k[1] = "profile" => <<"me", me>> \in page.rows
                          /\ k[1] = "users" => page.total <= db'.users
                          /\ k[1] = "standings" => page.total <= n'
                          /\ k[1] = "history" => page.rows \subseteq db'.matches[k[2]]
    <2>10. k[1] = "history" => db.matches[k[2]] \subseteq db'.matches[k[2]]
        BY KeyNames DEF Elsewhere
    <2>5. ASSUME NEW page \in Page, R(page) PROVE Q(page)
        <3>1. page.total \in Nat
            BY DEF Page
        <3> HIDE DEF n
        <3>2. k[1] = "standings" => page.total <= n
            BY <2>5 DEF Right, n
        <3> QED BY <2>3, <2>4, <2>5, <2>10, <3>1, <3>2 DEF Right
    <2> DEFINE A(pages) == \A i \in DOMAIN pages : Q(pages[i])
    <2>6. /\ cache[k].data \in Seq(Page) /\ flight[k].got \in Seq(Page) /\ flight[k].base \in Seq(Page)
          /\ flight[k].answer \in Page
        BY DEF BaseInv, Cached, Stored, Fetched
    <2>7. ASSUME NEW pages \in Seq(Page), AllRight(k, pages) PROVE A(pages)
        <3> HIDE DEF Q
        <3> SUFFICES ASSUME NEW i \in DOMAIN pages PROVE Q(pages[i])
            OBVIOUS
        <3>1. pages[i] \in Page
            OBVIOUS
        <3>2. R(pages[i])
            BY <2>7 DEF AllRight
        <3> HIDE DEF R
        <3> QED BY <2>5, <3>1, <3>2
    <2>8. /\ A(cache[k].data) /\ A(flight[k].got) /\ A(flight[k].base)
          /\ flight[k].answer.code = 200 => Q(flight[k].answer)
        <3> HIDE DEF A, Q
        <3> QED BY <2>1, <2>5, <2>6, <2>7 DEF Loaded
    <2>9. Loaded(k)'
        BY <2>8 DEF Elsewhere, Loaded, AllRight, Right
    <2> QED BY <2>2, <2>9
<1>3. ASSUME NEW u \in Users PROVE History(u)'
    <2>1. History(u) /\ db.matches[u] \subseteq db'.matches[u] /\ UNCHANGED <<cache, flight>>
        BY DEF HistoryInv, Elsewhere
    <2> DEFINE D(pages) ==
                 /\ RowsOf(pages) \subseteq MatchPool
                 /\ \A i, j \in DOMAIN pages : i < j =>
                       \A m \in pages[i].rows, n \in pages[j].rows : Before(m, n)
                 /\ NextCursor(pages) # NoCursor => UpTo(NextCursor(pages), RowsOf(pages))
                 /\ pages # <<>> =>
                       /\ pages[1].asOf \subseteq db'.matches[u]
                       /\ \A m \in pages[1].asOf \ RowsOf(pages) :
                             NextCursor(pages) # NoCursor /\ Before(NextCursor(pages), m)
               f == flight[<<"history", u>>]
    <2>2. ASSUME NEW pages, Chain(u, pages) PROVE D(pages)
        BY <2>1, <2>2 DEF Chain
    <2> HIDE DEF D
    <2>3. /\ D(cache[<<"history", u>>].data) /\ D(f.got) /\ D(f.base) /\ Open(f.got) /\ Open(f.base)
          /\ f.phase = "answered" /\ f.answer.code = 200 => D(Append(f.got, f.answer))
        BY <2>1, <2>2 DEF History
    <2>4. Chain(u, cache[<<"history", u>>].data)'
        BY <2>1, <2>3 DEF D, Chain
    <2>5. Chain(u, flight[<<"history", u>>].got)' /\ Open(flight[<<"history", u>>].got)'
        BY <2>1, <2>3 DEF D, Chain
    <2>6. Chain(u, flight[<<"history", u>>].base)' /\ Open(flight[<<"history", u>>].base)'
        BY <2>1, <2>3 DEF D, Chain
    <2>7. (f.phase = "answered" /\ f.answer.code = 200 => Chain(u, Append(f.got, f.answer)))'
        <3> DEFINE q == Append(f.got, f.answer)
        <3>1. f' = f /\ q' = q
            BY <2>1
        <3>2. f.phase = "answered" /\ f.answer.code = 200 => D(q)
            BY <2>3
        <3>3. f.phase = "answered" /\ f.answer.code = 200 => Chain(u, q)'
            <4> HIDE DEF q, f
            <4> QED BY <3>1, <3>2 DEF D, Chain
        <3> QED BY <3>1, <3>3
    <2> QED BY <2>4, <2>5, <2>6, <2>7 DEF History
<1>4. QueryInv'
    BY <1>2 DEF QueryInv
<1>5. HistoryInv'
    BY <1>3 DEF HistoryInv
<1> QED BY <1>1, <1>4, <1>5 DEF Loading

\* An empty cache, at the start and after clear().
LEMMA EmptyCache ==
    ASSUME cache = [k \in Keys |-> NoQuery], flight = [k \in Keys |-> NoFetch]
    PROVE  Loading
<1>1. Cached
    BY NoQueryType, NoFetchType DEF Cached
<1>2. ASSUME NEW k \in Keys PROVE Phases(k) /\ Loaded(k) /\ Single(k)
    <2>1. cache[k] = NoQuery /\ flight[k] = NoFetch
        OBVIOUS
    <2> QED BY <2>1, NoQueryType, NoFetchType, NoPageType DEF Phases, Loaded, AllRight, Single
<1>3. ASSUME NEW u \in Users PROVE History(u)
    <2>1. <<"history", u>> \in Keys
        BY DEF Keys
    <2> QED BY <2>1, NoQueryType, NoFetchType, EmptyChain DEF History
<1> QED BY <1>1, <1>2, <1>3 DEF Loading, QueryInv, HistoryInv

LEMMA ClearedKeeps ==
    ASSUME clearUserQueries
    PROVE  Loading'
<1>1. Cached'
    BY NoQueryType, NoFetchType DEF clearUserQueries, Cached
<1>2. ASSUME NEW k \in Keys PROVE Phases(k)' /\ Loaded(k)' /\ Single(k)'
    <2>1. cache'[k] = NoQuery /\ flight'[k] = NoFetch
        BY DEF clearUserQueries
    <2> QED BY <2>1, NoQueryType, NoFetchType, NoPageType DEF Phases, Loaded, AllRight, Single
<1>3. ASSUME NEW u \in Users PROVE History(u)'
    <2>1. <<"history", u>> \in Keys
        BY DEF Keys
    <2>2. /\ cache'[<<"history", u>>].data = <<>> /\ flight'[<<"history", u>>].got = <<>>
          /\ flight'[<<"history", u>>].base = <<>> /\ flight'[<<"history", u>>].phase = "idle"
        BY <2>1, NoQueryType, NoFetchType DEF clearUserQueries
    <2> QED BY <2>2 DEF History, Chain, Open, NextCursor, RowsOf
<1> QED BY <1>1, <1>2, <1>3 DEF Loading, QueryInv, HistoryInv

\* A step of the queries keeps the invariant when the page that is shown is a page.
LEMMA WorkingInv ==
    ASSUME Inv, Working, Tables', Tab', Shown',
           attentive' => /\ attentive /\ (Changed => Changed')
                         /\ Unanswered' => /\ Unanswered /\ route' = route
                                           /\ scenario'.queries = scenario.queries
    PROVE  Inv'
<1>1. Loading'
    BY WorkingKeeps DEF Inv
<1>2. ASSUME attentive' PROVE /\ Unanswered' => /\ route' = "tournament" /\ "tournament" \in scenario'.queries
                                                /\ cache'[<<"tournament">>].data # <<>>
                              /\ Told'
    <2>1. /\ Unanswered => /\ route = "tournament" /\ "tournament" \in scenario.queries
                           /\ cache[<<"tournament">>].data # <<>>
          /\ Told
        BY <1>2 DEF Inv, Registration
    <2>2. <<"tournament">> \in Keys
        BY DEF Keys
    <2>3. Phases(<<"tournament">>) /\ Single(<<"tournament">>) /\ Moves(<<"tournament">>)
        BY <2>2 DEF Inv, QueryInv, Working
    <2>4. Told' /\ (cache[<<"tournament">>].data # <<>> => cache'[<<"tournament">>].data # <<>>)
        BY <1>2, <2>1, <2>3, MovesTold DEF Inv, Working
    <2> QED BY <1>2, <2>1, <2>4
<1>3. Registration'
    BY <1>2 DEF Registration
<1> QED BY <1>1, <1>3 DEF Inv, BaseInv, Loading

\* Most steps show the same page as before.
Quiet ==
    /\ UNCHANGED <<me, db, route, view, calls, attentive>>
    /\ \E n \in Nat : scenario' = [scenario EXCEPT !.faults = n]

LEMMA QuietKeeps ==
    ASSUME BaseInv, Quiet
    PROVE  /\ Tables' /\ Tab' /\ Shown' /\ (Changed <=> Changed') /\ (Unanswered <=> Unanswered')
           /\ scenario'.queries = scenario.queries
<1>1. PICK n \in Nat : scenario' = [scenario EXCEPT !.faults = n]
    BY DEF Quiet
<1>2. /\ scenario'.queries = scenario.queries /\ scenario'.users = scenario.users
      /\ scenario' \in [queries : SUBSET Queries, user : Users \cup {Nobody},
                        signIns : SUBSET Users, matches : SUBSET MatchPool,
                        users : 1..MaxUsers, clicks : Nat, faults : Nat]
    BY <1>1 DEF BaseInv, Tab
<1>3. Tables'
    BY <1>2 DEF BaseInv, Tables, Quiet
<1>4. Tab'
    BY <1>2 DEF BaseInv, Tab, Quiet
<1>5. Shown'
    BY DEF BaseInv, Shown, Quiet, InLeague
<1>6. (Changed <=> Changed') /\ (Unanswered <=> Unanswered')
    BY DEF Changed, Unanswered, Quiet
<1> QED BY <1>2, <1>3, <1>4, <1>5, <1>6

LEMMA QuietInv ==
    ASSUME Inv, Working, Quiet
    PROVE  Inv'
<1>1. /\ Tables' /\ Tab' /\ Shown' /\ (Changed <=> Changed') /\ (Unanswered <=> Unanswered')
      /\ scenario'.queries = scenario.queries
    BY QuietKeeps DEF Inv
<1>2. attentive' = attentive /\ route' = route
    BY DEF Quiet
<1> QED BY <1>1, <1>2, WorkingInv

LEMMA UnchangedScenario ==
    ASSUME Tab, UNCHANGED scenario
    PROVE  \E n \in Nat : scenario' = [scenario EXCEPT !.faults = n]
<1>1. scenario.faults \in Nat /\ scenario = [scenario EXCEPT !.faults = scenario.faults]
    BY DEF Tab
<1> QED BY <1>1

\* The history that is asked for is one's own.
LEMMA OwnHistory ==
    ASSUME NEW u, NEW r, NEW v, NEW k \in Queried(u, r, v), k[1] = "history"
    PROVE  k[2] = u
<1>1. /\ k \in Header(u) => k[1] = "season"
      /\ k \in ProfilePage(u, v) => k = <<"profile", u>> \/ k = <<"history", u>>
      /\ k \in useAdminUsers(v) => k[1] = "users"
      /\ k \in AdminMatchAuditPage(v) => k[1] = "audit"
      /\ k \in useClosedSeasons => k[1] = "closed"
      /\ k \in useSeasonStandings(v) => k[1] = "standings"
      /\ k \in TournamentsPage => k[1] = "tournaments"
      /\ k \in useTournament => k[1] = "tournament"
    BY DEF Header, ProfilePage, useAdminUsers, AdminMatchAuditPage, useClosedSeasons,
           useSeasonStandings, TournamentsPage, useTournament
<1>2. k \in ProfilePage(u, v)
    BY <1>1 DEF Queried
<1> QED BY <1>1, <1>2

\* Queries that are fetched work.
LEMMA FetchWorks ==
    ASSUME BaseInv, NEW K, NEW c, Fetch(K, c), me' = me, db' = db,
           \A k \in Keys : c[k] \in Stored /\ c[k].data = cache[k].data /\ c[k].error = cache[k].error,
           \A k \in K : k[1] = "history" => k[2] = me
    PROVE  /\ Working
           /\ \A k \in Keys : k \in K => flight'[k] = Reloading(k) /\ cache'[k].data = cache[k].data
<1>1. /\ flight' = [k \in Keys |-> IF k \in K THEN Reloading(k) ELSE flight[k]]
      /\ cache' = [k \in Keys |-> IF k \in K /\ c[k].data = <<>> THEN NoQuery ELSE c[k]]
    BY DEF Fetch
<1>2. ASSUME NEW k \in Keys PROVE Kept(k) /\ flight'[k] = IF k \in K THEN Reloading(k) ELSE flight[k]
    <2>1. /\ flight'[k] = IF k \in K THEN Reloading(k) ELSE flight[k]
          /\ cache'[k] = IF k \in K /\ c[k].data = <<>> THEN NoQuery ELSE c[k]
        BY <1>1
    <2>2. c[k] \in Stored /\ c[k].data = cache[k].data /\ c[k].error = cache[k].error
        OBVIOUS
    <2> QED BY <2>1, <2>2, NoQueryType DEF Kept
<1>3. ASSUME NEW k \in Keys PROVE Moves(k)
    BY <1>2 DEF Moves, Rests, Restarts
<1>4. cache' = [k \in Keys |-> cache'[k]] /\ flight' = [k \in Keys |-> flight'[k]]
    BY <1>1
<1> QED BY <1>2, <1>3, <1>4 DEF Working, Kept

LEMMA FetchCacheWorks ==
    ASSUME BaseInv, NEW K, Fetch(K, cache), me' = me, db' = db,
           \A k \in K : k[1] = "history" => k[2] = me
    PROVE  Working
<1>1. \A k \in Keys : cache[k] \in Stored
    BY DEF BaseInv, Cached
<1> QED BY <1>1, FetchWorks

LEMMA MountWorks ==
    ASSUME BaseInv, NEW r, NEW v, Mount(r, v), me' = me, db' = db
    PROVE  Working
<1> DEFINE K == {k \in Queried(me, r, v) \ Mounted :
                   (cache[k].data = <<>> \/ cache[k].stale) /\ flight[k] = NoFetch}
<1>1. Fetch(K, cache)
    BY DEF Mount
<1>2. \A k \in K : k[1] = "history" => k[2] = me
    BY OwnHistory
<1> HIDE DEF K
<1> QED BY <1>1, <1>2, FetchCacheWorks

\* A step of one query.
LEMMA OneWorks ==
    ASSUME BaseInv, NEW k \in Keys, me' = me, db' = db, Moves(k),
           NEW c, cache' = [cache EXCEPT ![k] = c], NEW f, flight' = [flight EXCEPT ![k] = f]
    PROVE  Working
<1>1. Cached
    BY DEF BaseInv
<1>2. cache' = [j \in Keys |-> cache'[j]] /\ flight' = [j \in Keys |-> flight'[j]]
    BY <1>1 DEF Cached
<1>3. ASSUME NEW j \in Keys, j # k PROVE Moves(j)
    <2>1. cache'[j] = cache[j] /\ flight'[j] = flight[j] /\ cache[j] \in Stored
        BY <1>1, <1>3 DEF Cached
    <2> QED BY <2>1 DEF Moves, Rests, Kept
<1> QED BY <1>2, <1>3 DEF Working

-----------------------------------------------------------------------------
(* The steps of the queries. *)

LEMMA StaleTimeInv == ASSUME Inv, NEW k \in Keys, StaleTime(k) PROVE Inv'
<1>1. BaseInv /\ Cached /\ Tab
    BY DEF Inv, BaseInv
<1>2. cache[k] \in Stored /\ flight \in [Keys -> Fetched]
    BY <1>1 DEF Cached
<1> DEFINE c == [cache[k] EXCEPT !.stale = TRUE]
<1>3. /\ cache' = [cache EXCEPT ![k] = c] /\ flight' = [flight EXCEPT ![k] = flight[k]]
      /\ UNCHANGED <<db, me, route, view, calls, scenario, attentive>>
    BY <1>2 DEF StaleTime
<1>4. c \in Stored /\ c.data = cache[k].data /\ c.error = cache[k].error
    BY <1>2 DEF Stored
<1> HIDE DEF c
<1>5. cache'[k] = c /\ flight'[k] = flight[k]
    BY <1>1, <1>2, <1>3 DEF Cached
<1>6. Moves(k)
    BY <1>4, <1>5 DEF Moves, Rests, Kept
<1>7. Working
    BY <1>1, <1>3, <1>6, OneWorks
<1>8. Quiet
    BY <1>1, <1>3, UnchangedScenario DEF Quiet
<1> QED BY <1>7, <1>8, QuietInv

LEMMA FocusInv == ASSUME Inv, Focus PROVE Inv'
<1> DEFINE K == {k \in Mounted : (cache[k].data = <<>> \/ cache[k].stale) /\ flight[k] = NoFetch}
<1>1. Fetch(K, cache) /\ UNCHANGED <<db, me, route, view, calls, scenario, attentive>>
    BY DEF Focus
<1>2. \A k \in K : k[1] = "history" => k[2] = me
    BY OwnHistory DEF Mounted
<1> HIDE DEF K
<1>3. Working
    BY <1>1, <1>2, FetchCacheWorks DEF Inv
<1>4. Quiet
    BY <1>1, UnchangedScenario DEF Quiet, Inv, BaseInv
<1> QED BY <1>3, <1>4, QuietInv

LEMMA SeasonInv == ASSUME Inv, RefetchInterval \/ HeaderRenders PROVE Inv'
<1>1. Fetch({<<"season">>}, cache) /\ UNCHANGED <<db, me, route, view, calls, scenario, attentive>>
    BY DEF RefetchInterval, HeaderRenders
<1>2. \A k \in {<<"season">>} : k[1] = "history" => k[2] = me
    OBVIOUS
<1>3. Working
    BY <1>1, <1>2, FetchCacheWorks DEF Inv
<1>4. Quiet
    BY <1>1, UnchangedScenario DEF Quiet, Inv, BaseInv
<1> QED BY <1>3, <1>4, QuietInv

LEMMA RetryInv == ASSUME Inv, NEW k \in Keys, Retry(k) PROVE Inv'
<1>1. /\ Fetch({k}, cache) /\ k \in Mounted
      /\ UNCHANGED <<db, me, route, view, calls, scenario, attentive>>
    BY DEF Retry
<1>2. \A j \in {k} : j[1] = "history" => j[2] = me
    BY <1>1, OwnHistory DEF Mounted
<1>3. Working
    BY <1>1, <1>2, FetchCacheWorks DEF Inv
<1>4. Quiet
    BY <1>1, UnchangedScenario DEF Quiet, Inv, BaseInv
<1> QED BY <1>3, <1>4, QuietInv

\* A step of one fetch that leaves the cache as it is.
LEMMA FlightInv ==
    ASSUME Inv, NEW k \in Keys, NEW f, flight' = [flight EXCEPT ![k] = f], UNCHANGED cache, Quiet,
           flight'[k] = f /\ Kept(k) => Moves(k)
    PROVE  Inv'
<1>1. BaseInv /\ Cached
    BY DEF Inv, BaseInv
<1>2. /\ flight'[k] = f /\ cache'[k] = cache[k] /\ cache[k] \in Stored
      /\ cache' = [cache EXCEPT ![k] = cache[k]]
    BY <1>1 DEF Cached
<1>3. Moves(k)
    BY <1>2 DEF Kept
<1>4. me' = me /\ db' = db
    BY DEF Quiet
<1>5. Working
    BY <1>1, <1>2, <1>3, <1>4, OneWorks
<1> QED BY <1>5, QuietInv

LEMMA ReadInv == ASSUME Inv, NEW k \in Keys, Read(k) PROVE Inv'
<1> DEFINE answer == Respond(flight[k].by, k, NextCursor(flight[k].got))
           p == IF answer.code = 200 /\ Counted(k) THEN "counting" ELSE "answered"
           f == [flight[k] EXCEPT !.answer = answer, !.phase = p]
<1>1. Cached /\ flight[k] \in Fetched
    BY DEF Inv, BaseInv, Cached
<1>2. flight' = [flight EXCEPT ![k].answer = answer, ![k].phase = p]
    BY DEF Read
<1>3. flight' = [flight EXCEPT ![k] = f]
    <2> HIDE DEF answer, p
    <2> QED BY <1>1, <1>2 DEF Cached
<1>4. flight'[k] = f /\ Kept(k) => Moves(k)
    BY DEF Read, Reads, Moves
<1>5. Quiet /\ UNCHANGED cache
    BY UnchangedScenario DEF Read, Quiet, Inv, BaseInv
<1> HIDE DEF f
<1> QED BY <1>3, <1>4, <1>5, FlightInv

LEMMA ReadTotalInv == ASSUME Inv, NEW k \in Keys, ReadTotal(k) PROVE Inv'
<1> DEFINE f == [flight[k] EXCEPT !.answer.total = Count(k), !.phase = "answered"]
<1>1. Cached /\ flight[k] \in Fetched
    BY DEF Inv, BaseInv, Cached
<1>2. flight' = [flight EXCEPT ![k] = f]
    BY <1>1 DEF Cached, ReadTotal
<1>3. flight'[k] = f /\ Kept(k) => Moves(k)
    BY DEF ReadTotal, Counts, Moves
<1>4. Quiet /\ UNCHANGED cache
    BY UnchangedScenario DEF ReadTotal, Quiet, Inv, BaseInv
<1> HIDE DEF f
<1> QED BY <1>2, <1>3, <1>4, FlightInv

LEMMA RequestFailsInv == ASSUME Inv, NEW k \in Keys, RequestFails(k) PROVE Inv'
<1> DEFINE f == [flight[k] EXCEPT !.answer = Refused(503), !.phase = "answered"]
<1>1. Cached /\ flight[k] \in Fetched /\ Tab
    BY DEF Inv, BaseInv, Cached
<1>2. flight' = [flight EXCEPT ![k] = f]
    BY <1>1 DEF Cached, RequestFails
<1>3. flight'[k] = f /\ Kept(k) => Moves(k)
    BY DEF RequestFails, Fails, Moves
<1>4. \E n \in Nat : scenario' = [scenario EXCEPT !.faults = n]
    <2>1. scenario.faults \in Nat /\ scenario.faults > 0
        BY <1>1 DEF Tab, RequestFails
    <2>2. scenario.faults - 1 \in Nat /\ scenario' = [scenario EXCEPT !.faults = scenario.faults - 1]
        BY <2>1 DEF RequestFails
    <2> QED BY <2>2
<1>5. Quiet /\ UNCHANGED cache
    BY <1>4 DEF RequestFails, Quiet
<1> HIDE DEF f
<1> QED BY <1>2, <1>3, <1>5, FlightInv

LEMMA LoadMoreInv == ASSUME Inv, LoadMore PROVE Inv'
<1> DEFINE k == <<"history", me>>
<1>1. /\ AsyncPanel(k) /\ NextCursor(cache[k].data) # NoCursor
      /\ flight' = [flight EXCEPT ![k] = Extending(k)]
      /\ UNCHANGED <<db, me, route, view, cache, calls, scenario, attentive>>
    BY DEF LoadMore
<1>2. Data(k) = cache[k].data /\ cache[k].data # <<>>
    BY <1>1 DEF Data, AsyncPanel
<1>3. k \in Keys
    <2>1. me \in Users \cup {Nobody}
        BY DEF Inv, BaseInv, Tab
    <2>2. me # Nobody
        <3>1. k \in Queried(me, route, view) /\ k[1] = "history"
            BY <1>1 DEF AsyncPanel, Mounted
        <3>2. route = "profile"
            BY <3>1 DEF Queried, Header, useAdminUsers, AdminMatchAuditPage, useClosedSeasons,
                        useSeasonStandings, TournamentsPage, useTournament
        <3> QED BY <3>2 DEF Inv, BaseInv, Shown
    <2> QED BY <2>1, <2>2 DEF Keys
<1>4. flight'[k] = Extending(k) /\ Kept(k) => Moves(k)
    BY <1>1, <1>2 DEF Moves, Continues
<1>5. Quiet
    BY <1>1, UnchangedScenario DEF Quiet, Inv, BaseInv
<1> HIDE DEF k
<1> QED BY <1>1, <1>3, <1>4, <1>5, FlightInv

LEMMA ArriveInv == ASSUME Inv, NEW k \in Keys, Arrive(k) PROVE Inv'
<1> DEFINE f == flight[k]
           complete == Len(Taken(k)) >= f.want \/ (k[1] = "history" /\ NextCursor(Taken(k)) = NoCursor)
           sent == [f EXCEPT !.got = Taken(k), !.answer = NoPage, !.phase = "sent", !.by = me]
           again == [f EXCEPT !.got = f.base, !.answer = NoPage, !.tries = 1, !.phase = "sent", !.by = me]
           full == [NoQuery EXCEPT !.data = Taken(k)]
           failed == [cache[k] EXCEPT !.error = TRUE]
<1>1. BaseInv /\ Cached /\ cache[k] \in Stored /\ f \in Fetched
    BY DEF Inv, BaseInv, Cached
<1>2. Quiet
    BY UnchangedScenario DEF Arrive, Quiet, Inv, BaseInv
<1>3. f.phase = "answered"
    BY DEF Arrive
<1>4. \/ /\ f.answer.code = 200 /\ ~complete
         /\ flight' = [flight EXCEPT ![k].got = Taken(k), ![k].answer = NoPage,
                                     ![k].phase = "sent", ![k].by = me]
         /\ UNCHANGED cache
      \/ /\ f.answer.code = 200
         /\ cache' = [cache EXCEPT ![k] = full] /\ flight' = [flight EXCEPT ![k] = NoFetch]
      \/ /\ flight' = [flight EXCEPT ![k].got = f.base, ![k].answer = NoPage, ![k].tries = 1,
                                     ![k].phase = "sent", ![k].by = me]
         /\ UNCHANGED cache
      \/ cache' = [cache EXCEPT ![k].error = TRUE] /\ flight' = [flight EXCEPT ![k] = NoFetch]
    BY DEF Arrive, Taken
<1>5. CASE /\ f.answer.code = 200 /\ ~complete
           /\ flight' = [flight EXCEPT ![k].got = Taken(k), ![k].answer = NoPage,
                                       ![k].phase = "sent", ![k].by = me]
           /\ UNCHANGED cache
    <2>1. flight' = [flight EXCEPT ![k] = sent]
        <3> DEFINE q == Taken(k)
        <3>1. flight' = [flight EXCEPT ![k].got = q, ![k].answer = NoPage,
                                       ![k].phase = "sent", ![k].by = me]
            BY <1>5
        <3> HIDE DEF q, complete
        <3>2. flight' = [flight EXCEPT ![k] = [f EXCEPT !.got = q, !.answer = NoPage,
                                                         !.phase = "sent", !.by = me]]
            BY <1>1, <3>1 DEF Cached
        <3> QED BY <3>2 DEF q
    <2>2. flight'[k] = sent /\ Kept(k) => Moves(k)
        BY <1>3, <1>5 DEF Moves, Appends
    <2> HIDE DEF sent
    <2> QED BY <1>2, <1>5, <2>1, <2>2, FlightInv
<1>6. CASE /\ flight' = [flight EXCEPT ![k].got = f.base, ![k].answer = NoPage, ![k].tries = 1,
                                       ![k].phase = "sent", ![k].by = me]
           /\ UNCHANGED cache
    <2>1. flight' = [flight EXCEPT ![k] = again]
        BY <1>1, <1>6 DEF Cached
    <2>2. flight'[k] = again /\ Kept(k) => Moves(k)
        BY <1>3, <1>6 DEF Moves, Repeats
    <2> HIDE DEF again
    <2> QED BY <1>2, <1>6, <2>1, <2>2, FlightInv
<1>7. CASE /\ f.answer.code = 200
           /\ cache' = [cache EXCEPT ![k] = full] /\ flight' = [flight EXCEPT ![k] = NoFetch]
    <2> HIDE DEF full
    <2>1. cache'[k] = full /\ flight'[k] = NoFetch
        BY <1>1, <1>7 DEF Cached
    <2>2. Moves(k)
        BY <1>3, <1>7, <2>1 DEF Moves, Completes, full
    <2>3. me' = me /\ db' = db
        BY <1>2 DEF Quiet
    <2>4. Working
        BY <1>1, <1>7, <2>2, <2>3, OneWorks
    <2> QED BY <1>2, <2>4, QuietInv
<1>8. CASE cache' = [cache EXCEPT ![k].error = TRUE] /\ flight' = [flight EXCEPT ![k] = NoFetch]
    <2>1. cache' = [cache EXCEPT ![k] = failed]
        BY <1>8
    <2> HIDE DEF failed
    <2>2. cache'[k] = failed /\ flight'[k] = NoFetch
        BY <1>1, <1>8, <2>1 DEF Cached
    <2>3. Moves(k)
        BY <1>3, <1>8, <2>2 DEF Moves, GivesUp, failed
    <2>4. me' = me /\ db' = db
        BY <1>2 DEF Quiet
    <2>5. Working
        BY <1>1, <1>8, <2>1, <2>3, <2>4, OneWorks
    <2> QED BY <1>2, <2>5, QuietInv
<1> HIDE DEF complete, full
<1> QED BY <1>4, <1>5, <1>6, <1>7, <1>8

-----------------------------------------------------------------------------
(* The steps of the pages. *)

AnyView == [page : Nat, league : AnyLeague, tab : {"overview", "history"},
            previous : Seq(Page), match : MatchPool \cup {NoCursor}]

LEMMA NewViewType ==
    ASSUME NEW id \in MatchPool \cup {NoCursor}
    PROVE  LET v == [NewView EXCEPT !.match = id] IN
           v \in AnyView /\ v.page = 1 /\ v.previous = <<>> /\ v.league = AllLeagues
<1> DEFINE v == [NewView EXCEPT !.match = id]
<1>1. /\ v.page = 1 /\ v.league = AllLeagues /\ v.tab = "overview" /\ v.previous = <<>>
      /\ v.match = id
    BY DEF NewView
<1>2. NewView \in AnyView
    BY DEF NewView, AnyView, AnyLeague
<1>3. v \in AnyView
    BY <1>2 DEF AnyView
<1> QED BY <1>1, <1>3

LEMMA FirstPage ==
    ASSUME Tables, NEW league
    PROVE  1 \in 1..pageCount(db.users) /\ 1 \in 1..pageCount(Cardinality(InLeague(league)))
<1>1. db.users \in Nat /\ Cardinality(InLeague(league)) \in Nat
    BY StandingsAreFinite DEF Tables
<1>2. pageCount(db.users) \in Nat \ {0} /\ pageCount(Cardinality(InLeague(league))) \in Nat \ {0}
    BY <1>1, PagesGrow
<1> HIDE DEF pageCount
<1> QED BY <1>2

\* The same page with another view: what is left is to show that the view is right.
LEMMA ViewInv ==
    ASSUME Inv, NEW v \in AnyView, Show(route, v), UNCHANGED <<calls, attentive>>,
           route = "users" => v.page \in 1..pageCount(db.users),
           route = "standings" => v.page \in 1..pageCount(Cardinality(InLeague(v.league))),
           \A i \in DOMAIN v.previous : v.previous[i].total <= db.users
    PROVE  Inv'
<1>1. Mount(route, v) /\ route' = route /\ view' = v /\ UNCHANGED <<db, me, scenario>>
    BY DEF Show
<1>2. Working
    BY <1>1, MountWorks DEF Inv
<1>3. Tables'
    BY <1>1 DEF Inv, BaseInv, Tables
<1>4. Tab'
    BY <1>1 DEF Inv, BaseInv, Tab, AnyView
<1>5. Shown'
    BY <1>1 DEF Inv, BaseInv, Shown, InLeague
<1>6. (Changed <=> Changed') /\ (Unanswered <=> Unanswered')
    BY DEF Changed, Unanswered
<1> QED BY <1>1, <1>2, <1>3, <1>4, <1>5, <1>6, WorkingInv

LEMMA SelectTabInv == ASSUME Inv, NEW tab \in {"overview", "history"}, SelectTab(tab) PROVE Inv'
<1> DEFINE v == [view EXCEPT !.tab = tab]
<1>1. route = "profile" /\ Show(route, v) /\ UNCHANGED <<calls, attentive>>
    BY DEF SelectTab
<1>2. view \in AnyView /\ \A i \in DOMAIN view.previous : view.previous[i].total <= db.users
    BY DEF Inv, BaseInv, Tab, Shown, AnyView
<1>3. v \in AnyView /\ v.previous = view.previous
    BY <1>2 DEF AnyView
<1> HIDE DEF v
<1> QED BY <1>1, <1>2, <1>3, ViewInv

LEMMA ChooseLeagueInv == ASSUME Inv, NEW league \in AnyLeague, ChooseLeague(league) PROVE Inv'
<1> DEFINE v == [view EXCEPT !.league = league, !.page = 1]
<1>1. route = "standings" /\ Show(route, v) /\ UNCHANGED <<calls, attentive>>
    BY DEF ChooseLeague, handleLeagueChange
<1>2. view \in AnyView /\ \A i \in DOMAIN view.previous : view.previous[i].total <= db.users
    BY DEF Inv, BaseInv, Tab, Shown, AnyView
<1>3. v \in AnyView /\ v.previous = view.previous /\ v.page = 1
    BY <1>2 DEF AnyView
<1> HIDE DEF v
<1>4. v.page \in 1..pageCount(Cardinality(InLeague(v.league)))
    BY <1>3, FirstPage DEF Inv, BaseInv
<1> QED BY <1>1, <1>2, <1>3, <1>4, ViewInv

LEMMA TurnStandingsPageInv == ASSUME Inv, NEW step \in {-1, 1}, TurnStandingsPage(step) PROVE Inv'
<1> DEFINE k == <<"standings", view.page, view.league>>
           v == [view EXCEPT !.page = view.page + step]
           n == Cardinality(InLeague(view.league))
           t == cache[k].data[1].total
<1>1. /\ route = "standings" /\ AsyncPanel(k) /\ canTurn(view.page, step, Data(k)[1].total)
      /\ Show(route, v) /\ UNCHANGED <<calls, attentive>>
    BY DEF TurnStandingsPage
<1>2. /\ view \in AnyView /\ \A i \in DOMAIN view.previous : view.previous[i].total <= db.users
      /\ view.page \in 1..pageCount(n) /\ view.league \in AnyLeague /\ Tables /\ Cached
    BY <1>1 DEF Inv, BaseInv, Tab, Shown, AnyView
<1>3. n \in Nat /\ n <= Cardinality(StandingPool) /\ Cardinality(StandingPool) \in Nat
    BY <1>2, StandingsAreFinite
<1>4. Data(k) = cache[k].data /\ cache[k].data # <<>>
    BY <1>1 DEF Data, AsyncPanel
<1>5. k \in Keys
    <2>1. pageCount(n) <= pageCount(Cardinality(StandingPool)) /\ pageCount(n) \in Nat
          /\ pageCount(Cardinality(StandingPool)) \in Nat
        BY <1>3, PagesGrow
    <2> HIDE DEF n
    <2>2. view.page \in 1..pageCount(Cardinality(StandingPool))
        BY <1>2, <2>1
    <2> QED BY <1>2, <2>2 DEF Keys, AnyLeague
<1>6. t \in Nat /\ t <= n
    <2>1. cache[k].data \in Seq(Page) /\ 1 \in DOMAIN cache[k].data /\ Loaded(k)
        BY <1>2, <1>4, <1>5 DEF Cached, Stored, Inv, QueryInv
    <2>2. cache[k].data[1] \in Page /\ Right(k, cache[k].data[1])
        BY <2>1 DEF Loaded, AllRight
    <2> QED BY <2>2 DEF Page, Right
<1>7. view.page + step \in 1..pageCount(n)
    <2>1. pageCount(t) <= pageCount(n) /\ pageCount(t) \in Nat /\ pageCount(n) \in Nat
        BY <1>3, <1>6, PagesGrow
    <2>2. view.page + step \in 1..pageCount(t)
        BY <1>1, <1>4 DEF canTurn
    <2> HIDE DEF n, t
    <2> QED BY <2>1, <2>2
<1>8. v \in AnyView /\ v.previous = view.previous /\ v.page = view.page + step /\ v.league = view.league
    <2> DEFINE p == view.page + step
    <2>1. p \in Nat
        BY <1>7
    <2> HIDE DEF p
    <2>2. v = [view EXCEPT !.page = p]
        BY DEF p
    <2>3. v \in AnyView /\ v.previous = view.previous /\ v.page = p /\ v.league = view.league
        BY <1>2, <2>1, <2>2 DEF AnyView
    <2> QED BY <2>3 DEF p
<1> HIDE DEF v
<1> QED BY <1>1, <1>2, <1>7, <1>8, ViewInv

LEMMA TurnUsersPageInv == ASSUME Inv, NEW step \in {-1, 1}, TurnUsersPage(step) PROVE Inv'
<1> DEFINE k == <<"users", view.page>>
           D == Data(k)
           v == [view EXCEPT !.page = view.page + step, !.previous = D]
           n == db.users
           t == D[1].total
<1>1. /\ route = "users" /\ D # <<>> /\ canTurn(view.page, step, t)
      /\ Show(route, v) /\ UNCHANGED <<calls, attentive>>
    BY DEF TurnUsersPage, AsyncPanel
<1>2. /\ view \in AnyView /\ \A i \in DOMAIN view.previous : view.previous[i].total <= db.users
      /\ view.page \in 1..pageCount(n) /\ Tables /\ Cached
      /\ n \in Nat /\ n <= MaxUsers /\ MaxUsers \in Nat
    BY <1>1, BrowsingAssumption DEF Inv, BaseInv, Tab, Shown, AnyView, Tables
<1>3. k \in Keys
    <2>1. pageCount(n) <= pageCount(MaxUsers) /\ pageCount(n) \in Nat /\ pageCount(MaxUsers) \in Nat
        BY <1>2, PagesGrow
    <2> HIDE DEF n
    <2>2. view.page \in 1..pageCount(MaxUsers)
        BY <1>2, <2>1
    <2> QED BY <2>2 DEF Keys
<1>4. D \in Seq(Page) /\ \A i \in DOMAIN D : D[i].total <= n
    <2>1. view.previous \in Seq(Page) /\ cache[k].data \in Seq(Page) /\ Loaded(k)
        BY <1>2, <1>3 DEF AnyView, Cached, Stored, Inv, QueryInv
    <2>2. \A i \in DOMAIN cache[k].data : cache[k].data[i].total <= n
        BY <2>1 DEF Loaded, AllRight, Right
    <2>3. D = view.previous \/ D = cache[k].data
        BY DEF Data
    <2> HIDE DEF D, k
    <2> QED BY <1>2, <2>1, <2>2, <2>3
<1> HIDE DEF D
<1>5. t \in Nat /\ t <= n
    <2>1. 1 \in DOMAIN D
        BY <1>1, <1>4
    <2>2. D[1] \in Page
        BY <1>4, <2>1
    <2> QED BY <1>4, <2>1, <2>2 DEF Page
<1>6. view.page + step \in 1..pageCount(n)
    <2>1. pageCount(t) <= pageCount(n) /\ pageCount(t) \in Nat /\ pageCount(n) \in Nat
        BY <1>2, <1>5, PagesGrow
    <2>2. view.page + step \in 1..pageCount(t)
        BY <1>1 DEF canTurn
    <2> HIDE DEF n, t
    <2> QED BY <2>1, <2>2
<1>7. v \in AnyView /\ v.previous = D /\ v.page = view.page + step
    <2> DEFINE p == view.page + step
    <2>1. p \in Nat
        BY <1>6
    <2> HIDE DEF p
    <2>2. v = [view EXCEPT !.page = p, !.previous = D]
        BY DEF p
    <2>3. v \in AnyView /\ v.previous = D /\ v.page = p
        BY <1>2, <1>4, <2>1, <2>2 DEF AnyView
    <2> QED BY <2>3 DEF p
<1> HIDE DEF v
<1> QED BY <1>1, <1>4, <1>6, <1>7, ViewInv

AnyCall == [op : {"register", "unregister"}, by : Users,
            phase : {"sent", "answered", "refetching", "done"}, ok : BOOLEAN, attached : BOOLEAN]

LEMMA CallsType ==
    ASSUME NEW c, calls \in Seq(AnyCall), c = [i \in DOMAIN calls |-> c[i]],
           \A i \in DOMAIN calls : c[i] \in AnyCall
    PROVE  c \in Seq(AnyCall) /\ DOMAIN c = DOMAIN calls
<1>1. DOMAIN calls = 1..Len(calls) /\ Len(calls) \in Nat
    OBVIOUS
<1> QED BY <1>1

LEMMA DetachedType ==
    ASSUME Tab
    PROVE  /\ Detached \in Seq(AnyCall) /\ DOMAIN Detached = DOMAIN calls
           /\ \A i \in DOMAIN calls : Detached[i].phase = calls[i].phase
<1>1. calls \in Seq(AnyCall)
    BY DEF Tab, AnyCall
<1>2. ASSUME NEW i \in DOMAIN calls PROVE Detached[i] \in AnyCall /\ Detached[i].phase = calls[i].phase
    <2>1. calls[i] \in AnyCall /\ Detached[i] = [calls[i] EXCEPT !.attached = FALSE]
        BY <1>1 DEF Detached
    <2> QED BY <2>1 DEF AnyCall
<1>3. Detached = [i \in DOMAIN calls |-> Detached[i]]
    BY DEF Detached
<1> HIDE DEF Detached
<1> QED BY <1>1, <1>2, <1>3, CallsType

LEMMA NavigateInv == ASSUME Inv, NEW r \in Pages, Navigate(r) PROVE Inv'
<1>1. Tab /\ Tables
    BY DEF Inv, BaseInv
<1>2. PICK id \in IF r = "audit" THEN scenario.matches ELSE {NoCursor} :
             Show(r, [NewView EXCEPT !.match = id])
    BY DEF Navigate
<1> DEFINE v == [NewView EXCEPT !.match = id]
<1>3. id \in MatchPool \cup {NoCursor}
    BY <1>1 DEF Tab
<1>4. v \in AnyView /\ v.page = 1 /\ v.previous = <<>> /\ v.league = AllLeagues
    BY <1>3, NewViewType
<1>5. Mount(r, v) /\ route' = r /\ view' = v /\ UNCHANGED <<db, me, scenario>>
    BY <1>2 DEF Show
<1>6. /\ calls' = Detached /\ attentive' = (attentive /\ ~Unanswered)
      /\ r \in {"profile", "tournament"} => me # Nobody
    BY DEF Navigate, ProtectedRoute
<1> HIDE DEF v
<1>7. Working
    BY <1>5, MountWorks DEF Inv
<1>8. Tables'
    BY <1>1, <1>5 DEF Tables
<1>9. Tab'
    <2>1. calls' \in Seq(AnyCall) /\ attentive' \in BOOLEAN
        BY <1>1, <1>6, DetachedType
    <2> QED BY <1>1, <1>4, <1>5, <2>1 DEF Tab, AnyView, AnyCall
<1>10. Shown'
    <2>1. 1 \in 1..pageCount(db.users) /\ 1 \in 1..pageCount(Cardinality(InLeague(AllLeagues)))
        BY <1>1, FirstPage
    <2>2. InLeague(view.league)' = InLeague(AllLeagues)
        BY <1>4, <1>5 DEF InLeague
    <2>3. view'.page = 1 /\ view'.previous = <<>> /\ db'.users = db.users /\ me' = me /\ route' = r
        BY <1>4, <1>5
    <2> QED BY <1>6, <2>1, <2>2, <2>3 DEF Shown
<1>11. attentive' => attentive /\ ~Changed /\ ~Unanswered'
    <2>1. attentive' => attentive /\ ~Unanswered
        BY <1>6
    <2>2. Unanswered' => Unanswered
        BY <1>1, <1>6, DetachedType DEF Unanswered
    <2>3. Changed => Unanswered
        BY DEF Changed, Unanswered
    <2> QED BY <2>1, <2>2, <2>3
<1> QED BY <1>7, <1>8, <1>9, <1>10, <1>11, WorkingInv

-----------------------------------------------------------------------------
(* The steps of the registration. *)

LEMMA RestWorks ==
    ASSUME BaseInv, UNCHANGED <<me, db, cache, flight>>
    PROVE  Working
<1>1. Cached
    BY DEF BaseInv
<1>2. \A k \in Keys : Moves(k)
    BY <1>1 DEF Cached, Moves, Rests, Kept
<1>3. cache' = [k \in Keys |-> cache'[k]] /\ flight' = [k \in Keys |-> flight'[k]]
    BY <1>1 DEF Cached
<1> QED BY <1>2, <1>3 DEF Working

\* The same page, other calls.
LEMMA PageKept ==
    ASSUME BaseInv, UNCHANGED <<me, route, view>>, calls' \in Seq(AnyCall), attentive' \in BOOLEAN,
           \E n \in Nat : scenario' = [scenario EXCEPT !.faults = n]
    PROVE  /\ Tab' /\ scenario'.queries = scenario.queries
           /\ db' = db => Tables' /\ Shown'
<1>1. PICK n \in Nat : scenario' = [scenario EXCEPT !.faults = n]
    OBVIOUS
<1>2. /\ scenario'.queries = scenario.queries /\ scenario'.users = scenario.users
      /\ scenario' \in [queries : SUBSET Queries, user : Users \cup {Nobody},
                        signIns : SUBSET Users, matches : SUBSET MatchPool,
                        users : 1..MaxUsers, clicks : Nat, faults : Nat]
    BY <1>1 DEF BaseInv, Tab
<1>3. db' = db => Tables'
    BY <1>2 DEF BaseInv, Tables
<1>4. Tab'
    BY <1>2 DEF BaseInv, Tab, AnyCall
<1>5. db' = db => Shown'
    BY DEF BaseInv, Shown, InLeague
<1> QED BY <1>2, <1>3, <1>4, <1>5

LEMMA ClickInv == ASSUME Inv, NEW op \in {"register", "unregister"}, Click(op) PROVE Inv'
<1> DEFINE c == [op |-> op, by |-> me, phase |-> "sent", ok |-> FALSE, attached |-> TRUE]
           k == <<"tournament">>
<1>1. /\ route = "tournament" /\ AsyncPanel(k) /\ calls' = Append(calls, c)
      /\ UNCHANGED <<db, me, route, view, cache, flight, scenario, attentive>>
    BY DEF Click
<1>2. BaseInv /\ Tab /\ calls \in Seq(AnyCall)
    BY DEF Inv, BaseInv, Tab, AnyCall
<1>3. c \in AnyCall
    <2>1. me \in Users
        BY <1>1, <1>2 DEF Inv, BaseInv, Shown, Tab
    <2> QED BY <2>1 DEF AnyCall
<1>4. calls' \in Seq(AnyCall)
    BY <1>1, <1>2, <1>3
<1>5. Tables' /\ Tab' /\ Shown'
    BY <1>1, <1>2, <1>4, PageKept, UnchangedScenario DEF Tab
<1>6. Working
    BY <1>1, <1>2, RestWorks
<1>7. Loading'
    BY <1>6, WorkingKeeps DEF Inv
<1>8. cache[k].data # <<>> /\ "tournament" \in scenario.queries
    BY <1>1 DEF AsyncPanel, Data, Mounted, Queried
<1>9. Changed => Changed'
    <2>1. \A i \in DOMAIN calls : i \in DOMAIN calls' /\ calls'[i] = calls[i]
        BY <1>1, <1>2, <1>3
    <2> QED BY <2>1 DEF Changed
<1>10. Registration'
    BY <1>1, <1>8, <1>9 DEF Inv, Registration, Told, Agrees
<1> QED BY <1>5, <1>7, <1>10 DEF Inv, BaseInv, Loading

\* One call gets another phase.
LEMMA OneCall ==
    ASSUME Tab, NEW i \in DOMAIN calls, NEW c \in AnyCall, NEW cs, cs = [calls EXCEPT ![i] = c]
    PROVE  /\ cs \in Seq(AnyCall) /\ DOMAIN cs = DOMAIN calls /\ cs[i] = c
           /\ \A j \in DOMAIN calls : j # i => cs[j] = calls[j]
           /\ calls[i] \in AnyCall
<1>1. calls \in Seq(AnyCall)
    BY DEF Tab, AnyCall
<1>2. calls[i] \in AnyCall /\ DOMAIN cs = DOMAIN calls /\ cs[i] = c
    BY <1>1
<1>3. \A j \in DOMAIN calls : j # i => cs[j] = calls[j] /\ calls[j] \in AnyCall
    BY <1>1
<1>4. cs \in Seq(AnyCall)
    BY <1>1
<1> QED BY <1>2, <1>3, <1>4

\* Elsewhere the tables grow; what is shown is of a list that is no shorter.
LEMMA ElsewhereInv ==
    ASSUME Inv, Elsewhere, UNCHANGED <<route, view>>, Tables', Tab', Registration'
    PROVE  Inv'
<1>1. Loading'
    BY ElsewhereKeeps DEF Inv
<1> DEFINE n == Cardinality(InLeague(view.league))
           n1 == Cardinality(InLeague(view.league)')
<1>2. n <= n1 /\ n \in Nat /\ n1 \in Nat
    <2>1. InLeague(view.league)' = {s \in db'.standings : view.league \in {AllLeagues, s[2]}}
        BY DEF InLeague
    <2>2. InLeague(view.league) \subseteq InLeague(view.league)'
        BY <2>1 DEF InLeague, Elsewhere
    <2>3. IsFiniteSet(InLeague(view.league)')
        <3>1. InLeague(view.league)' \subseteq StandingPool
            BY <2>1 DEF Tables
        <3> QED BY <3>1, BrowsingAssumption, FS_Subset
    <2> QED BY <2>2, <2>3, FS_Subset, FS_CardinalityType
<1>3. db.users <= db'.users /\ db.users \in Nat /\ db'.users \in Nat
    BY DEF Elsewhere, Inv, BaseInv, Tables
<1>4. /\ pageCount(n) <= pageCount(n1) /\ pageCount(db.users) <= pageCount(db'.users)
      /\ pageCount(n) \in Nat /\ pageCount(n1) \in Nat
      /\ pageCount(db.users) \in Nat /\ pageCount(db'.users) \in Nat
    BY <1>2, <1>3, PagesGrow
<1>5. /\ route \in {"profile", "tournament"} => me # Nobody
      /\ route = "users" => view.page \in 1..pageCount(db.users)
      /\ route = "standings" => view.page \in 1..pageCount(n)
      /\ \A i \in DOMAIN view.previous : view.previous[i].total <= db.users
    BY DEF Inv, BaseInv, Shown
<1>6. \A i \in DOMAIN view.previous : view.previous[i].total \in Nat
    <2>1. view.previous \in Seq(Page)
        BY DEF Inv, BaseInv, Tab
    <2>2. \A i \in DOMAIN view.previous : view.previous[i] \in Page
        BY <2>1
    <2> QED BY <2>2 DEF Page
<1> HIDE DEF n
<1>7. /\ route = "users" => view.page \in 1..pageCount(db'.users)
      /\ route = "standings" => view.page \in 1..pageCount(n1)
      /\ \A i \in DOMAIN view.previous : view.previous[i].total <= db'.users
    <2> HIDE DEF n1
    <2> QED BY <1>3, <1>4, <1>5, <1>6
<1>8. Shown'
    BY <1>5, <1>7 DEF Shown, Elsewhere
<1> QED BY <1>1, <1>8 DEF Inv, BaseInv, Loading

\* A call that changes the table is answered later, and what is shown is fetched then.
LEMMA CallServedInv == ASSUME Inv, NEW i \in DOMAIN calls, CallServed(i) PROVE Inv'
<1> DEFINE ok == Accepted(calls[i].op, calls[i].by)
           c == [calls[i] EXCEPT !.phase = "answered", !.ok = ok]
           e == Registrations(calls[i].op, calls[i].by)
<1>1. BaseInv /\ Tab /\ Tables /\ calls \in Seq(AnyCall) /\ calls[i] \in AnyCall
    <2>1. BaseInv /\ Tab /\ Tables /\ calls \in Seq(AnyCall)
        BY DEF Inv, BaseInv, Tab, AnyCall
    <2> QED BY <2>1
<1>2. ok \in BOOLEAN
    BY DEF Accepted
<1>3. /\ calls[i].phase = "sent"
      /\ calls' = [calls EXCEPT ![i].phase = "answered", ![i].ok = ok]
      /\ db' = [db EXCEPT !.entrants = IF ok THEN e ELSE @]
      /\ UNCHANGED <<me, route, view, cache, flight, scenario, attentive>>
    BY DEF CallServed
<1> HIDE DEF ok, e
<1>4. calls' = [calls EXCEPT ![i] = c]
    BY <1>1, <1>3
<1>5. c \in AnyCall /\ c.phase = "answered" /\ c.ok = ok
    BY <1>1, <1>2 DEF AnyCall
<1> HIDE DEF c
<1>6. /\ calls' \in Seq(AnyCall) /\ DOMAIN calls' = DOMAIN calls /\ calls'[i] = c
      /\ \A j \in DOMAIN calls : j # i => calls'[j] = calls[j]
    BY <1>1, <1>4, <1>5, OneCall
<1>7. Tab' /\ scenario'.queries = scenario.queries
    BY <1>1, <1>3, <1>6, PageKept, UnchangedScenario DEF Tab
<1>8. /\ db'.users = db.users /\ db'.standings = db.standings /\ db'.matches = db.matches
      /\ db'.entrants = IF ok THEN e ELSE db.entrants
      /\ db' \in [matches : [Users -> SUBSET MatchPool], users : Nat, season : {"active", "closed"},
                  standings : {{}, StandingPool}, open : BOOLEAN, entrants : {IF ok THEN e ELSE db.entrants}]
    <2> DEFINE x == IF ok THEN e ELSE db.entrants
    <2>1. db' = [db EXCEPT !.entrants = x]
        BY <1>1, <1>3 DEF Tables
    <2> HIDE DEF x
    <2>2. /\ db'.users = db.users /\ db'.standings = db.standings /\ db'.matches = db.matches
          /\ db'.entrants = x
          /\ db' \in [matches : [Users -> SUBSET MatchPool], users : Nat, season : {"active", "closed"},
                  standings : {{}, StandingPool}, open : BOOLEAN, entrants : {x}]
        BY <1>1, <2>1 DEF Tables
    <2> QED BY <2>2 DEF x
<1>9. e \in SUBSET Users /\ IsFiniteSet(e)
    <2>1. calls[i].by \in Users /\ db.entrants \in SUBSET Users /\ IsFiniteSet(db.entrants)
        BY <1>1 DEF AnyCall, Tables
    <2>2. IsFiniteSet(db.entrants \cup {calls[i].by}) /\ IsFiniteSet(db.entrants \ {calls[i].by})
        BY <2>1, FS_AddElement, FS_RemoveElement
    <2> QED BY <2>1, <2>2 DEF e, Registrations
<1>10. Tables'
    <2>1. db'.entrants \in SUBSET Users /\ IsFiniteSet(db'.entrants)
        BY <1>1, <1>8, <1>9 DEF Tables
    <2>2. /\ \A u \in Users : IsFiniteSet(db'.matches[u])
          /\ db'.users \in 1..scenario'.users
        BY <1>1, <1>3, <1>8 DEF Tables
    <2>3. db' \in [matches : [Users -> SUBSET MatchPool], users : Nat, season : {"active", "closed"},
                   standings : {{}, StandingPool}, open : BOOLEAN, entrants : SUBSET Users]
        BY <1>8, <2>1
    <2> QED BY <2>1, <2>2, <2>3 DEF Tables
<1>11. Elsewhere
    BY <1>1, <1>3, <1>8 DEF Elsewhere, Tables
<1>12. ASSUME attentive' PROVE Told'
    <2>1. Told
        BY <1>3, <1>12 DEF Inv, Registration
    <2>2. CASE ok
        <3>1. Changed'
            BY <1>5, <1>6, <2>2 DEF Changed
        <3> QED BY <3>1 DEF Told
    <2>3. CASE ~ok
        <3>1. Changed => Changed'
            BY <1>3, <1>6 DEF Changed
        <3>2. db'.entrants = db.entrants
            BY <1>8, <2>3
        <3> QED BY <1>3, <2>1, <3>1, <3>2 DEF Told, Agrees
    <2> QED BY <2>2, <2>3
<1>13. Unanswered
    BY <1>3 DEF Unanswered
<1>14. Registration'
    BY <1>3, <1>12, <1>13 DEF Inv, Registration
<1> QED BY <1>3, <1>7, <1>10, <1>11, <1>14, ElsewhereInv

\* A call ends without a change that is not known yet.
LEMMA CallDoneInv ==
    ASSUME Inv, NEW i \in DOMAIN calls, calls[i].phase # "done",
           calls' = [calls EXCEPT ![i].phase = "done"],
           UNCHANGED <<db, me, route, view, cache, flight>>,
           \E n \in Nat : scenario' = [scenario EXCEPT !.faults = n],
           attentive' \in BOOLEAN,
           attentive' => attentive /\ ~(calls[i].phase = "answered" /\ calls[i].ok)
    PROVE  Inv'
<1> DEFINE c == [calls[i] EXCEPT !.phase = "done"]
<1>1. BaseInv /\ Tab /\ calls \in Seq(AnyCall)
    BY DEF Inv, BaseInv, Tab, AnyCall
<1>2. calls[i] \in AnyCall
    BY <1>1
<1>3. c \in AnyCall /\ c.phase = "done" /\ calls' = [calls EXCEPT ![i] = c]
    BY <1>1, <1>2 DEF AnyCall
<1> HIDE DEF c
<1>4. /\ calls' \in Seq(AnyCall) /\ DOMAIN calls' = DOMAIN calls /\ calls'[i] = c
      /\ \A j \in DOMAIN calls : j # i => calls'[j] = calls[j]
    BY <1>1, <1>3, OneCall
<1>5. Tab' /\ Tables' /\ Shown' /\ scenario'.queries = scenario.queries
    BY <1>1, <1>4, PageKept
<1>6. Working
    BY <1>1, RestWorks
<1>7. attentive' => (Changed => Changed')
    BY <1>4 DEF Changed
<1>8. Unanswered
    BY DEF Unanswered
<1> QED BY <1>5, <1>6, <1>7, <1>8, WorkingInv

LEMMA CallSettlesInv == ASSUME Inv, NEW i \in DOMAIN calls, CallSettles(i) PROVE Inv'
<1>1. Tab /\ attentive \in BOOLEAN
    BY DEF Inv, BaseInv, Tab
<1>2. /\ calls[i].phase = "refetching" /\ calls' = [calls EXCEPT ![i].phase = "done"]
      /\ UNCHANGED <<db, me, route, view, cache, flight, scenario, attentive>>
    BY DEF CallSettles
<1> QED BY <1>1, <1>2, CallDoneInv, UnchangedScenario

LEMMA CallLostInv == ASSUME Inv, NEW i \in DOMAIN calls, CallLost(i) PROVE Inv'
<1>1. \E n \in Nat : scenario' = [scenario EXCEPT !.faults = n]
    <2>1. scenario.faults \in Nat /\ scenario.faults > 0
        BY DEF CallLost, Inv, BaseInv, Tab
    <2>2. scenario.faults - 1 \in Nat /\ scenario' = [scenario EXCEPT !.faults = scenario.faults - 1]
        BY <2>1 DEF CallLost
    <2> QED BY <2>2
<1>2. /\ calls[i].phase # "done" /\ calls' = [calls EXCEPT ![i].phase = "done"] /\ attentive' = FALSE
      /\ UNCHANGED <<db, me, route, view, cache, flight>>
    BY DEF CallLost
<1> QED BY <1>1, <1>2, CallDoneInv

LEMMA CallAnsweredInv == ASSUME Inv, NEW i \in DOMAIN calls, CallAnswered(i) PROVE Inv'
<1>1. BaseInv /\ Tab /\ Cached /\ attentive \in BOOLEAN /\ calls \in Seq(AnyCall)
    BY DEF Inv, BaseInv, Tab, AnyCall
<1>2. calls[i].phase = "answered" /\ UNCHANGED <<db, me, route, view, scenario, attentive>>
    BY DEF CallAnswered
<1>3. CASE ~calls[i].ok
    <2>1. calls' = [calls EXCEPT ![i].phase = "done"] /\ UNCHANGED <<cache, flight>>
        BY <1>3 DEF CallAnswered
    <2> QED BY <1>1, <1>2, <1>3, <2>1, CallDoneInv, UnchangedScenario
<1>4. CASE calls[i].ok
    <2> DEFINE K == {k \in Mounted : invalidated(k) /\ (cache[k].data # <<>> \/ flight[k] = NoFetch)}
               c == [k \in Keys |-> IF invalidated(k) THEN [cache[k] EXCEPT !.stale = TRUE] ELSE cache[k]]
               t == <<"tournament">>
    <2>1. /\ Fetch(K, c)
          /\ calls' = [j \in DOMAIN calls |->
                         IF j = i THEN [calls[j] EXCEPT !.phase = "refetching"]
                         ELSE IF calls[j].phase = "refetching" THEN [calls[j] EXCEPT !.phase = "done"]
                         ELSE calls[j]]
        BY <1>4 DEF CallAnswered
    <2>2. \A k \in Keys : c[k] \in Stored /\ c[k].data = cache[k].data /\ c[k].error = cache[k].error
        BY <1>1 DEF Cached, Stored
    <2>3. \A k \in K : k[1] = "history" => k[2] = me
        BY DEF invalidated
    <2>4. t \in Keys /\ invalidated(t)
        BY DEF Keys, invalidated
    <2>5. /\ Working
          /\ t \in K => flight'[t] = Reloading(t) /\ cache'[t].data = cache[t].data
        <3> HIDE DEF K, c, t
        <3> QED BY <1>1, <1>2, <2>1, <2>2, <2>3, <2>4, FetchWorks
    <2>6. calls' \in Seq(AnyCall)
        <3>1. ASSUME NEW j \in DOMAIN calls PROVE calls'[j] \in AnyCall
            <4>1. calls[j] \in AnyCall
                BY <1>1
            <4>2. \/ calls'[j] = [calls[j] EXCEPT !.phase = "refetching"]
                  \/ calls'[j] = [calls[j] EXCEPT !.phase = "done"]
                  \/ calls'[j] = calls[j]
                BY <2>1
            <4> QED BY <4>1, <4>2 DEF AnyCall
        <3>2. calls' = [j \in DOMAIN calls |-> calls'[j]]
            BY <2>1
        <3> QED BY <1>1, <3>1, <3>2, CallsType
    <2>7. Tab' /\ Tables' /\ Shown'
        BY <1>1, <1>2, <2>6, PageKept, UnchangedScenario
    <2>8. Loading'
        BY <2>5, WorkingKeeps DEF Inv
    <2>9. Unanswered
        BY <1>2 DEF Unanswered
    <2>10. ASSUME attentive
           PROVE  /\ route = "tournament" /\ "tournament" \in scenario.queries
                  /\ cache'[t].data # <<>> /\ Told'
        <3>1. route = "tournament" /\ "tournament" \in scenario.queries /\ cache[t].data # <<>>
            BY <2>9, <2>10 DEF Inv, Registration
        <3>2. t \in Mounted
            BY <3>1 DEF Mounted, Queried, useTournament
        <3>3. t \in K
            BY <2>4, <3>1, <3>2
        <3>4. /\ flight'[t].phase = "sent" /\ flight'[t].answer = NoPage
              /\ cache'[t].data = cache[t].data
            BY <1>1, <2>4, <2>5, <3>3, Fetches
        <3>5. flight'[t] # NoFetch /\ flight'[t].answer.code # 200
            BY <3>4, NoFetchType, NoPageType
        <3> QED BY <3>1, <3>4, <3>5 DEF Told
    <2>11. Registration'
        BY <1>2, <2>10 DEF Registration
    <2> QED BY <2>7, <2>8, <2>11 DEF Inv, BaseInv, Loading
<1> QED BY <1>3, <1>4

-----------------------------------------------------------------------------
(* The steps of the session, and elsewhere. *)

LEMMA SessionInv ==
    ASSUME Inv, NEW u \in Users \cup {Nobody}, me' = u, clearUserQueries,
           route' \in {"login", "lobby"}, view' = NewView, UNCHANGED <<db, scenario>>,
           calls' \in Seq(AnyCall), attentive' \in BOOLEAN, attentive' => ~Unanswered'
    PROVE  Inv'
<1>1. Tab /\ Tables
    BY DEF Inv, BaseInv
<1>2. Loading'
    BY ClearedKeeps
<1>3. NewView \in AnyView /\ NewView.previous = <<>>
    BY DEF NewView, AnyView, AnyLeague
<1>4. Tab'
    BY <1>1, <1>3 DEF Tab, AnyView, AnyCall, Pages
<1>5. Tables'
    BY <1>1 DEF Tables
<1>6. Shown'
    <2>1. view'.previous = <<>>
        BY <1>3
    <2> QED BY <2>1 DEF Shown
<1>7. Registration'
    <2>1. <<"tournament">> \in Keys
        BY DEF Keys
    <2>2. cache'[<<"tournament">>] = NoQuery /\ flight'[<<"tournament">>] = NoFetch
        BY <2>1 DEF clearUserQueries
    <2> QED BY <2>2, NoQueryType, NoFetchType, NoPageType DEF Registration, Told
<1> QED BY <1>2, <1>4, <1>5, <1>6, <1>7 DEF Inv, BaseInv, Loading

LEMMA SignOutInv == ASSUME Inv, SignOut PROVE Inv'
<1>1. /\ me' = Nobody /\ clearUserQueries /\ route' = "login" /\ view' = NewView
      /\ calls' = Detached /\ attentive' = (attentive /\ ~Unanswered) /\ UNCHANGED <<db, scenario>>
    BY DEF SignOut
<1>2. Tab
    BY DEF Inv, BaseInv
<1>3. calls' \in Seq(AnyCall)
    BY <1>1, <1>2, DetachedType
<1>4. Unanswered' => Unanswered
    BY <1>1, <1>2, DetachedType DEF Unanswered
<1>5. attentive' \in BOOLEAN /\ (attentive' => ~Unanswered')
    BY <1>1, <1>4
<1> QED BY <1>1, <1>3, <1>5, SessionInv

LEMMA SignInInv == ASSUME Inv, NEW u \in Users, SignIn(u) PROVE Inv'
<1>1. /\ me' = u /\ clearUserQueries /\ route' = "lobby" /\ view' = NewView /\ me = Nobody
      /\ UNCHANGED <<db, calls, scenario, attentive>>
    BY DEF SignIn
<1>2. calls' \in Seq(AnyCall) /\ attentive' \in BOOLEAN
    BY <1>1 DEF Inv, BaseInv, Tab, AnyCall
<1>3. route # "tournament"
    BY <1>1 DEF Inv, BaseInv, Shown
<1>4. attentive => ~Unanswered
    BY <1>3 DEF Inv, Registration
<1>5. attentive' => ~Unanswered'
    BY <1>1, <1>4 DEF Unanswered
<1> QED BY <1>1, <1>2, <1>5, SessionInv

LEMMA ChangesInv ==
    ASSUME Inv, UNCHANGED clientVars, Tables', Elsewhere,
           me \in db'.entrants <=> me \in db.entrants
    PROVE  Inv'
<1>1. UNCHANGED <<me, route, view, cache, flight, calls, scenario, attentive>>
    BY DEF clientVars
<1>2. Tab'
    BY <1>1 DEF Inv, BaseInv, Tab
<1>3. Registration'
    BY <1>1 DEF Inv, Registration, Told, Agrees, Changed, Unanswered
<1> QED BY <1>1, <1>2, <1>3, ElsewhereInv

AnyTables == [matches : [Users -> SUBSET MatchPool], users : Nat, season : {"active", "closed"},
              standings : {{}, StandingPool}, open : BOOLEAN, entrants : SUBSET Users]

LEMMA TablesInv ==
    ASSUME Inv, NEW new \in AnyTables, Changes(new),
           \A u \in Users : db.matches[u] \subseteq new.matches[u] /\ IsFiniteSet(new.matches[u]),
           new.users \in 1..scenario.users, new.users >= db.users, db.standings \subseteq new.standings,
           IsFiniteSet(new.entrants), me \in new.entrants <=> me \in db.entrants
    PROVE  Inv'
<1>1. db' = new /\ UNCHANGED clientVars
    BY DEF Changes
<1>2. Tables'
    BY <1>1 DEF Tables, AnyTables, clientVars
<1>3. Elsewhere
    BY <1>1 DEF Elsewhere, clientVars
<1> QED BY <1>1, <1>2, <1>3, ChangesInv

LEMMA TablesNow ==
    ASSUME Inv
    PROVE  /\ db \in AnyTables /\ \A u \in Users : IsFiniteSet(db.matches[u])
           /\ IsFiniteSet(db.entrants) /\ db.users \in 1..scenario.users
           /\ scenario.users \in Nat
BY DEF Inv, BaseInv, Tables, Tab, AnyTables

LEMMA PersistMatchInv ==
    ASSUME Inv, NEW u \in Users, NEW m \in MatchPool, PersistMatch(u, m)
    PROVE  Inv'
<1> DEFINE ms == [db.matches EXCEPT ![u] = db.matches[u] \cup {m}]
           new == [db EXCEPT !.matches = ms]
<1>1. Changes([db EXCEPT !.matches[u] = @ \cup {m}])
    BY DEF PersistMatch
<1>2. [db EXCEPT !.matches[u] = @ \cup {m}] = new
    BY TablesNow DEF AnyTables
<1>3. db.matches \in [Users -> SUBSET MatchPool] /\ \A w \in Users : IsFiniteSet(db.matches[w])
    BY TablesNow DEF AnyTables
<1>4. ms \in [Users -> SUBSET MatchPool]
    BY <1>3
<1>5. ASSUME NEW w \in Users PROVE db.matches[w] \subseteq ms[w] /\ IsFiniteSet(ms[w])
    <2>1. ms[w] = IF w = u THEN db.matches[u] \cup {m} ELSE db.matches[w]
        BY <1>3
    <2>2. IsFiniteSet(db.matches[u] \cup {m})
        BY <1>3, FS_AddElement
    <2> QED BY <1>3, <2>1, <2>2
<1> HIDE DEF ms
<1>6. /\ new \in AnyTables /\ new.matches = ms /\ new.users = db.users
      /\ new.standings = db.standings /\ new.entrants = db.entrants
    BY <1>4, TablesNow DEF AnyTables
<1>7. Changes(new)
    BY <1>1, <1>2
<1> HIDE DEF new
<1>8. new.users >= db.users
    BY <1>6, TablesNow
<1> QED BY <1>5, <1>6, <1>7, <1>8, TablesNow, TablesInv

LEMMA NewUserInv == ASSUME Inv, NewUser PROVE Inv'
<1> DEFINE n == db.users + 1
           new == [db EXCEPT !.users = n]
<1>1. Changes(new) /\ db.users < scenario.users
    BY TablesNow DEF NewUser, AnyTables
<1>2. n \in Nat /\ n \in 1..scenario.users /\ n >= db.users
    BY <1>1, TablesNow
<1> HIDE DEF n
<1>3. /\ new \in AnyTables /\ new.matches = db.matches /\ new.users = n
      /\ new.standings = db.standings /\ new.entrants = db.entrants
    BY <1>2, TablesNow DEF AnyTables
<1> HIDE DEF new
<1> QED BY <1>1, <1>2, <1>3, TablesNow, TablesInv

LEMMA SeasonEndsInv == ASSUME Inv, CloseSeason \/ ArchiveSeason \/ StartTournament PROVE Inv'
<1> DEFINE closed == [db EXCEPT !.season = "closed"]
           archived == [db EXCEPT !.standings = StandingPool]
           started == [db EXCEPT !.open = FALSE]
<1>1. db.users >= db.users
    BY TablesNow
<1>2. CASE CloseSeason
    <2>1. Changes(closed)
        BY <1>2 DEF CloseSeason
    <2>2. /\ closed \in AnyTables /\ closed.matches = db.matches /\ closed.users = db.users
          /\ closed.standings = db.standings /\ closed.entrants = db.entrants
        BY TablesNow DEF AnyTables
    <2> HIDE DEF closed
    <2> QED BY <1>1, <2>1, <2>2, TablesNow, TablesInv
<1>3. CASE ArchiveSeason
    <2>1. Changes(archived) /\ db.standings = {}
        BY <1>3 DEF ArchiveSeason
    <2>2. /\ archived \in AnyTables /\ archived.matches = db.matches /\ archived.users = db.users
          /\ archived.entrants = db.entrants
        BY TablesNow DEF AnyTables
    <2> HIDE DEF archived
    <2> QED BY <1>1, <2>1, <2>2, TablesNow, TablesInv
<1>4. CASE StartTournament
    <2>1. Changes(started)
        BY <1>4 DEF StartTournament
    <2>2. /\ started \in AnyTables /\ started.matches = db.matches /\ started.users = db.users
          /\ started.standings = db.standings /\ started.entrants = db.entrants
        BY TablesNow DEF AnyTables
    <2> HIDE DEF started
    <2> QED BY <1>1, <2>1, <2>2, TablesNow, TablesInv
<1> QED BY <1>2, <1>3, <1>4

LEMMA OtherRegistrationInv == ASSUME Inv, NEW u \in Users, OtherRegistration(u) PROVE Inv'
<1>1. PICK op \in {"register", "unregister"} : Changes([db EXCEPT !.entrants = Registrations(op, u)])
    BY DEF OtherRegistration
<1> DEFINE e == Registrations(op, u)
           new == [db EXCEPT !.entrants = e]
<1>2. u # me
    BY DEF OtherRegistration
<1>3. e \in SUBSET Users /\ IsFiniteSet(e) /\ (me \in e <=> me \in db.entrants)
    <2>1. db.entrants \in SUBSET Users /\ IsFiniteSet(db.entrants)
        BY TablesNow DEF AnyTables
    <2>2. IsFiniteSet(db.entrants \cup {u}) /\ IsFiniteSet(db.entrants \ {u})
        BY <2>1, FS_AddElement, FS_RemoveElement
    <2> QED BY <1>2, <2>1, <2>2 DEF Registrations
<1>4. Changes(new)
    BY <1>1
<1> HIDE DEF e
<1>5. /\ new \in AnyTables /\ new.matches = db.matches /\ new.users = db.users
      /\ new.standings = db.standings /\ new.entrants = e
    BY <1>3, TablesNow DEF AnyTables
<1> HIDE DEF new
<1>6. new.users >= db.users
    BY <1>5, TablesNow
<1> QED BY <1>3, <1>4, <1>5, <1>6, TablesNow, TablesInv

-----------------------------------------------------------------------------
(* The theorems. *)

LEMMA InitInv == Init => Inv
<1> SUFFICES ASSUME Init PROVE Inv
    OBVIOUS
<1>1. /\ scenario \in Scenarios /\ me = scenario.user /\ route = "lobby" /\ view = NewView
      /\ cache = [k \in Keys |-> NoQuery] /\ flight = [k \in Keys |-> NoFetch]
      /\ calls = <<>> /\ attentive = TRUE
      /\ db = [matches |-> [u \in Users |-> {}], users |-> 1, season |-> "active",
               standings |-> {}, open |-> TRUE, entrants |-> {}]
    BY DEF Init
<1>2. scenario \in [queries : SUBSET Queries, user : Users \cup {Nobody},
                    signIns : SUBSET Users, matches : SUBSET MatchPool,
                    users : 1..MaxUsers, clicks : Nat, faults : Nat]
    BY <1>1, BrowsingScenarios
<1>3. Loading
    BY <1>1, EmptyCache
<1>4. NewView \in AnyView /\ NewView.previous = <<>>
    BY DEF NewView, AnyView, AnyLeague
<1>5. Tab
    BY <1>1, <1>2, <1>4 DEF Tab, AnyView, Pages
<1>6. Tables
    <2>1. scenario.users \in 1..MaxUsers /\ MaxUsers \in Nat
        BY <1>2, BrowsingAssumption
    <2>2. db \in AnyTables /\ db.users = 1 /\ db.entrants = {} /\ \A u \in Users : db.matches[u] = {}
        BY <1>1 DEF AnyTables
    <2> QED BY <2>1, <2>2, FS_EmptySet DEF Tables, AnyTables
<1>7. Shown
    BY <1>1, <1>4 DEF Shown
<1>8. Registration
    <2>1. <<"tournament">> \in Keys
        BY DEF Keys
    <2> QED BY <1>1, <2>1, NoQueryType, NoFetchType, NoPageType DEF Registration, Told, Unanswered
<1> QED BY <1>3, <1>5, <1>6, <1>7, <1>8 DEF Inv, BaseInv, Loading

LEMMA NextInv == Inv /\ [Next]_vars => Inv'
<1> SUFFICES ASSUME Inv, [Next]_vars PROVE Inv'
    OBVIOUS
<1>1. CASE UNCHANGED vars
    <2>1. UNCHANGED <<db, me, route, view, cache, flight, calls, scenario, attentive>>
        BY <1>1 DEF vars, clientVars
    <2>2. Working
        BY <2>1, RestWorks DEF Inv
    <2>3. Quiet
        BY <2>1, UnchangedScenario DEF Quiet, Inv, BaseInv
    <2> QED BY <2>2, <2>3, QuietInv
<1>2. CASE \E r \in Pages : Navigate(r)
    BY <1>2, NavigateInv
<1>3. CASE \E tab \in {"overview", "history"} : SelectTab(tab)
    BY <1>3, SelectTabInv
<1>4. CASE \E step \in {-1, 1} : TurnUsersPage(step) \/ TurnStandingsPage(step)
    BY <1>4, TurnUsersPageInv, TurnStandingsPageInv
<1>5. CASE \E league \in Leagues \cup {AllLeagues} : ChooseLeague(league)
    BY <1>5, ChooseLeagueInv DEF AnyLeague
<1>6. CASE LoadMore \/ Focus \/ RefetchInterval \/ HeaderRenders
    BY <1>6, LoadMoreInv, FocusInv, SeasonInv
<1>7. CASE \E k \in Keys : \/ StaleTime(k) \/ Read(k) \/ ReadTotal(k) \/ RequestFails(k)
                           \/ Arrive(k) \/ Retry(k)
    BY <1>7, StaleTimeInv, ReadInv, ReadTotalInv, RequestFailsInv, ArriveInv, RetryInv
<1>8. CASE \E op \in {"register", "unregister"} : Click(op)
    BY <1>8, ClickInv
<1>9. CASE \E i \in DOMAIN calls : CallServed(i) \/ CallAnswered(i) \/ CallSettles(i) \/ CallLost(i)
    BY <1>9, CallServedInv, CallAnsweredInv, CallSettlesInv, CallLostInv
<1>10. CASE SignOut \/ \E u \in Users : SignIn(u) \/ OtherRegistration(u)
    BY <1>10, SignOutInv, SignInInv, OtherRegistrationInv
<1>11. CASE \E u \in Users, m \in MatchPool : PersistMatch(u, m)
    BY <1>11, PersistMatchInv
<1>12. CASE NewUser \/ CloseSeason \/ ArchiveSeason \/ StartTournament
    BY <1>12, NewUserInv, SeasonEndsInv
<1> QED BY <1>1, <1>2, <1>3, <1>4, <1>5, <1>6, <1>7, <1>8, <1>9, <1>10, <1>11, <1>12 DEF Next

\* The invariant from which the theorems follow, with the types of all that is kept.
THEOREM BrowsingInvariant == Spec => []Inv
BY InitInv, NextInv, PTL DEF Spec

\* Whatever the tables grow to while the lists are read, and however the pages are turned,
\* a list is never shown past its end.
THEOREM ListsHaveTheirPage == Spec => []NeverPastTheEnd
<1>1. Inv => NeverPastTheEnd
    <2> SUFFICES ASSUME Inv PROVE NeverPastTheEnd
        OBVIOUS
    <2>1. /\ route = "users" => view.page \in 1..pageCount(db.users)
          /\ route = "standings" => view.page \in 1..pageCount(Cardinality(InLeague(view.league)))
        BY DEF Inv, BaseInv, Shown
    <2>2. db.users \in Nat /\ Cardinality(InLeague(view.league)) \in Nat
        BY StandingsAreFinite DEF Inv, BaseInv, Tables
    <2>3. pageCount(db.users) \in Nat /\ pageCount(Cardinality(InLeague(view.league))) \in Nat
        BY <2>2, PagesGrow
    <2> HIDE DEF pageCount
    <2> QED BY <2>1, <2>3 DEF NeverPastTheEnd
<1> QED BY <1>1, BrowsingInvariant, PTL

\* The history that is shown is in order, without repetition and without a gap in what there
\* was when its first page was read, for every page size and any matches persisted meanwhile.
THEOREM HistoryIsComplete == Spec => []HistoryComplete
<1>1. Inv => HistoryComplete
    <2> SUFFICES ASSUME Inv, me # Nobody, cache[<<"history", me>>].data # <<>>
                 PROVE  LET data == cache[<<"history", me>>].data
                            shown == UNION {data[i].rows : i \in DOMAIN data}
                        IN /\ \A i, j \in DOMAIN data : i < j =>
                                \A m \in data[i].rows, n \in data[j].rows : Before(m, n)
                           /\ \A m \in data[1].asOf \ shown :
                                NextCursor(data) # NoCursor /\ Before(Last(shown), m)
        BY DEF HistoryComplete
    <2> DEFINE data == cache[<<"history", me>>].data
               cursor == NextCursor(data)
    <2>1. me \in Users
        BY DEF Inv, BaseInv, Tab
    <2>2. Chain(me, data)
        BY <2>1 DEF Inv, HistoryInv, History
    <2>3. /\ RowsOf(data) \subseteq MatchPool /\ MatchPool \subseteq Instant
          /\ \A i, j \in DOMAIN data : i < j =>
                \A m \in data[i].rows, n \in data[j].rows : Before(m, n)
          /\ cursor # NoCursor => UpTo(cursor, RowsOf(data))
          /\ \A m \in data[1].asOf \ RowsOf(data) : cursor # NoCursor /\ Before(cursor, m)
        BY <2>2, BrowsingAssumption DEF Chain, Instant
    <2> HIDE DEF cursor
    <2>4. cursor # NoCursor => Last(RowsOf(data)) = cursor
        BY <2>3, LastIsUnique
    <2>5. \A m \in data[1].asOf \ RowsOf(data) : cursor # NoCursor /\ Before(Last(RowsOf(data)), m)
        BY <2>3, <2>4
    <2> QED BY <2>3, <2>5 DEF RowsOf, cursor
<1> QED BY <1>1, BrowsingInvariant, PTL

\* The tournament page at rest shows whether the player is registered, in every order in
\* which calls, reads and answers may come.
THEOREM RegistrationIsShown == Spec => []RegistrationShown
<1>1. Inv => RegistrationShown
    <2> DEFINE k == <<"tournament">>
    <2> SUFFICES ASSUME Inv, AsyncPanel(k), flight[k] = NoFetch, ~Unanswered, attentive
                 PROVE  isRegistered(Data(k)[1]) = (me \in db.entrants)
        BY DEF RegistrationShown
    <2>1. Data(k) = cache[k].data /\ cache[k].data # <<>> /\ ~cache[k].error
        BY DEF AsyncPanel, Data
    <2>2. Told /\ ~Changed
        BY DEF Inv, Registration, Changed, Unanswered
    <2>3. Agrees(cache[k].data[1])
        BY <2>1, <2>2 DEF Told
    <2> QED BY <2>1, <2>3 DEF Agrees, isRegistered
<1> QED BY <1>1, BrowsingInvariant, PTL

\* The league in the header, the address in the profile and every page of the history that
\* is shown are the signed-in user's, whoever used the tab before.
THEOREM DataIsOnesOwn == Spec => []OwnDataOnly
<1>1. Inv => OwnDataOnly
    <2> SUFFICES ASSUME Inv PROVE OwnDataOnly
        OBVIOUS
    <2>1. ASSUME NEW k \in Keys, k[1] # "users", AsyncPanel(k)
          PROVE  Data(k) # <<>> /\ \A i \in DOMAIN Data(k) : Right(k, Data(k)[i])
        <3>1. Data(k) = cache[k].data /\ Data(k) # <<>>
            BY <2>1 DEF AsyncPanel, Data
        <3>2. Loaded(k)
            BY DEF Inv, QueryInv
        <3> QED BY <3>1, <3>2 DEF Loaded, AllRight
    <2>2. ASSUME NEW k \in Keys, k[1] \notin {"users", "history"}, AsyncPanel(k)
          PROVE  Right(k, Data(k)[1])
        <3>1. Data(k) = cache[k].data /\ cache[k].data # <<>>
            BY <2>2 DEF AsyncPanel, Data
        <3>2. cache[k].data \in Seq(Page)
            BY DEF Inv, BaseInv, Cached, Stored
        <3>3. 1 \in DOMAIN Data(k)
            BY <3>1, <3>2
        <3> QED BY <2>1, <2>2, <3>3
    <2>3. AsyncPanel(<<"season">>) => Data(<<"season">>)[1].rows = {<<"me", me>>}
        <3>1. <<"season">> \in Keys
            BY DEF Keys
        <3> QED BY <2>2, <3>1 DEF Right
    <2>4. me # Nobody => <<"profile", me>> \in Keys /\ <<"history", me>> \in Keys
        BY DEF Inv, BaseInv, Tab, Keys
    <2>5. me # Nobody /\ AsyncPanel(<<"profile", me>>) => <<"me", me>> \in Data(<<"profile", me>>)[1].rows
        BY <2>2, <2>4 DEF Right
    <2>6. ASSUME me # Nobody, AsyncPanel(<<"history", me>>)
          PROVE  \A i \in DOMAIN Data(<<"history", me>>) :
                    Data(<<"history", me>>)[i].rows \subseteq db.matches[me]
        BY <2>1, <2>4, <2>6 DEF Right
    <2> QED BY <2>3, <2>5, <2>6 DEF OwnDataOnly
<1> QED BY <1>1, BrowsingInvariant, PTL
=============================================================================
