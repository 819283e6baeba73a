\* The pages of a tab.
SPECIFICATION Spec
CONSTANTS
    ua = ua
    ub = ub
    gold = gold
    iron = iron
    Users = {ua, ub}
    Admins = {ua}
    Nobody = nobody
    MatchPool <- Matches
    StandingPool <- Standings
    Leagues = {gold}
    AllLeagues = all
    HistoryLimit = 1
    PageLimit = 1
    BracketSize = 2
    MaxUsers = 3
    Scenarios <- AllScenarios
INVARIANTS NeverPastTheEnd HistoryComplete RegistrationShown OwnDataOnly
