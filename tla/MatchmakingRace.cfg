\* A joinQueue and a directed start for the same player.
SPECIFICATION Spec
CONSTANTS
    ua = ua
    uc = uc
    Users = {ua, ub, uc}
    Rating <- RatingOf
    Slots = {p1, p2}
    Tournament = {t1}
    Opponents <- OpponentsOf
    NoUser = nouser
    NoTournament = notournament
    MaxJoins = 1
    MaxStarts = 1
    Times = {0}
    LastJoin = 0
    MaxFaults = 0
INVARIANTS OneMatchPerPlayer
