\* The queue, the pairing ticks and directed starts that interleave.
SPECIFICATION FairSpec
CONSTANTS
    ua = ua
    uc = uc
    Users = {ua, uc}
    Rating <- RatingOf
    Slots = {p1, p2}
    Tournament = {t1}
    Opponents <- OpponentsOf
    NoUser = nouser
    NoTournament = notournament
    MaxJoins = 1
    MaxStarts = 2
    Times = {0, 6}
    LastJoin = 0
    MaxFaults = 1
INVARIANTS OneEntryOneMatch NoDoubleBooking TournamentMatchOnce
PROPERTIES FairPairing NobodyWaitsForever
