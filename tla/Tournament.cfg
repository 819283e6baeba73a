\* A tournament of up to four players; the tournament stops when it is over.
SPECIFICATION FairSpec
CONSTANTS
    ua = ua
    ub = ub
    uc = uc
    ud = ud
    Users = {ua, ub, uc, ud}
    Rating <- RatingOf
    BracketSize = 8
    Slots = {p1, p2}
    NoOne = noone
    NoSlot = noslot
    Leavers = {ud}
    MaxDraws = 1
    MaxFaults = 1
CHECK_DEADLOCK FALSE
INVARIANTS TypeOK OneBracket SlotsFollowFeeders Knockout ReadyIsAnnounced
PROPERTIES TournamentCompletes
