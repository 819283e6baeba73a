\* Three players in a bracket for sixteen.
SPECIFICATION Spec
CONSTANTS
    ua = ua
    ub = ub
    uc = uc
    ud = ud
    Users = {ua, ub, uc}
    Rating <- RatingOf
    BracketSize = 16
    Slots = {p1, p2}
    NoOne = noone
    NoSlot = noslot
    Leavers = {}
    MaxDraws = 0
    MaxFaults = 0
CHECK_DEADLOCK FALSE
INVARIANTS NoEmptyFinalBranch
