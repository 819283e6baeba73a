SPECIFICATION Spec
CONSTANTS
    UserA = ua
    UserB = ub
    OtherUsers = {uc}
    MAX_ROUNDS = 5
    WINS_TO_END = 2
INVARIANTS TypeOK ScoreMatchesRounds OutcomeConsistent SidesInterchangeable
\* An ended match takes no further step.
CHECK_DEADLOCK FALSE
