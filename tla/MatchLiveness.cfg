\* Two rounds without failures, under fairness.
SPECIFICATION FairSpec
CONSTANTS
    UserA = ua
    UserB = ub
    OtherUsers = {}
    MAX_ROUNDS = 2
    WINS_TO_END = 2
    PlayHandlers = {h1}
    TimeoutWorkers = {w1}
    ForfeitWorkers = {}
    SocketHandlers = {}
    Matchmaker = mm
    NoProc = noproc
    PLAY_ATTEMPTS = 2
    FORFEIT_ATTEMPTS = 2
    ClientMoves = {"rock"}
    MaxSockets = 1
    Scenarios <- JustCalm
    SlowHolder = FALSE
PROPERTIES MatchEndsUnlessTimerLost EndedIsPublished
\* A finished match with silent players takes no further step.
CHECK_DEADLOCK FALSE
