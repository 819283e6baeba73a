\* Failing commands and a crash; sockets that come and go.
SPECIFICATION Spec
CONSTANTS
    UserA = ua
    UserB = ub
    OtherUsers = {}
    MAX_ROUNDS = 1
    WINS_TO_END = 1
    PlayHandlers = {h1, h2}
    TimeoutWorkers = {w1}
    ForfeitWorkers = {f1}
    SocketHandlers = {c1, c2}
    Matchmaker = mm
    NoProc = noproc
    PLAY_ATTEMPTS = 2
    FORFEIT_ATTEMPTS = 2
    ClientMoves = {"rock"}
    MaxSockets = 3
    Scenarios <- Disturbed
    SlowHolder = FALSE
INVARIANTS TypeOK OneFinalizer EveryoneSeesFinalState FreedOnlyAfterEnd
PROPERTIES ImplementsSession LiveSocketStaysRegistered
SYMMETRY Symmetry
\* A finished match with silent players takes no further step.
CHECK_DEADLOCK FALSE
