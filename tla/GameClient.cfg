SPECIFICATION FairSpec
CONSTANTS
    MaxMatches = 2
    MaxRounds = 2
    MaxSockets = 3
    Scenarios <- AllScenarios
CHECK_DEADLOCK FALSE
 
PROPERTIES AwaitingEnds
