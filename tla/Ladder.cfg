SPECIFICATION FairSpec
CONSTANTS
    alice = alice
    bob = bob
    carol = carol
    m1 = m1
    m2 = m2
    m3 = m3
    Players = {alice, bob, carol}
    Matches = {m1, m2, m3}
    Sides <- Pairings
    MaxSeasons = 2
    MaxCloses = 2
    Workers = {w1, w2}
    NoWorker = noworker
    MAIL_BATCH_SIZE = 2
    getExpectedScore <- Logistic
    Scenarios <- AllScenarios
CHECK_DEADLOCK FALSE
INVARIANTS TypeOK CountedOnce
PROPERTIES ArchivedOnce SeasonSettles LeaderboardCatchesUp
