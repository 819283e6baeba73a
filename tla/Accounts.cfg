SPECIFICATION FairSpec
CONSTANTS
    ta = ta
    tb = tb
    s1 = s1
    s2 = s2
    old = old
    new = new
    Handlers = {h1, h2}
    Tabs = {ta, tb}
    Slots = {s1, s2}
    NoTab = notab
    NoSlot = noslot
    Passwords = {old, new}
    NoPassword = nopassword
    MaxPairs = 3
    MaxLinks = 2
    Scenarios <- AllScenarios
CHECK_DEADLOCK FALSE
INVARIANTS TypeOK OneLiveTokenPerSignIn SessionSurvivesRotation ResetEndsOldSessions
PROPERTIES RevokedIsRefused BootEnds
