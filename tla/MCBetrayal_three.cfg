CONSTANTS
    Bots = {"b1", "b2", "b3"}
    Limit = 1
    MaxKills = 2
    MaxChanges = 1
    Sources <- Learned
SPECIFICATION FairSpec
INVARIANTS
    HearsayNeverTurns
    WarnsOnce
PROPERTIES
    FriendlyStays
    StormEnds
