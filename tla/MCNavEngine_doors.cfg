CONSTANTS
    a1 = a1
    a2 = a2
    a3 = a3
    Areas = {a1, a2, a3}
    NoArea = NoArea
    Nearby <- Neighbour
    Conn <- Triangle
    Doors <- OneDoor
    Dangers = {}
    Phases = {"round"}
    Ubered = {FALSE}
    Levels = {"cp"}
    Meshed = {"cp"}
    NoLevel = "none"
    Jobs <- BotJobs
    Supplies = {}
    MaxStuck = 1
SPECIFICATION Spec
INVARIANTS
    TypeOK
    AvoidsStuck
    AbandonRecovers
    RepathKeepsJob
