CONSTANTS
    a1 = a1
    a2 = a2
    a3 = a3
    Areas = {a1, a2, a3}
    NoArea = NoArea
    Nearby <- Neighbour
    Conn <- Cycle
    Doors <- NoDoors
    Dangers = {a2}
    Phases = {"round", "dead", "off"}
    Ubered = {TRUE, FALSE}
    Levels = {"cp", "bare"}
    Meshed = {"cp"}
    NoLevel = "none"
    Jobs <- RivalJobs
    Supplies = {1}
    MaxStuck = 0
SPECIFICATION FairSpec
INVARIANTS
    BlacklistObeyed
PROPERTIES
    JobDropped
    ImplementsEngine
