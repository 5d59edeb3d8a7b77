CONSTANTS
    Priorities <- PriorityList
    Classes = {TRUE, FALSE}
    Hps = {"hurt", "worn", "full"}
    Clips = {"low", "enough"}
    Phases = {"alive", "dead", "off", "unready"}
SPECIFICATION FairSpec
INVARIANTS
    TypeOK
    MetalTripKept
    PathKept
PROPERTIES
    HealthServed
    AmmoServed
    Released
