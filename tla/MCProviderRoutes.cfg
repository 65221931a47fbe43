SPECIFICATION FairRoutes
CONSTANTS
    nim = nim
    openrouter = openrouter
    ollama = ollama
    gateway = gateway
    m1 = m1
    m2 = m2
    f1 = f1
    f2 = f2
    k = k
    g = g
    auto = auto
    none = none
    turn = turn
    title = title
    Order <- MCOrder
    Gateway = gateway
    Nim = nim
    OpenRouter = openrouter
    Ollama = ollama
    Pool <- MCPool
    NumKeys = 2
    Star = "*"
    Requests = {turn, title}
    Wants <- MCWants
    AUTO = auto
    NoModel = none
    Outages <- MCOutages
    Faults <- MCFaults
    MaxTicks = 1
INVARIANTS
    NoRouteStranded
PROPERTIES
    RotationIsFresh
    RequestEnds
CHECK_DEADLOCK FALSE
