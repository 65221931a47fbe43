SPECIFICATION FairSpec
CONSTANTS
    r1 = r1
    r2 = r2
    Risk <- MCRisk
    here = here
    there = there
    w1 = w1
    w2 = w2
    Requests = {r1, r2}
    Swarms = {here, there}
    Workers = {w1, w2}
    Team <- MCTeam
    Policy <- MCPolicy
    Interactive = {here}
    WaitLimit = 1
    StaleAge = 2
    MaxTime = 3
INVARIANTS
    HandledByOne
PROPERTIES
    Promised
    WaitEnds
CHECK_DEADLOCK FALSE
