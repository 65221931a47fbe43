SPECIFICATION FairSpec
CONSTANTS
    c1 = c1
    c2 = c2
    c3 = c3
    c4 = c4
    k = k
    x = x
    y = y
    Callers = {c1, c2, c3, c4}
    Keys = {k}
    NoKey = NoKey
    Arguments = {x, y}
    Key <- MCKey
    Args <- MCArgs
    Remote = {c1, c4}
    HasLocalTool = {c1, c4}
    Shell = {c1, c2}
    NoOne = NoOne
INVARIANTS
    OneLocalRunPerKey
    AnswerIsOwn
    NoStrayProcess
PROPERTIES
    EveryCallerAnswered
CHECK_DEADLOCK FALSE
