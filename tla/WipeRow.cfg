\* An id that registers between the listing of the ids and the plan of a wipe.
SPECIFICATION HostRuns
CONSTANTS
    w1 = w1  w2 = w2  o1 = o1  l1 = l1  a1 = a1  a2 = a2
    Wrapper = {w1, w2}
    Settings = {w1}
    Own = {o1}
    Ask <- MCAsk
    Lane = {l1}
    MaxVersion = 2
    MaxFault = 1
    Agent = {a1, a2}
    Foreign = {a2}
    MaxStart = 2
PROPERTIES FreshRowRefuses
CHECK_DEADLOCK FALSE
