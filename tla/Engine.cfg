SPECIFICATION FairSpec
CONSTANTS
    Jobs = {l, a}
    Listeners = {l}
    Started = {l, a}
    FDs = {1, 2}
    Requests <- ReadOrBoth
    t1 = t1
    t2 = t2
    Timers = {t1, t2}
    Longest = 2
    timeout <- OneAndTwo
    MaxClockSets = 1
    NULL = NULL
INVARIANTS
    WalksCorrect
PROPERTIES
    EventsOfTheirOwn
    NobodyNeglected
    TimersRun
