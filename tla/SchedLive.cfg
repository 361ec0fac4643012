SPECIFICATION TimedSpec
CONSTANTS
    Main = main
    Threads = {main, t1, t2}
    Idle = idle
    None = none
    Mutexes = {}
    Conds = {}
    Timeouts <- OneOrForever
    Elapsed = {0, 1}
    Calls = {"create", "exit", "interrupt", "usleep", "poll"}
CHECK_DEADLOCK FALSE
PROPERTIES
    NobodyForgotten
    ProcessEnds
    SleeperWakes
