\* Two threads lose a record: one to three threads, three decisions, one host remembered, a window of one tick.
CONSTANTS
    h1 = h1
    h2 = h2
    p1 = p1
    p2 = p2
    d1 = d1
    d2 = d2
    t1 = t1
    t2 = t2
    t3 = t3
    Host <- MCHost
    Ip <- MCIp
    Permitted <- MCPermitted
    Thread <- MCThread
    Window = 1
    Capacity = 1
    MaxTime = 2
    MaxDecisions = 3
SPECIFICATION Spec
SYMMETRY Symmetric
INVARIANT EveryDecisionPassedOn
