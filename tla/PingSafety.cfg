SPECIFICATION FairSpec
CONSTANTS
    Services = {words, update}
    Timed = {words}
    Rpcs = {x1}
INVARIANTS
    TypeOK
    QuietExit
    EveryServiceReported
    OkMeansUp
PROPERTIES
    StopEnds
    PingAnswered
