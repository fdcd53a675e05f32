SPECIFICATION Spec
CONSTANTS
    Configs <- MCConfigs
    Engines <- MCEngines
    Envs <- MCEnvs
    MaxRuns = 2
    MaxFaults = 1
    Scenarios <- MCScenarios
    Peers = {"c"}
    Users <- MCUsers
    TTL = 1
    MaxTime = 3
    MaxCalls <- MCMaxCalls
    Projects <- MCProjects
    Exchanges <- MCExchanges
    MaxGenRuns = 3
    MaxGenFaults = 1
CHECK_DEADLOCK FALSE
INVARIANT ResponsesTellTruth
INVARIANT OutputIsKept
 
INVARIANT StoppedMeansStopped
INVARIANT SessionsAreOrderly
PROPERTY ShutdownEnds
PROPERTY SessionsEnd
 
INVARIANT AnswersAreFresh
INVARIANT SuccessIsCurrent
INVARIANT RunAgainHelps
INVARIANT SpecIsClosed
 
 
