CONSTANTS
    Callers = {1, 2, 3, 4, 5, 6, 7}
    Pkgs = {"r", "a", "b", "-d"}
    Options = {"-d"}
    Retries = 2
    MaxFaults = 2
    NoThread = NoThread
    Scenarios <- TheScenarios
SPECIFICATION Spec
INVARIANTS CacheGuarded TreeBuilt ParentsWait
PROPERTY Ends
CHECK_DEADLOCK FALSE
