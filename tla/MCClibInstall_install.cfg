CONSTANTS
    Callers = {0}
    Pkgs = {"a", "b", "c"}
    Paths = {"x", "y", "z"}
    Retries = 2
    MaxFaults = 2
    MaxFetches = 6
    NoThread = NoThread
    Scenarios <- TheScenarios
SPECIFICATION Spec
INVARIANTS FetchContained FilesWhole InstalledAsTold
PROPERTY Ends
CHECK_DEADLOCK FALSE
