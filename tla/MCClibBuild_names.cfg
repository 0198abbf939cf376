CONSTANTS
    Callers = {1, 2, 3, 4, 5, 6, 7}
    Pkgs = {"r", "a", "b", "-d"}
    Options = {"-d"}
    Retries = 2
    MaxFaults = 2
    NoThread = NoThread
    Scenarios <- Misread
SPECIFICATION Spec
INVARIANT NamesBuilt
CHECK_DEADLOCK FALSE
