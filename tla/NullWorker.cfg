\* Two servers, one session.
CONSTANTS
    Size = 2
    Session = {s1}
    Null = Null
    MaxRestart = 0
SPECIFICATION Spec
INVARIANT NoWorkerMeansNone
CHECK_DEADLOCK FALSE
