\* Two sessions: liveness.
CONSTANTS
    s1 = s1
    s2 = s2
    s3 = s3
    NoSess = NoSess
    Sess = {s1, s2}
    NCmd <- MCNCmd
    MaxPrompts = 1
    Interactive = {s1}
SPECIFICATION FairSpec
\* Clients may stop submitting sessions: the system then comes to rest.
CHECK_DEADLOCK FALSE
PROPERTIES
    EverySessionFinishes
    StopCompletes
