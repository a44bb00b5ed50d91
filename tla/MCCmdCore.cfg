\* Three sessions: safety, and refinement of CommandService.
CONSTANTS
    s1 = s1
    s2 = s2
    s3 = s3
    NoSess = NoSess
    Sess = {s1, s2, s3}
    NCmd <- MCNCmd
    MaxPrompts = 1
    Interactive = {s1}
SPECIFICATION Spec
\* Clients may stop submitting sessions: the system then comes to rest.
CHECK_DEADLOCK FALSE
INVARIANTS
    TypeOK
    OneActive
    QueueIsPending
    NoLostWakeup
    RunLaterSound
    NoOrphanCommand
    StoppedMeansNoProcess
    ProtocolInSync
PROPERTY
    ServiceSpec
