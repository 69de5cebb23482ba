\* The unit of time is 5 ms for the mutex; the longer periods are shortened.
\* Readers that give back in time, and readers that are held up.
CONSTANTS
    Reader <- MCReader
    QUEUE_WAIT = 3
    WAIT = 2
    READ_WAIT = 3
    INTERVAL = 4
    Hold = {1, 4}
SPECIFICATION Spec
INVARIANTS
    SnapshotsWhole
    NoUpdateLost
PROPERTIES
    MaintenanceRecurs
