\* The scheduling loop when the brick-info query, the mount check, the touch,
\* the umount of cleanup() or stop force may fail, with interrupts, on one
\* replica pair; the one-minute timeout fires after one or two polls.
CONSTANTS
    b1 = b1
    b2 = b2
    Topo <- MCTopo
    Subvols <- MCReplicaPair
    LiveStatuses = {"Active", "Passive", "Faulty"}
    MayFail = {"volinfo", "ismount", "touch", "umount", "stopforce"}
    Interval = 30
    TimeoutMin = 1
    Jitter = 1
    MaxTurns = 6
SPECIFICATION Spec
INVARIANT
    SessionStoppedAtExit
PROPERTIES
    CheckpointThenStart
    Terminates
