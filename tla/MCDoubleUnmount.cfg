\* Is any temporary directory unmounted twice (cleanup, then the
\* KeyboardInterrupt handler)?  No command fails.
CONSTANTS
    b1 = b1
    b2 = b2
    Topo <- MCTopo
    Subvols <- MCReplicaPair
    LiveStatuses = {"Active", "Passive"}
    MayFail = {}
    Interval = 30
    TimeoutMin = 1
    Jitter = 0
    MaxTurns = 6
SPECIFICATION Spec
INVARIANT UnmountAtMostOnce
