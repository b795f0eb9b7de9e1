\* Is the volume unmounted on every exit path when the touch may fail?
CONSTANTS
    b1 = b1
    b2 = b2
    Topo <- MCTopo
    Subvols <- MCReplicaPair
    LiveStatuses = {"Active", "Passive"}
    MayFail = {"touch"}
    Interval = 30
    TimeoutMin = 1
    Jitter = 0
    MaxTurns = 6
SPECIFICATION Spec
INVARIANT NoMountLeftMounted
