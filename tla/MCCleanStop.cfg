\* Does a clean stop mean every replica set synced past the checkpoint?
\* No command fails; workers report any started-session status.
CONSTANTS
    b1 = b1
    b2 = b2
    Topo <- MCTopo
    Subvols <- MCReplicaPair
    LiveStatuses = {"Active", "Passive", "Initializing..."}
    MayFail = {}
    Interval = 30
    TimeoutMin = 1
    Jitter = 0
    MaxTurns = 6
SPECIFICATION Spec
INVARIANT CleanStopImpliesPropagated
