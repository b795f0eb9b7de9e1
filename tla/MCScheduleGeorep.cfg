\* The scheduling loop when any gluster command outside the scoped mount
\* may fail, with a KeyboardInterrupt possible at any step, two
\* single-brick replica sets and a two-minute timeout polled every 30
\* seconds: after the 60 s warm-up that is three or four polls before the
\* timeout fires, so the timeout, not MaxTurns, ends the loop.
CONSTANTS
    b1 = b1
    b2 = b2
    Topo <- MCTopo
    Subvols <- MCDistribute
    LiveStatuses = {"Active", "Passive", "Faulty", "Initializing..."}
    MayFail = {"status", "stopforce", "checkpoint", "start", "mount", "stop"}
    Interval = 30
    TimeoutMin = 2
    Jitter = 1
    MaxTurns = 8
SPECIFICATION Spec
INVARIANT
    NoMountLeftMounted
PROPERTY
    WindowRefined
