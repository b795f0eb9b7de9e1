\* Two processes, every command line of MCCalls, every set of existing
\* config files and log directories; the parent of the subordinate's log
\* directory is missing, as on a node that is not a secondary.
CONSTANTS
    w1 = w1
    w2 = w2
    Procs <- MCProcs
    Calls <- MCCalls
    BrokenDirs = {"subordinate"}
    SubcmdMayRaise = TRUE
SYMMETRY MCSymmetry
SPECIFICATION Spec
CHECK_DEADLOCK FALSE
INVARIANTS
    LogDirReady
    NoSilentFallback
