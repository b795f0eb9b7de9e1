\* get() and get_summary() over both orders of two bricks and every live
\* status of one or two sessions.  get_summary() returns when the last
\* session is summarised: the loop has no step after that.
CONSTANTS
    Bricks = {b1, b2}
    LiveStatuses = {"Active", "Passive", "Faulty", "Initializing...", "Offline"}
    MaxSessions = 2
SPECIFICATION Spec
CHECK_DEADLOCK FALSE
INVARIANTS
    TypeOK
    LoopMatchesGetSummary
    VerdictMatchesReference
