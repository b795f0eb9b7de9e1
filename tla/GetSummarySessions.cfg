\* Two sessions of two bricks whose workers are Active or Faulty: the
\* faulty list of one session also holds the faulty bricks of the other.
CONSTANTS
    Bricks = {b1, b2}
    LiveStatuses = {"Active", "Faulty"}
    MaxSessions = 2
SPECIFICATION Spec
CHECK_DEADLOCK FALSE
INVARIANT
    FaultyListsPerSession
