\* Three runs of generate on two peers, either of which may be down at a
\* run and whose node-generate may die at any step.
CONSTANTS
    Peers = {n1, n2}
    Local = n1
    MaxRuns = 3
    MayCrash = TRUE
    MayBeDown = TRUE
SPECIFICATION Spec
CHECK_DEADLOCK FALSE
INVARIANTS
    CommonSecretValid
PROPERTIES
    KeysNeverReplaced
