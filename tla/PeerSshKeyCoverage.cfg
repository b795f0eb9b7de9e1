\* Does common_secret.pem.pub end up with the keys of every peer that has
\* one?  Two runs on two peers, a peer may be down, nothing dies.
CONSTANTS
    Peers = {n1, n2}
    Local = n1
    MaxRuns = 2
    MayCrash = FALSE
    MayBeDown = TRUE
SPECIFICATION Spec
CHECK_DEADLOCK FALSE
INVARIANT
    CommonSecretCoversPeers
