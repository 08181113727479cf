CONSTANTS
    c1 = c1
    c2 = c2
    t1 = t1
    t2 = t2
    Clients <- MC_Clients
    Txs <- MC_Txs
    RelayCap <- MC_RelayCap
    MaxPeerTxs <- MC_MaxPeerTxs

SPECIFICATION FairSpec

\* The node stops: once both services have ended and every client has its
\* answer, no step is possible.
CHECK_DEADLOCK FALSE

INVARIANTS
    TypeOK
    WaiterQueued

PROPERTIES
    RequestsResolved
    ShutdownAcknowledged
