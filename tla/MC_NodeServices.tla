--------------------------- MODULE MC_NodeServices ---------------------------
EXTENDS NodeServices

CONSTANTS c1, c2, t1, t2

MC_Clients == {c1, c2}
MC_Txs == {t1, t2}
MC_RelayCap == 1
MC_MaxPeerTxs == 2

=============================================================================
