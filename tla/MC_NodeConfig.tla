--------------------------- MODULE MC_NodeConfig ---------------------------
(* Start-up with two good origins and one HeaderValue rejects, a port that *)
(* fits in 16 bits and one that does not, and up to two CORS origins.     *)
EXTENDS NodeConfig

CONSTANTS o1, o2, bad, none

MC_None == none
MC_Origins == {o1, o2, bad}
MC_BadOrigins == {bad}
MC_PortArgs == {8000, 73536}
MC_MaxOrigins == 2
MC_FilePort == 3000
=============================================================================
