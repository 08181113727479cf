\* get_blob against a verifier writing files and keys in any order.
CONSTANTS
    s1 = s1
    s2 = s2
    VerifiedPrefix = VerifiedPrefix
    Absent = Absent
    Good = Good
    Corrupt = Corrupt
    None = None
    BlobIds <- MC_BlobIds
    IdLen <- MC_IdLen
    Columns <- MC_Columns
    Samplers <- MC_Samplers
    RelayCap <- MC_RelayCap
SPECIFICATION Spec
\* Every get_blob call ends and the verifier stops once all is written.
CHECK_DEADLOCK FALSE
INVARIANTS
    TypeOK
    BlobIdxInjective
    ReturnsOnlyVerified
