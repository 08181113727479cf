\* The HTTP server allows every configured CORS origin (api.rs:40).
CONSTANTS
    o1 = o1
    o2 = o2
    bad = bad
    none = none
    None <- MC_None
    Origins <- MC_Origins
    BadOrigins <- MC_BadOrigins
    PortArgs <- MC_PortArgs
    MaxOrigins <- MC_MaxOrigins
    FilePort <- MC_FilePort
SPECIFICATION Spec
\* main returns once start-up fails or the server is serving.
CHECK_DEADLOCK FALSE
INVARIANT
    CorsAllowsConfigured
