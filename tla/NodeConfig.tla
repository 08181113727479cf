----------------------------- MODULE NodeConfig -----------------------------
(***************************************************************************)
(* Start-up of a node (src/nodes/nomos-node/src/main.rs): the config file  *)
(* is read, the command-line arguments override it group by group         *)
(* (src/nodes/nomos-node/src/config.rs, the Config::update_ methods), overwatch *)
(* starts the services, and the HTTP service builds its CORS layer        *)
(* (src/nodes/nomos-node/src/api.rs, AxumBackend::serve).                  *)
(*                                                                         *)
(* Every update returns early with an error on the first argument it      *)
(* rejects, and main propagates it with ?: no service starts.  An argument *)
(* group is chosen when its update runs; each update reads only its own   *)
(* group, so this is the same as choosing all of them when clap parses.   *)
(* Values are abstracted to what the code tells apart: a value the file   *)
(* holds is "file", an argument not given is None.                        *)
(***************************************************************************)
EXTENDS Naturals, Sequences

CONSTANTS
    None,         \* an argument not given
    Origins,      \* CORS origin strings
    BadOrigins,   \* those HeaderValue::from_str rejects
    PortArgs,     \* values given to --net-port (a usize)
    FilePort,     \* the port the config file holds (a u16)
    MaxOrigins    \* how many --http-cors-origin values are given at most

ASSUME ConfigAssumption ==
    /\ BadOrigins \subseteq Origins
    /\ PortArgs \subseteq Nat
    /\ FilePort \in Nat /\ FilePort < 65536
    /\ MaxOrigins \in Nat

\* `port as u16` (config.rs:191).
U16(n) == n % 65536

OriginLists == UNION {[1 .. n -> Origins] : n \in 0 .. MaxOrigins}

\* The argument groups (config.rs:35-105), with the values the code tells
\* apart.  clap's requires() makes the note key and value come together.
LogArgs == [backend : {None, "Gelf", "File", "Stdout", "Stderr"},
            addr : {None, "resolvable", "unresolvable"},
            directory : {None, "dir"},
            format : {None, "Json", "Plain", "Other"},
            level : {None, "DEBUG", "INFO"}]
NetworkArgs == [host : {None, "v4", "v6"}, port : {None} \cup PortArgs,
                nodeKey : {None, "key", "badHex", "badKey"},
                peers : {None, "peers"}]
HttpArgs == [addr : {None, "addr"}, cors : {None} \cup OriginLists]
CryptarchiaArgs == [start : {None, "inRange", "outOfRange"},
                    slot : {None, "slot"},
                    note : {None, "sk", "badHex"}]

Steps == <<"Log", "Network", "Http", "Cryptarchia">>

VARIABLES
    pc,           \* "Load", an update step, "Run", "Serve", "Serving", "Exited"
    step,         \* the index in Steps of the next update
    cfg,          \* the Config being built
    allowOrigin   \* the CORS layer's allowed origins: Any, or a set

vars == <<pc, step, cfg, allowOrigin>>

Config == [logBackend : {"file", "Gelf", "File", "Stdout", "Stderr"},
           logFormat : {"file", "Json", "Plain"},
           logLevel : {"file", "DEBUG"},
           host : {"file", "v4"}, port : {FilePort} \cup {U16(p) : p \in PortArgs},
           nodeKey : {"file", "key"}, peers : {"file", "peers"},
           httpAddr : {"file", "addr"}, cors : OriginLists,
           chainStart : {"file", "inRange"}, slot : {"file", "slot"},
           notes : 0 .. 1]

TypeOK ==
    /\ pc \in {"Load", "Update", "Run", "Serve", "Serving", "Exited"}
    /\ step \in 1 .. Len(Steps) + 1
    /\ cfg \in Config
    /\ allowOrigin \in [any : BOOLEAN, set : SUBSET Origins]

\* The file's config; its CORS list is one of the lists a file can hold.
FileConfig(c) ==
    [logBackend |-> "file", logFormat |-> "file", logLevel |-> "file",
     host |-> "file", port |-> FilePort, nodeKey |-> "file", peers |-> "file",
     httpAddr |-> "file", cors |-> c, chainStart |-> "file", slot |-> "file",
     notes |-> 0]

Init ==
    /\ pc = "Load"
    /\ step = 1
    /\ cfg \in {FileConfig(c) : c \in OriginLists}
    /\ allowOrigin = [any |-> FALSE, set |-> {}]

Given(v) == v # None
Keep(old, v) == IF Given(v) THEN v ELSE old

-----------------------------------------------------------------------------
(* Config::update_log (config.rs:129-174).  The Gelf address is resolved   *)
(* with to_socket_addrs and its first address taken.                      *)
UpdateLog(c, a) ==
    LET backendOk == CASE a.backend = "Gelf" -> a.addr = "resolvable"
                       [] a.backend = "File" -> Given(a.directory)
                       [] OTHER -> TRUE
    IN IF backendOk /\ a.format \in {None, "Json", "Plain"}
          /\ a.level \in {None, "DEBUG"}
       THEN [c EXCEPT !.logBackend = Keep(@, a.backend),
                      !.logFormat = Keep(@, a.format),
                      !.logLevel = Keep(@, a.level)]
       ELSE None

\* An update that stores the port argument without the u16 conversion.
UpdateNetwork_NoTruncate(c, a) ==
    IF a.host = "v6" \/ a.nodeKey \in {"badHex", "badKey"}
    THEN None
    ELSE [c EXCEPT !.host = Keep(@, a.host),
                   !.port = IF Given(a.port) THEN a.port ELSE @,
                   !.nodeKey = Keep(@, a.nodeKey),
                   !.peers = Keep(@, a.peers)]

\* Config::update_network (config.rs:176-207).
UpdateNetwork(c, a) ==
    IF a.host = "v6" \/ a.nodeKey \in {"badHex", "badKey"}
    THEN None
    ELSE [c EXCEPT !.host = Keep(@, a.host),
                   !.port = IF Given(a.port) THEN U16(a.port) ELSE @,
                   !.nodeKey = Keep(@, a.nodeKey),
                   !.peers = Keep(@, a.peers)]

\* Config::update_http (config.rs:209-224).
UpdateHttp(c, a) ==
    [c EXCEPT !.httpAddr = Keep(@, a.addr), !.cors = Keep(@, a.cors)]

\* Config::update_cryptarchia_consensus (config.rs:226-255).  The expect of
\* line 246 cannot fire: clap requires the value with the key.
UpdateCryptarchia(c, a) ==
    IF a.start = "outOfRange" \/ a.note = "badHex"
    THEN None
    ELSE [c EXCEPT !.chainStart = Keep(@, a.start),
                   !.slot = Keep(@, a.slot),
                   !.notes = IF a.note = "sk" THEN @ + 1 ELSE @]

-----------------------------------------------------------------------------
(* main (main.rs:36-88).                                                   *)

\* File::open and serde_yaml::from_reader (main.rs:45): either can fail.
LoadConfig ==
    /\ pc = "Load"
    /\ \/ pc' = "Update"
       \/ pc' = "Exited"
    /\ UNCHANGED <<step, cfg, allowOrigin>>

\* One update of update_from_args (main.rs:46-52), with its ?.
ApplyUpdate(new) ==
    /\ IF new = None
       THEN pc' = "Exited" /\ UNCHANGED <<cfg, step>>
       ELSE /\ cfg' = new
            /\ step' = step + 1
            /\ pc' = IF step = Len(Steps) THEN "Run" ELSE "Update"
    /\ UNCHANGED allowOrigin

Update ==
    /\ pc = "Update"
    /\ CASE Steps[step] = "Log" ->
              \E a \in LogArgs : ApplyUpdate(UpdateLog(cfg, a))
         [] Steps[step] = "Network" ->
              \E a \in NetworkArgs : ApplyUpdate(UpdateNetwork(cfg, a))
         [] Steps[step] = "Http" ->
              \E a \in HttpArgs : ApplyUpdate(UpdateHttp(cfg, a))
         [] Steps[step] = "Cryptarchia" ->
              \E a \in CryptarchiaArgs : ApplyUpdate(UpdateCryptarchia(cfg, a))

\* OverwatchRunner::run (main.rs:54-85): the services start, or run fails
\* and main returns the error.
RunOverwatch ==
    /\ pc = "Run"
    /\ \/ pc' = "Serve"
       \/ pc' = "Exited"
    /\ UNCHANGED <<step, cfg, allowOrigin>>

\* The CORS layer of AxumBackend::serve (api.rs:95-107): Any when no origin
\* is configured; otherwise each origin is parsed (a bad one panics) and
\* passed to allow_origin, which replaces the origin allowed so far.
CorsOrigins(list) ==
    IF list = << >> THEN [any |-> TRUE, set |-> {}]
    ELSE [any |-> FALSE, set |-> {list[Len(list)]}]

BuildCors ==
    /\ pc = "Serve"
    /\ IF \E i \in DOMAIN cfg.cors : cfg.cors[i] \in BadOrigins
       THEN pc' = "Exited" /\ UNCHANGED allowOrigin
       ELSE pc' = "Serving" /\ allowOrigin' = CorsOrigins(cfg.cors)
    /\ UNCHANGED <<step, cfg>>

Next == LoadConfig \/ Update \/ RunOverwatch \/ BuildCors

Spec == Init /\ [][Next]_vars

-----------------------------------------------------------------------------
(* Properties.                                                             *)

\* Every origin configured in cors_origins is allowed by the HTTP server
\* (the doc comment of AxumBackendSettings::cors_origins, api.rs:40:
\* "Allowed origins for this server deployment requests").
CorsAllowsConfigured ==
    pc = "Serving" =>
        allowOrigin.any
        \/ \A i \in DOMAIN cfg.cors : cfg.cors[i] \in allowOrigin.set

=============================================================================
