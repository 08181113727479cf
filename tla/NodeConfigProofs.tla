-------------------------- MODULE NodeConfigProofs --------------------------
(***************************************************************************)
(* Proofs about node start-up, for every set of origins and port values:  *)
(* the config keeps its type through every update: the port is cut to 16  *)
(* bits and at most one note is added.                                     *)
(***************************************************************************)
EXTENDS NodeConfig, SequenceTheorems, TLAPS

\* The inductive invariant: an update is pending only while there is one
\* left, and no note is added before the Cryptarchia update runs.
IInv ==
    /\ TypeOK
    /\ pc \in {"Load", "Update"} => step <= Len(Steps)
    /\ step <= Len(Steps) => cfg.notes = 0

-----------------------------------------------------------------------------
(* What each update returns.                                               *)

\* Keep(old, v) is the argument when it is given, the old value otherwise.
LEMMA KeepIn ==
  ASSUME NEW S, NEW old \in S, NEW v \in {None} \cup S
  PROVE  Keep(old, v) \in S
BY DEF Keep, Given

\* update_log returns a Config with the file's notes, or an error (None).
LEMMA UpdateLogFacts ==
  ASSUME NEW c \in Config, NEW a \in LogArgs
  PROVE  /\ UpdateLog(c, a) \in Config \cup {None}
         /\ UpdateLog(c, a) # None => UpdateLog(c, a).notes = c.notes
<1>1. CASE UpdateLog(c, a) = None
  BY <1>1
<1>2. CASE UpdateLog(c, a) # None
  <2>1. /\ a.format \in {None, "Json", "Plain"} /\ a.level \in {None, "DEBUG"}
        /\ a.backend = "Gelf" => a.addr = "resolvable"
        /\ a.backend = "File" => Given(a.directory)
    BY <1>2 DEF UpdateLog
  <2>2. UpdateLog(c, a) = [c EXCEPT !.logBackend = Keep(@, a.backend),
                                    !.logFormat = Keep(@, a.format),
                                    !.logLevel = Keep(@, a.level)]
    BY <1>2 DEF UpdateLog
  <2>3. /\ Keep(c.logBackend, a.backend) \in {"file", "Gelf", "File", "Stdout", "Stderr"}
        /\ Keep(c.logFormat, a.format) \in {"file", "Json", "Plain"}
        /\ Keep(c.logLevel, a.level) \in {"file", "DEBUG"}
    BY <2>1 DEF Config, LogArgs, Keep, Given
  <2>4. UpdateLog(c, a) \in Config
    BY <2>2, <2>3, Zenon DEF Config
  <2>5. UpdateLog(c, a).notes = c.notes
    BY <2>2 DEF Config
  <2> QED
    BY <2>4, <2>5
<1> QED
  BY <1>1, <1>2

\* update_network returns a Config with the file's notes and the port cut
\* to 16 bits, or an error.
LEMMA UpdateNetworkFacts ==
  ASSUME NEW c \in Config, NEW a \in NetworkArgs
  PROVE  /\ UpdateNetwork(c, a) \in Config \cup {None}
         /\ UpdateNetwork(c, a) # None => UpdateNetwork(c, a).notes = c.notes
<1>1. CASE a.host = "v6" \/ a.nodeKey \in {"badHex", "badKey"}
  BY <1>1 DEF UpdateNetwork
<1>2. CASE ~(a.host = "v6" \/ a.nodeKey \in {"badHex", "badKey"})
  <2>1. (IF Given(a.port) THEN U16(a.port) ELSE c.port)
          \in {FilePort} \cup {U16(p) : p \in PortArgs}
    BY DEF Config, NetworkArgs, Given
  <2>2. /\ Keep(c.host, a.host) \in {"file", "v4"}
        /\ Keep(c.nodeKey, a.nodeKey) \in {"file", "key"}
        /\ Keep(c.peers, a.peers) \in {"file", "peers"}
    BY <1>2 DEF Config, NetworkArgs, Keep, Given
  <2>3. UpdateNetwork(c, a) =
          [c EXCEPT !.host = Keep(@, a.host),
                    !.port = IF Given(a.port) THEN U16(a.port) ELSE @,
                    !.nodeKey = Keep(@, a.nodeKey),
                    !.peers = Keep(@, a.peers)]
    BY <1>2 DEF UpdateNetwork
  <2>4. UpdateNetwork(c, a) \in Config
    BY <2>1, <2>2, <2>3, Zenon DEF Config
  <2>5. UpdateNetwork(c, a).notes = c.notes
    BY <2>3 DEF Config
  <2> QED
    BY <2>4, <2>5
<1> QED
  BY <1>1, <1>2

\* update_http never fails and keeps the notes.
LEMMA UpdateHttpFacts ==
  ASSUME NEW c \in Config, NEW a \in HttpArgs
  PROVE  /\ UpdateHttp(c, a) \in Config
         /\ UpdateHttp(c, a).notes = c.notes
<1>1. /\ Keep(c.httpAddr, a.addr) \in {"file", "addr"}
      /\ Keep(c.cors, a.cors) \in OriginLists
  BY DEF Config, HttpArgs, Keep, Given
<1>2. UpdateHttp(c, a) \in Config
  BY <1>1, Zenon DEF UpdateHttp, Config
<1> QED
  BY <1>2 DEF UpdateHttp, Config

\* update_cryptarchia_consensus adds at most one note to a config that has
\* none, or fails.
LEMMA UpdateCryptarchiaFacts ==
  ASSUME NEW c \in Config, NEW a \in CryptarchiaArgs, c.notes = 0
  PROVE  UpdateCryptarchia(c, a) \in Config \cup {None}
<1>1. CASE a.start = "outOfRange" \/ a.note = "badHex"
  BY <1>1 DEF UpdateCryptarchia
<1>2. CASE ~(a.start = "outOfRange" \/ a.note = "badHex")
  <2>1. /\ Keep(c.chainStart, a.start) \in {"file", "inRange"}
        /\ Keep(c.slot, a.slot) \in {"file", "slot"}
        /\ (IF a.note = "sk" THEN c.notes + 1 ELSE c.notes) \in 0 .. 1
    BY <1>2 DEF Config, CryptarchiaArgs, Keep, Given
  <2>2. UpdateCryptarchia(c, a) =
          [c EXCEPT !.chainStart = Keep(@, a.start),
                    !.slot = Keep(@, a.slot),
                    !.notes = IF a.note = "sk" THEN @ + 1 ELSE @]
    BY <1>2 DEF UpdateCryptarchia
  <2>3. UpdateCryptarchia(c, a) \in Config
    BY <2>1, <2>2, Zenon DEF Config
  <2> QED
    BY <2>3
<1> QED
  BY <1>1, <1>2

-----------------------------------------------------------------------------
(* The steps of start-up keep the invariant.                               *)

\* One update of update_from_args with its ?: an error ends start-up, a
\* new config moves to the next update, or to overwatch after the last.
LEMMA ApplyUpdateIInv ==
  ASSUME IInv, pc = "Update", NEW new, new \in Config \cup {None},
         new # None /\ step < Len(Steps) => new.notes = 0,
         ApplyUpdate(new)
  PROVE  IInv'
<1>0. step \in 1 .. 4 /\ Len(Steps) = 4
  BY DEF IInv, TypeOK, Steps
<1>1. CASE new = None
  <2>1. pc' = "Exited" /\ UNCHANGED <<cfg, step, allowOrigin>>
    BY <1>1 DEF ApplyUpdate
  <2> QED
    BY <1>0, <2>1 DEF IInv, TypeOK
<1>2. CASE new # None
  <2>1. /\ cfg' = new /\ step' = step + 1 /\ UNCHANGED allowOrigin
        /\ pc' = IF step = 4 THEN "Run" ELSE "Update"
    BY <1>0, <1>2 DEF ApplyUpdate
  <2>2. /\ step' \in 1 .. Len(Steps) + 1
        /\ pc' \in {"Load", "Update"} => step' <= Len(Steps)
        /\ step' <= Len(Steps) => cfg'.notes = 0
    BY <1>0, <1>2, <2>1
  <2>3. /\ pc' \in {"Load", "Update", "Run", "Serve", "Serving", "Exited"}
        /\ cfg' \in Config
        /\ allowOrigin' \in [any : BOOLEAN, set : SUBSET Origins]
    BY <1>2, <2>1 DEF IInv, TypeOK
  <2> QED
    BY <2>2, <2>3, Zenon DEF IInv, TypeOK
<1> QED
  BY <1>1, <1>2

\* An update step runs the update of Steps[step] on some argument group.
LEMMA UpdateIInv ==
  ASSUME IInv, Update
  PROVE  IInv'
<1>0. /\ pc = "Update" /\ step \in 1 .. 4 /\ cfg \in Config
      /\ (step <= Len(Steps) => cfg.notes = 0) /\ Len(Steps) = 4
  BY DEF IInv, TypeOK, Update, Steps
<1>1. CASE step = 1
  <2>1. \E a \in LogArgs : ApplyUpdate(UpdateLog(cfg, a))
    <3>1. Steps[step] = "Log"
      BY <1>1 DEF Steps
    <3> QED
      BY <3>1, Zenon DEF Update
  <2>2. PICK a \in LogArgs : ApplyUpdate(UpdateLog(cfg, a))
    BY <2>1
  <2> QED
    BY <1>0, <1>1, <2>2, UpdateLogFacts, ApplyUpdateIInv
<1>2. CASE step = 2
  <2>1. \E a \in NetworkArgs :
          ApplyUpdate(UpdateNetwork(cfg, a))
    <3>1. Steps[step] = "Network"
      BY <1>2 DEF Steps
    <3> QED
      BY <3>1, Zenon DEF Update
  <2>2. PICK a \in NetworkArgs :
          ApplyUpdate(UpdateNetwork(cfg, a))
    BY <2>1
  <2> QED
    BY <1>0, <1>2, <2>2, UpdateNetworkFacts, ApplyUpdateIInv
<1>3. CASE step = 3
  <2>1. \E a \in HttpArgs : ApplyUpdate(UpdateHttp(cfg, a))
    <3>1. Steps[step] = "Http"
      BY <1>3 DEF Steps
    <3> QED
      BY <3>1, Zenon DEF Update
  <2>2. PICK a \in HttpArgs : ApplyUpdate(UpdateHttp(cfg, a))
    BY <2>1
  <2>3. UpdateHttp(cfg, a) \in Config /\ UpdateHttp(cfg, a).notes = 0
    BY <1>0, <1>3, UpdateHttpFacts
  <2> QED
    BY <1>0, <2>2, <2>3, ApplyUpdateIInv
<1>4. CASE step = 4
  <2>1. \E a \in CryptarchiaArgs :
          ApplyUpdate(UpdateCryptarchia(cfg, a))
    <3>1. Steps[step] = "Cryptarchia"
      BY <1>4 DEF Steps
    <3> QED
      BY <3>1, Zenon DEF Update
  <2>2. PICK a \in CryptarchiaArgs :
          ApplyUpdate(UpdateCryptarchia(cfg, a))
    BY <2>1
  <2>4. cfg.notes = 0
    BY <1>0, <1>4
  <2> QED
    BY <1>0, <1>4, <2>2, <2>4, UpdateCryptarchiaFacts, ApplyUpdateIInv
<1> QED
  BY <1>0, <1>1, <1>2, <1>3, <1>4

\* A CORS list is a sequence of origins.
LEMMA OriginListsSeq == OriginLists \subseteq Seq(Origins)
<1> SUFFICES ASSUME NEW l \in OriginLists PROVE l \in Seq(Origins)
  OBVIOUS
<1>1. PICK n \in 0 .. MaxOrigins : l \in [1 .. n -> Origins]
  BY DEF OriginLists
<1>2. n \in Nat
  BY ConfigAssumption
<1> QED
  BY <1>1, <1>2

\* The CORS layer allows Any, or one configured origin.
LEMMA CorsOriginsType ==
  ASSUME NEW list \in OriginLists
  PROVE  CorsOrigins(list) \in [any : BOOLEAN, set : SUBSET Origins]
<1>1. list \in Seq(Origins)
  BY OriginListsSeq
<1>2. list # << >> => list[Len(list)] \in Origins
  BY <1>1, EmptySeq, LenProperties
<1> QED
  BY <1>2 DEF CorsOrigins

LEMMA NextIInv == IInv /\ [Next]_vars => IInv'
<1> SUFFICES ASSUME IInv, [Next]_vars PROVE IInv'
  OBVIOUS
<1>1. CASE LoadConfig
  BY <1>1 DEF LoadConfig, IInv, TypeOK
<1>2. CASE Update
  BY <1>2, UpdateIInv
<1>3. CASE RunOverwatch
  BY <1>3 DEF RunOverwatch, IInv, TypeOK
<1>4. CASE BuildCors
  <2>1. allowOrigin' \in [any : BOOLEAN, set : SUBSET Origins]
    BY <1>4, CorsOriginsType DEF BuildCors, IInv, TypeOK, Config
  <2> QED
    BY <1>4, <2>1 DEF BuildCors, IInv, TypeOK
<1>5. CASE UNCHANGED vars
  BY <1>5 DEF vars, IInv, TypeOK
<1> QED
  BY <1>1, <1>2, <1>3, <1>4, <1>5 DEF Next

LEMMA InitIInv == Init => IInv
<1> SUFFICES ASSUME Init PROVE IInv
  OBVIOUS
<1>1. PICK c \in OriginLists : cfg = FileConfig(c)
  BY DEF Init
<1>2. FileConfig(c).notes = 0 /\ 0 \in 0 .. 1
  BY DEF FileConfig
<1>4. FileConfig(c) \in Config
  BY <1>2, Zenon DEF FileConfig, Config
<1>3. /\ pc = "Load" /\ step = 1
      /\ allowOrigin = [any |-> FALSE, set |-> {}]
  BY DEF Init
<1>5. step \in 1 .. Len(Steps) + 1 /\ step <= Len(Steps)
  BY <1>3 DEF Steps
<1>6. allowOrigin \in [any : BOOLEAN, set : SUBSET Origins]
  BY <1>3, Zenon
<1> QED
  BY <1>1, <1>2, <1>3, <1>4, <1>5, <1>6, Zenon DEF IInv, TypeOK

\* The config every update builds keeps its type: each Config::update_
\* method writes only values the config can hold, the port cut to 16 bits
\* (config.rs:191) and at most one note (config.rs:244-249).
THEOREM TypeCorrect == Spec => []TypeOK
<1>1. IInv => TypeOK
  BY DEF IInv
<1> QED
  BY InitIInv, NextIInv, <1>1, PTL DEF Spec

=============================================================================
