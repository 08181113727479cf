------------------------------ MODULE DaStorage ------------------------------
(***************************************************************************)
(* The DA sampling service's storage adapter (src/nomos-services/data-     *)
(* availability/sampling/src/storage/adapters/rocksdb.rs).  get_blob asks *)
(* the storage service, over its relay, whether the key made by            *)
(* create_blob_idx is marked verified, and only then reads the blob's file *)
(* (load_blob) and deserializes it.  The verifier that writes the file and *)
(* marks the key, and the storage service that answers Load, are not under *)
(* src/: they are modelled as an environment that does both, in either     *)
(* order, at any time, and may write a file that does not deserialize.     *)
(***************************************************************************)
EXTENDS Naturals, Sequences

CONSTANTS
    BlobIds,        \* blob ids: byte sequences of length IdLen
    IdLen,          \* the length of a blob id (32 for DaBlob)
    Columns,        \* column indexes (u16)
    Samplers,       \* concurrent get_blob calls
    RelayCap,       \* capacity of the storage service's relay
    VerifiedPrefix, \* DA_VERIFIED_KEY_PREFIX
    Absent, Good, Corrupt, \* a blob file: missing, readable, or not a blob
    None            \* no value (and the panic of copy_from_slice)

ASSUME DaStorageAssumption ==
    /\ IdLen \in Nat
    /\ BlobIds \subseteq Seq(0 .. 255)
    /\ \A id \in BlobIds : Len(id) = IdLen
    /\ \A c \in Columns : c \in Nat /\ c < 65536
    /\ RelayCap \in Nat \ {0}
    /\ None \notin BOOLEAN /\ None \notin {"Some", "NotFound", "Err"}

\* ColumnIndex::to_be_bytes (rocksdb.rs:58, blob.rs:71-73).
ColumnBytes(c) == <<c \div 256, c % 256>>

\* The length of the array create_blob_idx returns: a 32-byte id and a
\* 2-byte column index.
IdxLen == IdLen + 2

\* create_blob_idx (rocksdb.rs:93-99): the id, then the column index, in an
\* array of IdxLen bytes; copy_from_slice panics (None) when they do not fill
\* it exactly.
CreateBlobIdx_NoColumn(id, col) ==
    IF Len(id) + Len(col) = IdxLen THEN id \o [i \in 1 .. Len(col) |-> 0]
    ELSE None
CreateBlobIdx(id, col) ==
    IF Len(id) + Len(col) = IdxLen THEN id \o col ELSE None

\* key_bytes of nomos_da_storage: the prefix, then the index.
KeyBytes(prefix, idx) == <<prefix>> \o idx

VerifiedKey(id, c) == KeyBytes(VerifiedPrefix, CreateBlobIdx(id, ColumnBytes(c)))

Pairs == BlobIds \X Columns

VARIABLES
    db,         \* the keys the storage service holds
    files,      \* the blob file of each (id, column)
    relay,      \* Load messages queued for the storage service
    reply,      \* the answer each sampler's oneshot holds, or None
    sampler,    \* each sampler's state
    req,        \* each sampler's (id, column)
    result,     \* what get_blob returned
    verified    \* the pairs the verifier has marked (history variable)

vars == <<db, files, relay, reply, sampler, req, result, verified>>

Results == {None, "Some", "NotFound", "Err"}

KeySet == {VerifiedKey(p[1], p[2]) : p \in Pairs}

TypeOK ==
    /\ db \subseteq KeySet
    /\ files \in [Pairs -> {Absent, Good, Corrupt}]
    /\ relay \in Seq([from : Samplers, key : KeySet])
    /\ Len(relay) <= RelayCap
    /\ reply \in [Samplers -> {None, TRUE, FALSE}]
    /\ sampler \in [Samplers -> {"Idle", "Waiting", "Replied", "Done"}]
    /\ req \in [Samplers -> Pairs]
    /\ result \in [Samplers -> Results]
    /\ verified \subseteq Pairs

Init ==
    /\ db = {}
    /\ files = [p \in Pairs |-> Absent]
    /\ relay = << >>
    /\ reply = [s \in Samplers |-> None]
    /\ sampler = [s \in Samplers |-> "Idle"]
    /\ req \in [Samplers -> Pairs]
    /\ result = [s \in Samplers |-> None]
    /\ verified = {}

-----------------------------------------------------------------------------
(* get_blob (rocksdb.rs:53-83).                                            *)

\* A send that does not wait for room in the relay.
SendLoad_NoCap(s) ==
    /\ sampler[s] = "Idle"
    /\ relay' = Append(relay, [from |-> s, key |-> VerifiedKey(req[s][1], req[s][2])])
    /\ sampler' = [sampler EXCEPT ![s] = "Waiting"]
    /\ UNCHANGED <<db, files, reply, req, result, verified>>

\* Build the key and send Load; the send waits while the relay is full.
SendLoad(s) ==
    /\ sampler[s] = "Idle"
    /\ Len(relay) < RelayCap
    /\ relay' = Append(relay, [from |-> s, key |-> VerifiedKey(req[s][1], req[s][2])])
    /\ sampler' = [sampler EXCEPT ![s] = "Waiting"]
    /\ UNCHANGED <<db, files, reply, req, result, verified>>

\* A get_blob that reads the file whatever the storage service answered.
LoadFile_NoCheck(s) ==
    /\ sampler[s] = "Replied"
    /\ result' = [result EXCEPT ![s] =
                    CASE files[req[s]] = Absent -> "Err"
                      [] files[req[s]] = Corrupt -> "NotFound"
                      [] files[req[s]] = Good -> "Some"]
    /\ sampler' = [sampler EXCEPT ![s] = "Done"]
    /\ UNCHANGED <<db, files, relay, reply, req, verified>>

\* The reply arrives: None ends the call; Some makes it load the file of
\* (blob_id, column_idx), where a file missing is an error and one that does
\* not deserialize is Ok(None) (unwrap_or_default).
LoadFile(s) ==
    /\ sampler[s] = "Replied"
    /\ result' = [result EXCEPT ![s] =
                    IF ~reply[s] THEN "NotFound"
                    ELSE CASE files[req[s]] = Absent -> "Err"
                           [] files[req[s]] = Corrupt -> "NotFound"
                           [] files[req[s]] = Good -> "Some"]
    /\ sampler' = [sampler EXCEPT ![s] = "Done"]
    /\ UNCHANGED <<db, files, relay, reply, req, verified>>

-----------------------------------------------------------------------------
(* The environment: the storage service and the verifier.                  *)

\* StorageMsg::Load: the storage service answers whether the key is held.
StorageLoad ==
    /\ relay # << >>
    /\ LET m == Head(relay) IN
         /\ reply' = [reply EXCEPT ![m.from] = m.key \in db]
         /\ sampler' = [sampler EXCEPT ![m.from] = "Replied"]
    /\ relay' = Tail(relay)
    /\ UNCHANGED <<db, files, req, result, verified>>

\* The verifier writes a blob file (which may not deserialize).
WriteFile(p) ==
    /\ files[p] = Absent
    /\ \E f \in {Good, Corrupt} : files' = [files EXCEPT ![p] = f]
    /\ UNCHANGED <<db, relay, reply, sampler, req, result, verified>>

\* The verifier marks a blob column verified.
MarkVerified(p) ==
    /\ p \notin verified
    /\ db' = db \cup {VerifiedKey(p[1], p[2])}
    /\ verified' = verified \cup {p}
    /\ UNCHANGED <<files, relay, reply, sampler, req, result>>

Next ==
    \/ \E s \in Samplers : SendLoad(s) \/ LoadFile(s)
    \/ StorageLoad
    \/ \E p \in Pairs : WriteFile(p) \/ MarkVerified(p)

Spec == Init /\ [][Next]_vars

-----------------------------------------------------------------------------
(* Properties.                                                             *)

\* A key the verifier has marked names one (blob id, column) only: the index
\* create_blob_idx builds (rocksdb.rs:59 and 93-99) never makes the mark of
\* one column stand for another column or another blob.
BlobIdxInjective ==
    \A p \in verified, q \in Pairs :
        VerifiedKey(q[1], q[2]) = VerifiedKey(p[1], p[2]) => q = p

\* get_blob returns a blob only for a (blob id, column) the verifier has
\* marked verified: the storage check of rocksdb.rs:70 gates the file read.
ReturnsOnlyVerified ==
    \A s \in Samplers : result[s] = "Some" => req[s] \in verified

=============================================================================
