--------------------------- MODULE DaStorageProofs ---------------------------
(***************************************************************************)
(* Proofs about the DA sampling storage adapter: the key get_blob builds   *)
(* is injective in (blob id, column) for every id length and column set,   *)
(* and, resting on that, get_blob returns a blob only for a column the     *)
(* verifier marked verified.                                               *)
(***************************************************************************)
EXTENDS DaStorage, SequenceTheorems, TLAPS

\* Two concatenations whose first parts have the same length are equal only
\* when both parts are.
LEMMA ConcatInjective ==
  ASSUME NEW S, NEW a1 \in Seq(S), NEW a2 \in Seq(S),
         NEW b1 \in Seq(S), NEW b2 \in Seq(S),
         Len(a1) = Len(a2), a1 \o b1 = a2 \o b2
  PROVE  a1 = a2 /\ b1 = b2
<1>0. /\ Len(a1) \in Nat /\ Len(b1) \in Nat /\ Len(b2) \in Nat
  BY LenProperties
<1>1. Len(b1) = Len(b2)
  BY ConcatProperties
<1>2. a1 = a2
  <2>1. \A i \in 1 .. Len(a1) : a1[i] = a2[i]
    <3> TAKE i \in 1 .. Len(a1)
    <3>1. (a1 \o b1)[i] = a1[i]
      BY <1>0, ConcatProperties
    <3>2. (a2 \o b2)[i] = a2[i]
      BY <1>0, <1>1, ConcatProperties
    <3> QED
      BY <3>1, <3>2
  <2> QED
    BY <2>1, SeqEqual
<1>3. b1 = b2
  <2>1. \A j \in 1 .. Len(b1) : b1[j] = b2[j]
    <3> TAKE j \in 1 .. Len(b1)
    <3>1. (a1 \o b1)[Len(a1) + j] = b1[j]
      BY <1>0, ConcatProperties
    <3>2. (a2 \o b2)[Len(a2) + j] = b2[j]
      BY <1>0, <1>1, ConcatProperties
    <3> QED
      BY <3>1, <3>2
  <2> QED
    BY <1>1, <2>1, SeqEqual
<1> QED
  BY <1>2, <1>3

\* A one-element prefix cancels.
LEMMA PrefixCancel ==
  ASSUME NEW S, NEW x \in S, NEW b1 \in Seq(S), NEW b2 \in Seq(S),
         <<x>> \o b1 = <<x>> \o b2
  PROVE  b1 = b2
<1>1. <<x>> \in Seq(S) /\ Len(<<x>>) = Len(<<x>>)
  OBVIOUS
<1> QED
  BY <1>1, ConcatInjective

\* A blob id is a byte sequence of IdLen bytes.
LEMMA BlobIdSeq ==
  ASSUME NEW id \in BlobIds
  PROVE  id \in Seq(Nat) /\ Len(id) = IdLen
<1>1. id \in Seq(0 .. 255) /\ Len(id) = IdLen
  BY DaStorageAssumption
<1>2. 0 .. 255 \subseteq Nat
  OBVIOUS
<1> QED
  BY <1>1, <1>2, SeqMonotonic, Zenon

\* Big-endian bytes of a u16 determine it.
LEMMA ColumnBytesInjective ==
  ASSUME NEW c1 \in Columns, NEW c2 \in Columns,
         ColumnBytes(c1) = ColumnBytes(c2)
  PROVE  c1 = c2
<1>0. c1 \in Nat /\ c2 \in Nat
  BY DaStorageAssumption
<1>1. /\ ColumnBytes(c1)[1] = c1 \div 256 /\ ColumnBytes(c1)[2] = c1 % 256
      /\ ColumnBytes(c2)[1] = c2 \div 256 /\ ColumnBytes(c2)[2] = c2 % 256
  BY DEF ColumnBytes
<1>2. c1 \div 256 = c2 \div 256 /\ c1 % 256 = c2 % 256
  BY <1>1, Zenon
<1> QED
  BY <1>0, <1>2

\* The column bytes are a sequence of two naturals.
LEMMA ColumnBytesSeq ==
  ASSUME NEW c \in Columns
  PROVE  ColumnBytes(c) \in Seq(Nat) /\ Len(ColumnBytes(c)) = 2
<1>0. c \in Nat
  BY DaStorageAssumption
<1>1. c \div 256 \in Nat /\ c % 256 \in Nat
  BY <1>0
<1>2. <<c \div 256, c % 256>> \in Seq(Nat) /\ Len(<<c \div 256, c % 256>>) = 2
  BY <1>1
<1> QED
  BY <1>2 DEF ColumnBytes

\* The key get_blob sends (key_bytes of create_blob_idx, rocksdb.rs:59-64)
\* names one (blob id, column) only, for every id length and column set.
THEOREM KeyInjective ==
  \A p, q \in Pairs : VerifiedKey(p[1], p[2]) = VerifiedKey(q[1], q[2]) => p = q
<1> SUFFICES ASSUME NEW i1 \in BlobIds, NEW c1 \in Columns,
                    NEW i2 \in BlobIds, NEW c2 \in Columns,
                    VerifiedKey(i1, c1) = VerifiedKey(i2, c2)
             PROVE  i1 = i2 /\ c1 = c2
  BY DEF Pairs
<1> DEFINE S == Nat \cup {VerifiedPrefix}
<1>1. PICK cb1 \in Seq(Nat) : cb1 = ColumnBytes(c1) /\ Len(cb1) = 2
  BY ColumnBytesSeq
<1>2. PICK cb2 \in Seq(Nat) : cb2 = ColumnBytes(c2) /\ Len(cb2) = 2
  BY ColumnBytesSeq
<1>3. /\ i1 \in Seq(Nat) /\ Len(i1) = IdLen
      /\ i2 \in Seq(Nat) /\ Len(i2) = IdLen
  BY BlobIdSeq
<1>4. /\ CreateBlobIdx(i1, cb1) = i1 \o cb1
      /\ CreateBlobIdx(i2, cb2) = i2 \o cb2
  BY <1>1, <1>2, <1>3 DEF CreateBlobIdx, IdxLen
<1>5. /\ i1 \o cb1 \in Seq(S) /\ i2 \o cb2 \in Seq(S) /\ VerifiedPrefix \in S
  <2>1. i1 \o cb1 \in Seq(Nat) /\ i2 \o cb2 \in Seq(Nat)
    BY <1>1, <1>2, <1>3, ConcatProperties
  <2>2. Nat \subseteq S
    OBVIOUS
  <2> QED
    BY <2>1, <2>2, SeqMonotonic, Zenon
<1>6. <<VerifiedPrefix>> \o (i1 \o cb1) = <<VerifiedPrefix>> \o (i2 \o cb2)
  BY <1>1, <1>2, <1>4 DEF VerifiedKey, KeyBytes
<1>7. i1 \o cb1 = i2 \o cb2
  BY <1>5, <1>6, PrefixCancel
<1>8. i1 = i2 /\ cb1 = cb2
  <2>1. Len(i1) = Len(i2)
    BY <1>3
  <2> QED
    BY <1>3, <1>7, <2>1, ConcatInjective
<1> QED
  BY <1>1, <1>2, <1>8, ColumnBytesInjective

-----------------------------------------------------------------------------
(* get_blob returns only verified blobs.                                   *)

\* The invariant that makes ReturnsOnlyVerified inductive: the storage
\* service holds exactly the keys of the verified pairs, every queued Load
\* carries the key of its sampler's request, and a TRUE reply was given
\* for a verified pair.
IInv ==
    /\ verified \subseteq Pairs
    /\ db = {VerifiedKey(p[1], p[2]) : p \in verified}
    /\ req \in [Samplers -> Pairs]
    /\ relay \in Seq([from : Samplers, key : KeySet])
    /\ \A i \in 1 .. Len(relay) :
          relay[i].key = VerifiedKey(req[relay[i].from][1], req[relay[i].from][2])
    /\ reply \in [Samplers -> {None, TRUE, FALSE}]
    /\ sampler \in [Samplers -> {"Idle", "Waiting", "Replied", "Done"}]
    /\ result \in [Samplers -> Results]
    /\ files \in [Pairs -> {Absent, Good, Corrupt}]
    /\ \A s \in Samplers : sampler[s] = "Replied" => reply[s] \in BOOLEAN
    /\ \A s \in Samplers : reply[s] = TRUE => req[s] \in verified
    /\ ReturnsOnlyVerified

\* The key of a pair, as a function of the pair.
PairKey(p) == VerifiedKey(p[1], p[2])

\* Two pairs with the same key are the same pair (KeyInjective).
LEMMA PairKeyInjective ==
  ASSUME NEW p \in Pairs, NEW q \in Pairs, PairKey(p) = PairKey(q)
  PROVE  p = q
BY KeyInjective DEF PairKey

\* The value for "no value" is none of the replies and results.
LEMMA NoneDistinct == None # TRUE /\ None # FALSE /\ None # "Some"
<1>1. None \notin BOOLEAN
  BY DaStorageAssumption
<1>2. None \notin {"Some", "NotFound", "Err"}
  BY DaStorageAssumption
<1> QED
  BY <1>1, <1>2

Msg == [from : Samplers, key : KeySet]

LEMMA InitIInv == Init => IInv
<1> SUFFICES ASSUME Init PROVE IInv
  OBVIOUS
<1>1. /\ verified \subseteq Pairs
      /\ db = {VerifiedKey(p[1], p[2]) : p \in verified}
      /\ req \in [Samplers -> Pairs]
  BY DEF Init
<1>2. /\ relay \in Seq([from : Samplers, key : KeySet])
      /\ \A i \in 1 .. Len(relay) :
            relay[i].key = VerifiedKey(req[relay[i].from][1], req[relay[i].from][2])
  <2>1. relay \in Seq([from : Samplers, key : KeySet]) /\ Len(relay) = 0
    BY EmptySeq DEF Init
  <2> QED
    BY <2>1
<1>3. /\ reply \in [Samplers -> {None, TRUE, FALSE}]
      /\ \A s \in Samplers : reply[s] = TRUE => req[s] \in verified
  BY NoneDistinct DEF Init
<1>4. /\ sampler \in [Samplers -> {"Idle", "Waiting", "Replied", "Done"}]
      /\ \A s \in Samplers : sampler[s] = "Replied" => reply[s] \in BOOLEAN
  BY DEF Init
<1>5. /\ result \in [Samplers -> Results]
      /\ ReturnsOnlyVerified
  BY NoneDistinct DEF Init, Results, ReturnsOnlyVerified
<1>6. files \in [Pairs -> {Absent, Good, Corrupt}]
  BY DEF Init
<1> QED
  BY <1>1, <1>2, <1>3, <1>4, <1>5, <1>6 DEF IInv

\* The storage service's answer to a Load is TRUE only for a verified pair.
LEMMA StorageLoadIInv ==
  ASSUME IInv, StorageLoad
  PROVE  IInv'
<1> DEFINE m == Head(relay)
<1>0. relay # << >> /\ relay \in Seq(Msg)
  BY DEF StorageLoad, IInv, Msg
<1>1. m \in Msg /\ Len(relay) \in Nat \ {0}
  BY <1>0, HeadTailProperties, EmptySeq
<1>2. m.key = PairKey(req[m.from])
  BY <1>0, <1>1 DEF IInv, PairKey
<1>3. (m.key \in db) => req[m.from] \in verified
  <2> SUFFICES ASSUME m.key \in db PROVE req[m.from] \in verified
    OBVIOUS
  <2>1. PICK p \in verified : m.key = PairKey(p)
    BY DEF IInv, PairKey
  <2>2. p \in Pairs /\ req[m.from] \in Pairs
    BY <1>1 DEF IInv, Msg
  <2> QED
    BY <1>2, <2>1, <2>2, PairKeyInjective
<1>4. relay' = Tail(relay) /\ relay' \in Seq(Msg) /\ Len(relay') = Len(relay) - 1
  BY <1>0, HeadTailProperties DEF StorageLoad
<1>5. /\ reply' = [reply EXCEPT ![m.from] = m.key \in db]
      /\ sampler' = [sampler EXCEPT ![m.from] = "Replied"]
      /\ UNCHANGED <<db, files, req, result, verified>>
  BY DEF StorageLoad
<1>6. \A i \in 1 .. Len(relay') :
        relay'[i].key = VerifiedKey(req'[relay'[i].from][1], req'[relay'[i].from][2])
  <2> TAKE i \in 1 .. Len(relay')
  <2>1. relay'[i] = relay[i + 1] /\ i + 1 \in 1 .. Len(relay)
    BY <1>0, <1>1, <1>4, HeadTailProperties
  <2> QED
    BY <1>5, <2>1 DEF IInv
<1>7. /\ reply' \in [Samplers -> {None, TRUE, FALSE}]
      /\ \A s \in Samplers : sampler'[s] = "Replied" => reply'[s] \in BOOLEAN
  <2>1. /\ reply \in [Samplers -> {None, TRUE, FALSE}]
        /\ sampler \in [Samplers -> {"Idle", "Waiting", "Replied", "Done"}]
        /\ \A s \in Samplers : sampler[s] = "Replied" => reply[s] \in BOOLEAN
        /\ m.from \in Samplers
    BY <1>1 DEF IInv, Msg
  <2>2. (m.key \in db) \in BOOLEAN
    OBVIOUS
  <2> QED
    BY <2>1, <2>2, <1>5, Zenon
<1>8. \A s \in Samplers : reply'[s] = TRUE => req'[s] \in verified'
  BY <1>1, <1>3, <1>5 DEF IInv, Msg
<1>9. sampler' \in [Samplers -> {"Idle", "Waiting", "Replied", "Done"}]
  BY <1>1, <1>5 DEF IInv, Msg
<1> QED
  BY <1>4, <1>5, <1>6, <1>7, <1>8, <1>9 DEF IInv, ReturnsOnlyVerified, Msg

\* SendLoad queues the key of the sampler's own request.
LEMMA SendLoadIInv ==
  ASSUME IInv, NEW s \in Samplers, SendLoad(s)
  PROVE  IInv'
<1> DEFINE msg == [from |-> s, key |-> VerifiedKey(req[s][1], req[s][2])]
<1>1. msg \in Msg
  BY DEF IInv, Msg, KeySet
<1>2. relay' = Append(relay, msg) /\ relay \in Seq(Msg)
  BY DEF SendLoad, IInv, Msg
<1>3. relay' \in Seq(Msg) /\ Len(relay') = Len(relay) + 1
      /\ \A i \in 1 .. Len(relay') : relay'[i] = IF i <= Len(relay) THEN relay[i] ELSE msg
  BY <1>1, <1>2, AppendProperties
<1>4. /\ sampler' = [sampler EXCEPT ![s] = "Waiting"]
      /\ UNCHANGED <<db, files, reply, req, result, verified>>
  BY DEF SendLoad
<1>5. \A i \in 1 .. Len(relay') :
        relay'[i].key = VerifiedKey(req'[relay'[i].from][1], req'[relay'[i].from][2])
  BY <1>2, <1>3, <1>4 DEF IInv
<1>6. /\ sampler' \in [Samplers -> {"Idle", "Waiting", "Replied", "Done"}]
      /\ \A t \in Samplers : sampler'[t] = "Replied" => reply'[t] \in BOOLEAN
  BY <1>4 DEF IInv
<1> QED
  BY <1>3, <1>4, <1>5, <1>6 DEF IInv, ReturnsOnlyVerified, Msg

\* A blob file written, or a pair marked verified, keeps the invariant.
LEMMA VerifierIInv ==
  ASSUME IInv, NEW p \in Pairs, WriteFile(p) \/ MarkVerified(p)
  PROVE  IInv'
<1>1. CASE WriteFile(p)
  <2>1. UNCHANGED <<db, relay, reply, sampler, req, result, verified>>
    BY <1>1 DEF WriteFile
  <2>2. files' \in [Pairs -> {Absent, Good, Corrupt}]
    BY <1>1 DEF WriteFile, IInv
  <2> QED
    BY <2>1, <2>2 DEF IInv, ReturnsOnlyVerified
<1>2. CASE MarkVerified(p)
  <2>1. UNCHANGED <<files, relay, reply, sampler, req, result>>
    BY <1>2 DEF MarkVerified
  <2>2. /\ verified' = verified \cup {p}
        /\ db' = {VerifiedKey(q[1], q[2]) : q \in verified'}
    BY <1>2 DEF MarkVerified, IInv
  <2> QED
    BY <2>1, <2>2 DEF IInv, ReturnsOnlyVerified
<1> QED
  BY <1>1, <1>2

LEMMA NextIInv == IInv /\ [Next]_vars => IInv'
<1> SUFFICES ASSUME IInv, [Next]_vars PROVE IInv'
  OBVIOUS
<1>1. CASE \E s \in Samplers : SendLoad(s)
  BY <1>1, SendLoadIInv
<1>2. CASE \E s \in Samplers : LoadFile(s)
  <2> PICK s \in Samplers : LoadFile(s)
    BY <1>2
  <2>1. reply[s] \in BOOLEAN
    BY DEF LoadFile, IInv
  <2>2. result'[s] = "Some" => reply[s] = TRUE
    BY <2>1 DEF LoadFile, IInv
  <2>3. result' \in [Samplers -> Results]
    BY DEF LoadFile, IInv, Results
  <2>4. /\ sampler' \in [Samplers -> {"Idle", "Waiting", "Replied", "Done"}]
        /\ \A t \in Samplers : sampler'[t] = "Replied" => reply'[t] \in BOOLEAN
    BY DEF LoadFile, IInv
  <2> QED
    BY <2>2, <2>3, <2>4 DEF LoadFile, IInv, ReturnsOnlyVerified
<1>3. CASE StorageLoad
  BY <1>3, StorageLoadIInv
<1>4. CASE \E p \in Pairs : WriteFile(p) \/ MarkVerified(p)
  BY <1>4, VerifierIInv
<1>5. CASE UNCHANGED vars
  BY <1>5 DEF vars, IInv, ReturnsOnlyVerified
<1> QED
  BY <1>1, <1>2, <1>3, <1>4, <1>5 DEF Next

\* get_blob returns a blob only for a (blob id, column) the verifier has
\* marked verified, for any number of samplers, blobs and columns: the
\* check of rocksdb.rs:70 gates the file read and the key names the pair.
THEOREM ReturnsOnlyVerifiedTheorem == Spec => []ReturnsOnlyVerified
<1>1. IInv => ReturnsOnlyVerified
  BY DEF IInv
<1> QED
  BY InitIInv, NextIInv, <1>1, PTL DEF Spec

\* The key of a (blob id, column) the verifier has marked names that pair
\* only, for every id length and column set (create_blob_idx, rocksdb.rs:93-99).
THEOREM BlobIdxInjectiveTheorem == Spec => []BlobIdxInjective
<1>1. IInv => BlobIdxInjective
  <2> SUFFICES ASSUME IInv, NEW p \in verified, NEW q \in Pairs,
                      PairKey(q) = PairKey(p)
               PROVE  q = p
    BY DEF BlobIdxInjective, PairKey
  <2>1. p \in Pairs
    BY DEF IInv
  <2> QED
    BY <2>1, PairKeyInjective
<1> QED
  BY InitIInv, NextIInv, <1>1, PTL DEF Spec

-----------------------------------------------------------------------------
(* Type correctness.                                                       *)

\* The storage relay never holds more than its capacity: SendLoad waits
\* for room (the bounded channel's send().await, rocksdb.rs:62-67).
\* The storage relay holds at most RelayCap messages.
RelayInv == Len(relay) <= RelayCap

LEMMA RelayBound == Spec => [](IInv /\ RelayInv)
<1>1. Init => RelayInv
  <2> SUFFICES ASSUME Init PROVE Len(relay) <= RelayCap
    BY DEF RelayInv
  <2>1. RelayCap \in Nat
    BY DaStorageAssumption
  <2> QED
    BY <2>1, EmptySeq DEF Init
<1>2. IInv /\ RelayInv /\ [Next]_vars => RelayInv'
  <2> SUFFICES ASSUME IInv, Len(relay) <= RelayCap, [Next]_vars
               PROVE  Len(relay') <= RelayCap
    BY DEF RelayInv
  <2>0. relay \in Seq(Msg) /\ RelayCap \in Nat
    BY DaStorageAssumption DEF IInv, Msg
  <2>1. CASE \E s \in Samplers : SendLoad(s)
    <3> PICK s \in Samplers : SendLoad(s)
      BY <2>1
    <3> DEFINE msg == [from |-> s, key |-> VerifiedKey(req[s][1], req[s][2])]
    <3>1. relay' = Append(relay, msg) /\ Len(relay) < RelayCap
      BY DEF SendLoad
    <3> QED
      BY <2>0, <3>1, AppendProperties
  <2>2. CASE StorageLoad
    BY <2>0, <2>2, HeadTailProperties, EmptySeq DEF StorageLoad
  <2>3. CASE ~(\E s \in Samplers : SendLoad(s)) /\ ~StorageLoad
    BY <2>3 DEF Next, vars, LoadFile, WriteFile, MarkVerified
  <2> QED
    BY <2>1, <2>2, <2>3
<1>3. IInv /\ RelayInv /\ [Next]_vars => IInv' /\ RelayInv'
  BY <1>2, NextIInv
<1> QED
  BY <1>1, <1>3, InitIInv, PTL DEF Spec

\* Every variable keeps its type in every reachable state, for every value
\* of the constants.
THEOREM TypeCorrect == Spec => []TypeOK
<1>1. IInv /\ RelayInv => TypeOK
  <2> SUFFICES ASSUME IInv, Len(relay) <= RelayCap PROVE TypeOK
    BY DEF RelayInv
  <2>1. db \subseteq KeySet
    BY DEF IInv, KeySet
  <2> QED
    BY <2>1 DEF IInv, TypeOK
<1> QED
  BY <1>1, RelayBound, PTL

=============================================================================
