---------------------------- MODULE MC_DaStorage ----------------------------
(* Two blobs of 2-byte ids, two columns whose big-endian bytes are <<0, 0>> *)
(* and <<1, 0>>, two concurrent get_blob calls and a relay of one slot.    *)
EXTENDS DaStorage

CONSTANTS s1, s2

MC_BlobIds == {<<0, 1>>, <<1, 0>>}
MC_IdLen == 2
MC_Columns == {0, 256}
MC_Samplers == {s1, s2}
MC_RelayCap == 1
=============================================================================
