-------------------------- MODULE MCStorageCommit --------------------------
(***************************************************************************)
(* Small instances of StorageCommit for TLC.                               *)
(***************************************************************************)
EXTENDS StorageCommit, TLC

Symmetry == Permutations(Calls)

\* Every provider and mode, and where it makes a difference whether processing
\* keeps the extension.
AllSetups ==
    {s \in [provider : Providers, mode : {"server", "presigned"}, sameExt : BOOLEAN] :
        s.sameExt => s.provider = "local" /\ s.mode = "server"}

\* A multipart upload to the local disk that keeps its extension.
KeptExtension == [provider : {"local"}, mode : {"server"}, sameExt : {TRUE}]
=============================================================================
