------------------------------- MODULE MCData -------------------------------
(***************************************************************************)
(* What becomes of the data of a node, each part on its own: the requests  *)
(* that two replicas apply, a file that is loaded in chunks or booted      *)
(* from, the WAL that a snapshot takes, and the directories that the next  *)
(* start of the node finds.                                                *)
(***************************************************************************)
EXTENDS MCDatabase, NodeOpen, WalCompaction, Boot, Chunking

\* One file that ends with a whole chunk, and a shorter one.
MCFileLen == [s \in Streams |-> IF s = "a" THEN 4 ELSE 1]

VARIABLE part       \* the part this behaviour is about

fileVars == <<openVars, walVars, bootVars, chunkVars>>
dataVars == <<part, databaseVars, fileVars>>

\* A new node, where its directories do not matter.
NewNode == rsnapshots /\ latest = NoSnap /\ configEntry = 1 /\ peers = "none"

DataInit ==
    /\ part \in {"database", "open", "wal", "boot", "chunks"}
    /\ DatabaseInit /\ OpenInit /\ WalInit /\ BootInit /\ ChunkInit
    /\ part # "open" => NewNode

DataNext ==
    /\ UNCHANGED part
    /\ \/ part = "database" /\ DatabaseNext /\ UNCHANGED fileVars
       \/ /\ UNCHANGED databaseVars
          /\ \/ part = "open" /\ OpenNext /\ UNCHANGED <<walVars, bootVars, chunkVars>>
             \/ part = "wal" /\ WalNext /\ UNCHANGED <<openVars, bootVars, chunkVars>>
             \/ part = "boot" /\ BootNext /\ UNCHANGED <<openVars, walVars, chunkVars>>
             \/ part = "chunks" /\ ChunkNext /\ UNCHANGED <<openVars, walVars, bootVars>>

DataSpec == DataInit /\ [][DataNext]_dataVars
=============================================================================
