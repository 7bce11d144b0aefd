--------------------------- MODULE MCStorageSpokes ---------------------------
(* The storage service and the spokes, with cells for every model a run of *)
(* three partitioning modules can name at once.                            *)
EXTENDS StorageSpokes

MCCell == 1 .. 9
=============================================================================
