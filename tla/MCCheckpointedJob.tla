-------------------------- MODULE MCCheckpointedJob --------------------------
(* Three objects, the third with the entry path of the first. *)
EXTENDS CheckpointedJob

CONSTANTS a, b

MCNames == {a, b}
MCName == [o \in Objects |-> IF o = 2 THEN b ELSE a]

Setup(concurrency, kind) == [concurrency |-> concurrency, store |-> kind]

MCSetups == {Setup(1, "sql"), Setup(1, "redis"), Setup(2, "file"), Setup(2, "redis")}
MCOneByOne == {Setup(1, "sql")}
MCParallelSql == {Setup(2, "sql")}
=============================================================================
