---------------------------- MODULE MCIngestion ----------------------------
(***************************************************************************)
(* Instances of IngestionTasks for TLC.                                    *)
(***************************************************************************)
EXTENDS IngestionTasks, TLC

CONSTANTS t1, k1, k2, w1, w2, o1, l1, l2, l3

\* One task published twice, so that two Celery ids compete for its row.
OneTaskOf == (k1 :> t1) @@ (k2 :> t1)

SoloTaskOf == k1 :> t1

AnyFault == {"child_lost", "worker_lost", "duplicate", "database", "broker", "cache"}

\* Processes and lease names, and the ids of a doubly published task, are
\* interchangeable in safety runs.
Symmetric == Permutations({w1, w2}) \cup Permutations({l1, l2, l3})
SymmetricIds == Symmetric \cup Permutations({k1, k2})
=============================================================================
