------------------------------- MODULE MCLocking -------------------------------
(* Three threads and every call that keeps the order of the locks. *)
EXTENDS Locking

CONSTANTS t1, t2, t3

MCThread == {t1, t2, t3}

MCCalls == {"blocks", "block", "tx", "relayed", "idle", "template", "get_info",
            "get_objects", "pop_blocks", "checkpoints"}
\* and one whose blocks do not pass a checkpoint
MCRollback == MCCalls \cup {"rollback"}
================================================================================
