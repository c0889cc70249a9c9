------------------------------- MODULE JobLife -------------------------------
(***************************************************************************)
(* What a ScanStore promises of its scans (internal/server/store/store.go  *)
(* and the statuses that ScanJob lists there), to everyone who reads one:  *)
(* a scan is queued once, may be seen running, ends once and for all, and  *)
(* is lost only with a process that kept it in memory.  One scan changes   *)
(* at a time.                                                              *)
(*                                                                         *)
(* ScanJobs implements this specification (ScanJobsProofs proves it).      *)
(***************************************************************************)
EXTENDS Naturals

CONSTANT Ids        \* the scans

VARIABLES status,   \* ScanJob.Status, "none" for a scan that is not stored
          durable,  \* whether the store outlives the process
          restarts  \* how often the process was started again

life == <<status, durable, restarts>>

LifeInit ==
    /\ status = [id \in Ids |-> "none"]
    /\ durable \in BOOLEAN
    /\ restarts = 0

Becomes(id, new) ==
    /\ status' = [status EXCEPT ![id] = new]
    /\ UNCHANGED <<durable, restarts>>

Enqueue(id) == status[id] = "none" /\ Becomes(id, "queued")

Run(id) == status[id] = "queued" /\ Becomes(id, "running")

\* A scan whose UpdateStatus was lost ends without having been seen running.
End(id) ==
    /\ status[id] \in {"queued", "running"}
    /\ \E how \in {"complete", "failed"} : Becomes(id, how)

Restart ==
    /\ restarts' = restarts + 1
    /\ status' = IF durable THEN status ELSE [id \in Ids |-> "none"]
    /\ UNCHANGED durable

LifeNext == Restart \/ \E id \in Ids : Enqueue(id) \/ Run(id) \/ End(id)

LifeSpec == LifeInit /\ [][LifeNext]_life
=============================================================================
