------------------------------ MODULE ImportJob ------------------------------
(***************************************************************************)
(* The parent row of a warehouse import (model WarehouseImportJob) and the *)
(* statements of src/lib/warehouse-import-job.ts that change it.  Every    *)
(* statement is one guarded updateMany, so each operator below is one      *)
(* atomic step.                                                            *)
(*                                                                         *)
(* A claim draws a fresh UUID as lease id.  Here the lease id IS the run   *)
(* that was started by the claim: a run is one execution of                *)
(* runDurableImportWorker, and no two runs share a lease.  The clock is    *)
(* abstracted to the bit `live`: leaseExpiresAt >= now.  It turns FALSE    *)
(* when the lease expires; a heartbeat of a live lease only postpones that *)
(* moment, so it leaves the bit alone.                                     *)
(***************************************************************************)
EXTENDS ImportRows

CONSTANT MaxRetries   \* WarehouseImportJob.maxRetries

ASSUME MaxRetriesAssumption == MaxRetries \in Nat

VARIABLES job,      \* status, leaseId, live, retryCount
          results   \* the JSON receipts the UI shows: the slices they report ok

JobTerminal == {"completed", "partial", "failed"}
JobStatus == {"queued", "running"} \cup JobTerminal

JobType == [status : JobStatus, leaseId : Runs \cup {NoRun}, live : BOOLEAN,
            retryCount : 0 .. MaxRetries]

(* createImportJob: queued, no receipts, never claimed.                    *)
JobInit ==
    /\ job = [status |-> "queued", leaseId |-> NoRun, live |-> FALSE, retryCount |-> 0]
    /\ results = {}

(* The WHERE clause shared by heartbeat, progress, complete and fail.      *)
OwnsJob(r) == /\ job.status = "running"
              /\ job.leaseId = r
              /\ job.live

JobClaimable == \/ job.status = "queued"
                \/ job.status = "running" /\ ~job.live

(* The row after a write that ends the ownership.                          *)
Relinquished(status) == [job EXCEPT !.status = status, !.leaseId = NoRun, !.live = FALSE]

(* claimImportJob / claimNextImportJob.  The retry backoff (scheduledAt)   *)
(* only delays a claim, so it is not modelled.                             *)
ClaimImportJob(r) ==
    /\ JobClaimable
    /\ job' = [job EXCEPT !.status = "running", !.leaseId = r, !.live = TRUE]
    /\ UNCHANGED results

(* updateImportJobProgress: replaces the receipts, under the lease.        *)
UpdateImportJobProgress(r, receipts) ==
    /\ OwnsJob(r)
    /\ results' = receipts
    /\ UNCHANGED job

(* completeImportJob: the only fenced terminal write with an outcome.      *)
CompleteImportJob(r, outcome, receipts) ==
    /\ OwnsJob(r)
    /\ job' = Relinquished(outcome)
    /\ results' = receipts

(* failImportJob: requeue while retries remain, else permanently failed.   *)
FailImportJobOnceMore(r) ==
    /\ OwnsJob(r)
    /\ job' = IF job.retryCount <= MaxRetries
              THEN [Relinquished("queued") EXCEPT !.retryCount = @ + 1]
              ELSE Relinquished("failed")
    /\ UNCHANGED results
FailImportJob(r) ==
    /\ OwnsJob(r)
    /\ job' = IF job.retryCount < MaxRetries
              THEN [Relinquished("queued") EXCEPT !.retryCount = @ + 1]
              ELSE Relinquished("failed")
    /\ UNCHANGED results

(* Step 1 of the warehouse-jobs cron: requeue jobs whose lease expired.    *)
RecoverAnyStatus ==
    /\ ~job.live
    /\ job' = Relinquished("queued")
    /\ UNCHANGED results
RecoverExpiredJob ==
    /\ job.status = "running" /\ ~job.live
    /\ job' = Relinquished("queued")
    /\ UNCHANGED results

(* Time passes: the owner has not renewed for 60 s.                        *)
ExpireJobLease ==
    /\ job.status = "running" /\ job.live
    /\ job' = [job EXCEPT !.live = FALSE]
    /\ UNCHANGED results
=============================================================================
