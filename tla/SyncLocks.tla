------------------------------ MODULE SyncLocks ------------------------------
(***************************************************************************)
(* The SyncLock table: one row per scope, and the statements of            *)
(* src/lib/meta-sync-lock.ts and src/lib/connection-sync-lease.ts on it.   *)
(* Claim and release run in a transaction under an advisory lock, the      *)
(* others are single statements: each is one atomic step here.             *)
(*                                                                         *)
(* A claim draws a fresh UUID as lease id.  A worker claims a scope at     *)
(* most once, so the lease id is the worker.  `live` is the test           *)
(* leaseExpiresAt > now.                                                   *)
(***************************************************************************)
EXTENDS Integers

CONSTANTS Scopes,    \* the connection itself and each of its ad accounts
          Workers,   \* executions of syncConnectionData
          NoWorker   \* the lease id of a row that does not exist yet

ASSUME NoWorkerAssumption == NoWorker \notin Workers

VARIABLE lock

LockType == [status : {"absent", "running", "released"}, leaseId : Workers \cup {NoWorker},
             fence : Nat, live : BOOLEAN]

Absent == [status |-> "absent", leaseId |-> NoWorker, fence |-> 0, live |-> FALSE]
LockInit == lock = [s \in Scopes |-> Absent]

(* acquireMetaSyncLock / acquireConnectionSyncLease: refused only while    *)
(* the row is running and not expired; a claim or theft moves the fence.   *)
FreeUnlessRunning(s) == lock[s].status # "running"
Free(s) == ~(lock[s].status = "running" /\ lock[s].live)
ClaimLock(s, w) ==
    /\ Free(s)
    /\ lock' = [lock EXCEPT ![s] = [status |-> "running", leaseId |-> w,
                                    fence |-> lock[s].fence + 1, live |-> TRUE]]

(* heartbeatMetaSyncLock has no expiry test: it also revives an expired    *)
(* lease that nobody has taken yet.                                        *)
Holds(s, w) == lock[s].status = "running" /\ lock[s].leaseId = w
HeartbeatLock(s, w) ==
    /\ Holds(s, w)
    /\ lock' = [lock EXCEPT ![s].live = TRUE]

(* assertMetaSyncLease / assertConnectionSyncLease, and the lease_ok clause*)
(* of the bulk statement.                                                  *)
OwnsIgnoringToken(s, w, token) == lock[s].status = "running" /\ lock[s].live
Owns(s, w, token) == Holds(s, w) /\ lock[s].live /\ lock[s].fence = token

(* releaseMetaSyncLock / releaseConnectionSyncLease: by lease id, whatever *)
(* the status; skipped when the advisory lock is busy.  The outcome that   *)
(* names the status ("released" or "failed") is read by nobody.            *)
ReleaseLock(s, w) ==
    \/ /\ lock[s].leaseId = w
       /\ lock' = [lock EXCEPT ![s] = [@ EXCEPT !.status = "released", !.live = FALSE]]
    \/ UNCHANGED lock

(* The force option of the sync route: every row of the connection is kept,*)
(* with its fence.                                                         *)
ForceUnlockByDelete == lock' = [s \in Scopes |-> Absent]
ForceUnlock ==
    lock' = [s \in Scopes |-> IF lock[s].status = "absent" THEN lock[s]
                              ELSE [lock[s] EXCEPT !.status = "released", !.live = FALSE]]

(* Time passes: 20 minutes without a renewal.                              *)
ExpireLock(s) ==
    /\ lock[s].status = "running" /\ lock[s].live
    /\ lock' = [lock EXCEPT ![s].live = FALSE]
=============================================================================
