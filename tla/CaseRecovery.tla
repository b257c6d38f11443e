----------------------------- MODULE CaseRecovery -----------------------------
(* The agent console keeps the data of one source healthy                    *)
(* (lib/agent-console): a scheduled check opens a case, a member asks for    *)
(* its recovery, a worker imports under a lease of the operation, and a      *)
(* verification closes the case.  Each action of the console is one          *)
(* serializable transaction (agentConsoleTransaction), which is all or       *)
(* nothing; a refusal changes nothing and is left out.                       *)
EXTENDS Naturals

CONSTANTS Episodes,     \* 1 .. n: the cases of one fingerprint
          Operations,   \* 1 .. n: its recoveries, in the order they are asked for
          Workers,      \* 1 .. n: executions of the import worker, one claim each
          NoWorker,
          MaxLosses     \* AgentOperation.maxAttempts

ASSUME RecoveryAssumption ==
    /\ Episodes \subseteq Nat \ {0} /\ Operations \subseteq Nat \ {0} /\ Workers \subseteq Nat \ {0}
    /\ NoWorker \notin Workers
    /\ MaxLosses \in Nat \ {0}

VARIABLES responsibility,  \* AgentResponsibility and the authorization of its policy revision
          agentCase,       \* AgentCase: its state and resolutionType
          operation,       \* AgentOperation rows of submit_recovery_import
          recoveryJob,     \* the WarehouseImportJob each operation is bound to
          worker,
          page             \* what a member's browser has loaded

recoveryVars == <<responsibility, agentCase, operation, recoveryJob, worker, page>>

(* Responsibility and authorization together: active or paused (disabled)    *)
(* under an authorization that is valid and for the current scope, or not.   *)
Standings == {"unauthorized", "active", "paused"}

OperationType == [state : {"none", "queued", "running", "completed", "failed"},
                  of : Episodes \cup {0},
                  owner : Workers \cup {NoWorker}, live : BOOLEAN,
                  attempts : 0 .. MaxLosses,
                  policy : BOOLEAN,   \* policyRevision and scopeHash are the current ones
                  latest : BOOLEAN]   \* operationKey names the current version of the case

(* A job whose lease has expired is "queued" here: the fences refuse both,   *)
(* a claim takes either.                                                     *)
RecoveryJobType == [status : {"none", "queued", "running", "completed", "ended"},
                    leaseId : Workers \cup {NoWorker}]

(* The version a browser sends is compared with that of the case: `current`  *)
(* says that they are equal, `unseen` that a finding was recorded since.     *)
PageType == [current : BOOLEAN, unseen : BOOLEAN]

(* The rows hold values of their kinds; an operation that is being worked on *)
(* names its worker, and at most one case of a fingerprint is open.          *)
RecoveryTypeOK ==
    /\ responsibility \in Standings
    /\ agentCase \in [Episodes -> {"none", "open", "manual", "verified"}]
    /\ \A d, e \in Episodes : agentCase[d] = "open" /\ agentCase[e] = "open" => d = e
    /\ operation \in [Operations -> OperationType]
    /\ \A o \in Operations : (operation[o].state = "running") = (operation[o].owner # NoWorker)
    /\ recoveryJob \in [Operations -> RecoveryJobType]
    /\ worker \in [Workers -> [pc : {"idle", "fence", "import", "verify", "over"},
                               op : Operations \cup {0}]]
    /\ page \in PageType

NoLease(row) == [row EXCEPT !.owner = NoWorker, !.live = FALSE]
JobRow(status) == [status |-> status, leaseId |-> NoWorker]

RecoveryInit ==
    /\ responsibility = "unauthorized"
    /\ agentCase = [e \in Episodes |-> "none"]
    /\ operation = [o \in Operations |->
           [state |-> "none", of |-> 0, owner |-> NoWorker, live |-> FALSE,
            attempts |-> 0, policy |-> FALSE, latest |-> FALSE]]
    /\ recoveryJob = [o \in Operations |-> JobRow("none")]
    /\ worker = [w \in Workers |-> [pc |-> "idle", op |-> 0]]
    /\ page = [current |-> FALSE, unseen |-> FALSE]

IsOpen(e) == agentCase[e] = "open"
Known(o) == operation[o].state # "none"
Authorized == responsibility = "active"

-----------------------------------------------------------------------------
(* The administrator's decisions.  Each also expects the version he has seen *)
(* of the responsibility: of two at once, one has to be taken again.         *)
Becomes(standing) ==
    /\ responsibility' = standing
    /\ UNCHANGED <<agentCase, recoveryJob, worker, page>>

ConfirmResponsibility ==
    /\ Becomes("active")
    /\ operation' = [o \in Operations |-> [operation[o] EXCEPT !.policy = FALSE]]

UpdateStatus ==
    /\ \/ responsibility = "active" /\ Becomes("paused")
       \/ responsibility = "paused" /\ Becomes("active")
    /\ UNCHANGED operation

UpdateScope == Becomes("unauthorized") /\ UNCHANGED operation

PolicyExpires ==
    /\ responsibility \in {"active", "paused"}
    /\ Becomes("unauthorized") /\ UNCHANGED operation

-----------------------------------------------------------------------------
(* Cases.                                                                    *)
LoadPage ==
    /\ page' = [current |-> TRUE, unseen |-> FALSE]
    /\ UNCHANGED <<responsibility, agentCase, operation, recoveryJob, worker>>

(* version: { increment: 1 } of a case.                                      *)
VersionMoves(e) ==
    operation' = [o \in Operations |-> [operation[o] EXCEPT !.latest = @ /\ operation[o].of # e]]

(* snooze and assign, of a resolved case too (the policy of data health      *)
(* allows no tool to investigate with).                                      *)
ActOnCase(e) ==
    /\ agentCase[e] # "none" /\ page.current
    /\ VersionMoves(e)
    /\ page' = [page EXCEPT !.current = FALSE]
    /\ UNCHANGED <<responsibility, agentCase, recoveryJob, worker>>

(* resolveCase: an episode that is resolved is not resolved another way.     *)
Resolvable(e) == IsOpen(e)

ResolveByHand(e) ==
    /\ page.current /\ Resolvable(e)
    /\ agentCase' = [agentCase EXCEPT ![e] = "manual"]
    /\ page' = [page EXCEPT !.current = FALSE]
    /\ VersionMoves(e)
    /\ UNCHANGED <<responsibility, recoveryJob, worker>>

(* executeScheduledDataHealthCheck finds a problem: the open case is         *)
(* observed again, or a new episode opens (openOrUpdateCase).                *)
Reobserved(e) == VersionMoves(e) /\ page' = [page EXCEPT !.unseen = TRUE, !.current = FALSE]

CheckFindsProblem ==
    /\ Authorized
    /\ \/ \E e \in Episodes : IsOpen(e) /\ Reobserved(e) /\ UNCHANGED agentCase
       \/ \E e \in Episodes :
            /\ agentCase[e] = "none" /\ \A d \in Episodes : d < e => agentCase[d] \in {"manual", "verified"}
            /\ agentCase' = [agentCase EXCEPT ![e] = "open"]
            /\ page' = [page EXCEPT !.current = FALSE]
            /\ UNCHANGED operation
    /\ UNCHANGED <<responsibility, recoveryJob, worker>>

(* ... or that the source is well and the days are covered.                  *)
CheckClosesCase(e) ==
    /\ Authorized /\ IsOpen(e)
    /\ agentCase' = [agentCase EXCEPT ![e] = "verified"]
    /\ page' = [page EXCEPT !.current = FALSE]
    /\ VersionMoves(e)
    /\ UNCHANGED <<responsibility, recoveryJob, worker>>

-----------------------------------------------------------------------------
(* The action "recover" (prepareCaseRecovery, then                           *)
(* executeRecoveryImportOperation, in the transaction of the request).       *)

(* reconcileLostOperationLeases                                              *)
Reconciled(o) ==
    LET row == operation[o]
    IN  IF row.state # "running" \/ row.live THEN row
        ELSE [NoLease(row) EXCEPT !.attempts = @ + 1,
                                  !.state = IF row.attempts + 1 >= MaxLosses THEN "failed" ELSE "queued"]

JobIsTerminal(o) == recoveryJob[o].status \in {"completed", "ended"}

(* The operation of this version of the case, or the next new one.           *)
Prepared(e, o) ==
    \/ Known(o) /\ operation[o].of = e /\ operation[o].latest /\ operation[o].policy
    \/ /\ ~Known(o) /\ \A p \in Operations : p < o => Known(p)
       /\ \A p \in Operations : ~(operation[p].of = e /\ operation[p].latest)

Enqueued(e, o) ==
    IF Known(o) THEN Reconciled(o)
    ELSE [operation[o] EXCEPT !.state = "queued", !.of = e, !.policy = TRUE, !.latest = TRUE]

Dispatchable(row, o) == row.state = "queued" \/ (row.state = "running" /\ JobIsTerminal(o))

(* A job that has ended is queued again, a job in progress is left alone.    *)
RecoverCase(e, o) ==
    LET again == recoveryJob[o].status \notin {"queued", "running"}
        row == Enqueued(e, o)
    IN  /\ page.current /\ IsOpen(e) /\ Authorized
        /\ Prepared(e, o) /\ Dispatchable(row, o)
        /\ operation' = [p \in Operations |->
               IF p # o THEN Reconciled(p)
               ELSE IF again THEN [NoLease(row) EXCEPT !.state = "queued"] ELSE row]
        /\ recoveryJob' = IF again THEN [recoveryJob EXCEPT ![o] = JobRow("queued")] ELSE recoveryJob
        /\ UNCHANGED <<responsibility, agentCase, worker, page>>

-----------------------------------------------------------------------------
(* The import worker (runDurableImportWorker) as far as it concerns these    *)
(* rows; the import itself is module ImportWorker.                           *)
StandsAt(w, point) ==
    worker' = [worker EXCEPT ![w] = [pc |-> point, op |-> IF point = "over" THEN 0 ELSE @.op]]

HoldsJob(w) == LET row == recoveryJob[worker[w].op]
               IN  row.status = "running" /\ row.leaseId = w

ClaimRecoveryJob(w, o) ==
    /\ worker[w].pc = "idle" /\ \A v \in Workers : v < w => worker[v].pc # "idle"   \* named as they claim
    /\ recoveryJob[o].status = "queued"
    /\ recoveryJob' = [recoveryJob EXCEPT ![o] = [status |-> "running", leaseId |-> w]]
    /\ worker' = [worker EXCEPT ![w] = [pc |-> "fence", op |-> o]]
    /\ UNCHANGED <<responsibility, agentCase, operation, page>>

(* heartbeatRecoveryOperationLease: before the first request to the provider *)
(* and then every ten seconds; what it refuses ends the execution.           *)
PolicyIgnored(o) == TRUE
PolicyInForce(o) == Authorized /\ operation[o].policy

LeaseOpen(o, w) == operation[o].state # "none"
LeaseFree(o, w) ==
    \/ operation[o].state = "queued"
    \/ operation[o].state = "running" /\ (operation[o].owner = w \/ ~operation[o].live)

HeartbeatRecovery(w) ==
    LET o == worker[w].op
        renews == HoldsJob(w) /\ PolicyInForce(o) /\ LeaseFree(o, w)
    IN  /\ worker[w].pc \in {"fence", "import"}
        /\ \/ /\ renews
              /\ operation' = [operation EXCEPT ![o].state = "running", ![o].owner = w, ![o].live = TRUE]
              /\ StandsAt(w, "import")
           \/ ~renews /\ StandsAt(w, "over") /\ UNCHANGED operation
        /\ UNCHANGED <<responsibility, agentCase, recoveryJob, page>>

(* completeImportJob, retryPartialImportJob or failImportJob, the last also  *)
(* when the first heartbeat meets an error that is not about its lease.      *)
FinishImport(w) ==
    /\ worker[w].pc \in {"fence", "import"}
    /\ \/ /\ HoldsJob(w)
          /\ \E status \in {"completed", "ended", "queued"} :
              /\ status = "completed" => worker[w].pc = "import"
              /\ recoveryJob' = [recoveryJob EXCEPT ![worker[w].op] = JobRow(status)]
              /\ StandsAt(w, IF status = "completed" THEN "verify" ELSE "over")
       \/ ~HoldsJob(w) /\ StandsAt(w, "over") /\ UNCHANGED recoveryJob
    /\ UNCHANGED <<responsibility, agentCase, operation, page>>

(* verifyTargetDataHealthAndCoverage; what it finds in the warehouse may     *)
(* prove the recovery or not.                                                *)
JobUnproven(o) == TRUE
JobProven(o) == recoveryJob[o].status = "completed"

(* verifyRecoveryAndCloseCase: operation and case change together, or, if    *)
(* the data does not prove the recovery or somebody was faster, not at all.  *)
VerifyAndClose(w) ==
    LET o == worker[w].op IN
    /\ worker[w].pc = "verify"
    /\ StandsAt(w, "over")
    /\ \/ /\ JobProven(o)
          /\ operation[o].state = "running" /\ operation[o].live
          /\ Resolvable(operation[o].of)
          /\ agentCase' = [agentCase EXCEPT ![operation[o].of] = "verified"]
          /\ operation' = [operation EXCEPT ![o] = [NoLease(@) EXCEPT !.state = "completed"]]
          /\ page' = [page EXCEPT !.current = FALSE]
       \/ UNCHANGED <<agentCase, operation, page>>
    /\ UNCHANGED <<responsibility, recoveryJob>>

WorkerDies(w) ==
    /\ worker[w].pc \in {"fence", "import", "verify"}
    /\ StandsAt(w, "over")
    /\ UNCHANGED <<responsibility, agentCase, operation, recoveryJob, page>>

(* A minute passes without a heartbeat.                                      *)
LeasesRunOut(o) ==
    /\ \/ /\ operation[o].live
          /\ operation' = [operation EXCEPT ![o].live = FALSE] /\ UNCHANGED recoveryJob
       \/ /\ recoveryJob[o].status = "running"
          /\ recoveryJob' = [recoveryJob EXCEPT ![o] = JobRow("queued")] /\ UNCHANGED operation
    /\ UNCHANGED <<responsibility, agentCase, worker, page>>

-----------------------------------------------------------------------------
RecoveryNext ==
    \/ ConfirmResponsibility \/ UpdateStatus \/ UpdateScope \/ PolicyExpires
    \/ LoadPage \/ CheckFindsProblem
    \/ \E e \in Episodes : \/ ActOnCase(e) \/ ResolveByHand(e) \/ CheckClosesCase(e)
                           \/ \E o \in Operations : RecoverCase(e, o)
    \/ \E w \in Workers : \/ HeartbeatRecovery(w) \/ FinishImport(w) \/ VerifyAndClose(w)
                          \/ WorkerDies(w)
                          \/ \E o \in Operations : ClaimRecoveryJob(w, o)
    \/ \E o \in Operations : LeasesRunOut(o)

RecoverySpec == RecoveryInit /\ [][RecoveryNext]_recoveryVars

(* The timers of the living workers fire (one of them; less than each).      *)
RecoveryFairness == WF_recoveryVars(\E w \in Workers : HeartbeatRecovery(w))

-----------------------------------------------------------------------------
(* Each episode is resolved once: a late verification never replaces the     *)
(* verdict of a member, nor the other way round, and nobody closes it over a *)
(* finding recorded after the page he decided on was loaded.  And operations *)
(* that were given up or completed are never worked on again, by a request   *)
(* that prepares one again or a worker that still has its job.               *)
VerdictsStand ==
    [][/\ \A e \in Episodes : /\ agentCase[e] \in {"manual", "verified"} => agentCase'[e] = agentCase[e]
                              /\ IsOpen(e) /\ agentCase'[e] = "manual" => ~page.unseen
       /\ \A o \in Operations : operation[o].state \in {"completed", "failed"}
                                  => operation'[o].state = operation[o].state]_recoveryVars

(* A completed operation stands for an import that is completed, was not     *)
(* queued again by a request and is not being repeated, and for a case that  *)
(* the system has closed.                                                    *)
CompletedMeansImported ==
    \A o \in Operations : operation[o].state = "completed" =>
        recoveryJob[o].status = "completed" /\ agentCase[operation[o].of] = "verified"

(* A pause, a new scope or the end of the policy reaches every worker, though*)
(* nothing tells it: it does not import for ever without an authorization.   *)
PauseReachesWorkers == []<>(Authorized \/ \A w \in Workers : worker[w].pc # "import")
=============================================================================
