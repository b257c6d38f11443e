---------------------------- MODULE PilotBackfill ----------------------------
(***************************************************************************)
(* An extended backfill of the pilot                                       *)
(* (lib/extended-backfill-pilot-lifecycle.ts): the rows of ImportJob and   *)
(* BackfillChunks, driven by runPilotBackfillJob and by an operator who    *)
(* pauses, resumes and cancels beside it.  One action is one statement,    *)
(* with what the code decides from it.  The JSON receipts are left out.    *)
(***************************************************************************)
EXTENDS ImportJob, BackfillChunks, FiniteSets

CONSTANTS NoSlice,
          Operators,   \* requests of the operator that can overlap
          ChunkCap     \* the smaller of the two concurrency limits

ASSUME PilotAssumption == NoSlice \notin Chunks /\ ChunkCap \in Nat \ {0}

VARIABLES exec,       \* the execute requests
          operator,   \* the pause, resume and cancel requests
          late        \* history: executions whose slice was claimed when the
                      \* job no longer ran, and has not been taken up since

pilotVars == <<job, results, chunk, exec, operator, late>>

Paused == {"paused", "pause_requested"}
Cancelled == {"cancelled", "partial_cancelled"}
PilotTerminal == JobTerminal \cup Cancelled

ExecLoop == {"loop", "take", "verify", "drain", "settlePause"}
ExecSlice == {"contact", "reportDone", "reportError", "complete", "failChunk"}
ExecTail == {"wrapUp", "finish", "settle", "dropLease"}
ExecRunning == {"sweep", "sweepQueued"} \cup ExecLoop \cup ExecSlice \cup ExecTail

ExecType == [pc : {"idle", "done", "aborted"} \cup ExecRunning,
             cur : Chunks \cup {NoSlice}]

OperatorType == [pc : {"idle", "pauseList", "pauseWrite", "resumeWrite",
                       "cancelQueued", "cancelList", "cancelWrite"},
                 seen : JobStatus \cup Paused \cup {"none"},
                 next : Paused \cup Cancelled \cup {"none"}]

(* The rows and locals hold values of their kinds; an execution that treats  *)
(* a slice has one.                                                          *)
PilotTypeOK ==
    /\ job \in [status : JobStatus \cup Paused \cup Cancelled,
                leaseId : Runs \cup {NoRun}, live : BOOLEAN, retryCount : {0}]
    /\ chunk \in [Chunks -> [status : ChunkStatus \cup {"cancelled"},
                             leaseId : Runs \cup {NoRun}, live : BOOLEAN,
                             fencingToken : Nat, attempts : 0 .. MaxAttempts,
                             lastError : BOOLEAN]]
    /\ exec \in [Runs -> ExecType]
    /\ \A r \in Runs : exec[r].pc \in ExecSlice \cup {"verify"} => exec[r].cur \in Chunks
    /\ operator \in [Operators -> OperatorType]
    /\ late \subseteq Runs

ExecAt(r, point) == exec[r].pc = point
Fresh(point) == [pc |-> point, cur |-> NoSlice]
Proceed(r, point) == exec' = [exec EXCEPT ![r].pc = point]
Leave(r, how) == exec' = [exec EXCEPT ![r] = Fresh(how)]
TakesUnnoted(r, c) == Proceed(r, "verify")
Takes(r, c) == exec' = [exec EXCEPT ![r].pc = "verify", ![r].cur = c]
NoRequest == [pc |-> "idle", seen |-> "none", next |-> "none"]

PilotInit ==
    /\ JobInit
    /\ ChunkInit
    /\ exec = [r \in Runs |-> Fresh("idle")]
    /\ operator = [o \in Operators |-> NoRequest]
    /\ late = {}

rows == <<job, results, chunk>>
-----------------------------------------------------------------------------
(* The execute route.  Its gate on the running slices is left out: the same  *)
(* limit is enforced by TakeSlice, in the transaction of every claim.        *)
RunningSlices == Cardinality(WithStatus("running"))

ClaimParent(r) ==
    /\ ExecAt(r, "idle")
    /\ ClaimImportJob(r)
    /\ Proceed(r, "sweep") /\ late' = {}
    /\ UNCHANGED <<chunk, operator>>

SweepPilot(r) ==
    /\ \/ ExecAt(r, "sweep") /\ SweepExhaustedChunks /\ Proceed(r, "sweepQueued")
       \/ ExecAt(r, "sweepQueued") /\ FailExhaustedQueuedChunks /\ Proceed(r, "loop")
    /\ UNCHANGED <<job, results, operator, late>>

(* The top of the loop.  A heartbeat that failed before (parentLeaseHealthy, *)
(* which may be false at any time) throws past every clean-up; a job that no *)
(* longer runs or a used up budget of slices ends the loop.                  *)
LoopTop(r) ==
    /\ ExecAt(r, "loop")
    /\ \/ Leave(r, "aborted")
       \/ job.status = "running" /\ Proceed(r, "take")
       \/ Proceed(r, "wrapUp")
    /\ UNCHANGED <<rows, operator, late>>

(* claimNextBackfillChunk in its transaction under the advisory lock of the  *)
(* workspace: the candidate, the caps, the attempts, the guarded update.     *)
TakeSlice(r) ==
    /\ ExecAt(r, "take")
    /\ \/ /\ RunningSlices >= ChunkCap \/ (\A c \in Chunks : ~Claimable(c))
          /\ Proceed(r, "wrapUp") /\ UNCHANGED <<chunk, late>>
       \/ /\ RunningSlices < ChunkCap
          /\ \E c \in Chunks : /\ IsCandidate(c) /\ Exhausted(c)
                               /\ Proceed(r, "sweepQueued") /\ UNCHANGED <<chunk, late>>
       \/ /\ RunningSlices < ChunkCap
          /\ \E c \in Chunks : /\ IsCandidate(c) /\ ~Exhausted(c)
                               /\ ClaimBackfillChunk(c, r)
                               /\ Takes(r, c)
          /\ late' = IF job.status = "running" THEN late \ {r} ELSE late \cup {r}
    /\ UNCHANGED <<job, results, operator>>

(* The re-verification after the claim.  A slice that must not be executed   *)
(* (the job has stopped, or a heartbeat has failed) is released, if it is    *)
(* still this execution's.                                                   *)
ReleaseSlice(r) ==
    LET c == exec[r].cur IN
    /\ chunk' = IF chunk[c].status = "running" /\ chunk[c].leaseId = r
                THEN [chunk EXCEPT ![c] = Settled(@, "queued", @.lastError)] ELSE chunk
    /\ Leave(r, "wrapUp")

VerifyHealthOnly(r) ==
    /\ ExecAt(r, "verify")
    /\ \/ Proceed(r, "contact") /\ UNCHANGED chunk
       \/ ReleaseSlice(r)
    /\ UNCHANGED <<job, results, operator, late>>
Verify(r) ==
    /\ ExecAt(r, "verify")
    /\ \/ job.status = "running" /\ Proceed(r, "contact") /\ UNCHANGED chunk
       \/ ReleaseSlice(r)
    /\ UNCHANGED <<job, results, operator, late>>

-----------------------------------------------------------------------------
(* createWarehouseChunkExecutor as the route builds it: the provider, then   *)
(* updateImportJobProgress under the parent lease, whose refusal is a        *)
(* LeaseLostError that leaves the slice as it is.                            *)
Contact(r) ==
    /\ ExecAt(r, "contact")
    /\ Proceed(r, "reportDone") \/ Proceed(r, "reportError")
    /\ UNCHANGED <<rows, operator, late>>

Reports(r) == ExecAt(r, "reportDone") \/ ExecAt(r, "reportError")
ReportSlice(r) ==
    /\ Reports(r)
    /\ \/ /\ UpdateImportJobProgress(r, {})
          /\ Proceed(r, IF ExecAt(r, "reportDone") THEN "complete" ELSE "failChunk")
       \/ ~OwnsJob(r) /\ Leave(r, "aborted") /\ UNCHANGED <<job, results>>
    /\ UNCHANGED <<chunk, operator, late>>

SettleSlice(r) ==
    LET c == exec[r].cur
        token == chunk[c].fencingToken
    IN  /\ \/ ExecAt(r, "complete") /\ CompleteBackfillChunk(c, r, token, FALSE)
           \/ ExecAt(r, "failChunk") /\ FailBackfillChunk(c, r, token)
           \/ /\ exec[r].pc \in {"complete", "failChunk"}
              /\ ~FencingGuard(c, r, token) /\ UNCHANGED chunk
        /\ Leave(r, "drain")
        /\ UNCHANGED <<job, results, operator, late>>

(* A requested pause is settled once no slice is running.                    *)
Drain(r) ==
    /\ ExecAt(r, "drain")
    /\ Proceed(r, IF WithStatus("running") = {} THEN "settlePause" ELSE "loop")
    /\ UNCHANGED <<rows, operator, late>>

SettlePause(r) ==
    /\ ExecAt(r, "settlePause")
    /\ \/ /\ job.status = "pause_requested"
          /\ job' = [job EXCEPT !.status = "paused"] /\ Proceed(r, "wrapUp")
       \/ job.status # "pause_requested" /\ Proceed(r, "loop") /\ UNCHANGED job
    /\ UNCHANGED <<results, chunk, operator, late>>

-----------------------------------------------------------------------------
(* After the loop: a verdict when every slice has one, else the job is given *)
(* back.  A verdict is never written over a slice that was cancelled.        *)
WholeButCancelled == WithStatus("queued") \cup WithStatus("running") = {}
Whole == WithStatus("queued") \cup WithStatus("running") \cup WithStatus("cancelled") = {}

WrapUp(r) ==
    /\ ExecAt(r, "wrapUp")
    /\ Proceed(r, IF Whole THEN "finish" ELSE "settle")
    /\ UNCHANGED <<rows, operator, late>>

(* The read of the job before it is the guard of the write.  The slices of a *)
(* finished job do not change any more, so the outcome is that of this step. *)
PilotOutcome == IF Completed = Chunks THEN "completed"
                ELSE IF Completed = {} THEN "failed" ELSE "partial"

FinishPilot(r) ==
    /\ ExecAt(r, "finish")
    /\ \/ CompleteImportJob(r, PilotOutcome, {}) /\ Leave(r, "done")
       \/ ~OwnsJob(r) /\ Proceed(r, "settle") /\ UNCHANGED <<job, results>>
    /\ UNCHANGED <<chunk, operator, late>>

(* settleParentLease: two guarded updates.                                   *)
GiveBackIfLive(r) == OwnsJob(r)
GiveBack(r) == job.status = "running" /\ job.leaseId = r

SettleParentLease(r) ==
    /\ ExecAt(r, "settle")
    /\ IF GiveBack(r) THEN job' = Relinquished("queued") /\ Leave(r, "done")
       ELSE Proceed(r, "dropLease") /\ UNCHANGED job
    /\ UNCHANGED <<results, chunk, operator, late>>

DropParentLease(r) ==
    /\ ExecAt(r, "dropLease")
    /\ job' = IF job.status \in Paused \cup Cancelled /\ job.leaseId = r
              THEN Relinquished(job.status) ELSE job
    /\ Leave(r, "done")
    /\ UNCHANGED <<results, chunk, operator, late>>

-----------------------------------------------------------------------------
(* Outside the treatment of a slice a failing statement ends the execution   *)
(* without giving the parent back; that of settleParentLease is swallowed.   *)
PilotStatementFails(r) ==
    /\ \/ exec[r].pc \in ExecSlice \ {"failChunk"} /\ Proceed(r, "failChunk")
       \/ ExecAt(r, "finish") /\ Proceed(r, "settle")
       \/ exec[r].pc \in (ExecRunning \ (ExecSlice \cup {"finish"})) \cup {"failChunk"} /\ Leave(r, "aborted")
    /\ UNCHANGED <<rows, operator, late>>

PilotCrash(r) ==
    /\ exec[r].pc \in ExecRunning
    /\ Leave(r, "aborted")
    /\ UNCHANGED <<rows, operator, late>>

(* The cron requeues every expired job, pilot or not; leases run out.        *)
PilotLeases ==
    /\ \/ RecoverExpiredJob /\ UNCHANGED chunk
       \/ ExpireJobLease /\ UNCHANGED chunk
       \/ \E c \in Chunks : ExpireChunkLease(c) /\ UNCHANGED <<job, results>>
    /\ UNCHANGED <<exec, operator, late>>

-----------------------------------------------------------------------------
(* pausePilotJob, resumePilotJob, cancelPilotJob: read, list, write on the   *)
(* condition that the status is still the one read.  After a conflict pause  *)
(* and cancel begin again, which is a request like the first one.            *)
Asks(o, point) == operator' = [operator EXCEPT ![o].pc = point]
Answers(o) == operator' = [operator EXCEPT ![o] = NoRequest]
WriteAnyStatus(o) == TRUE
Unmoved(o) == job.status = operator[o].seen

RequestOfOperator(o) ==
    /\ operator[o].pc = "idle"
    /\ \E point \in {"pauseList", "cancelQueued", "resumeWrite"} :
        /\ CASE point = "pauseList" -> job.status \notin Paused \cup PilotTerminal
             [] point = "cancelQueued" -> job.status \notin PilotTerminal
             [] OTHER -> job.status \in Paused /\ RunningSlices < ChunkCap   \* gates of a resume
        /\ operator' = [operator EXCEPT ![o].pc = point, ![o].seen = job.status]
    /\ UNCHANGED <<rows, exec, late>>

ListSlices(o) ==
    /\ \/ /\ operator[o].pc = "pauseList"
          /\ operator' = [operator EXCEPT ![o].pc = "pauseWrite", ![o].next =
                 IF \E c \in WithStatus("running") : chunk[c].live THEN "pause_requested" ELSE "paused"]
       \/ /\ operator[o].pc = "cancelList"
          /\ operator' = [operator EXCEPT ![o].pc = "cancelWrite", ![o].next =
                 IF Completed # {} THEN "partial_cancelled" ELSE "cancelled"]
    /\ UNCHANGED <<rows, exec, late>>

CancelQueuedSlices(o) ==
    /\ operator[o].pc = "cancelQueued"
    /\ chunk' = [c \in Chunks |-> IF chunk[c].status = "queued"
                                  THEN Settled(chunk[c], "cancelled", chunk[c].lastError) ELSE chunk[c]]
    /\ Asks(o, "cancelList")
    /\ UNCHANGED <<job, results, exec, late>>

WriteStatus(o) ==
    /\ operator[o].pc \in {"pauseWrite", "cancelWrite", "resumeWrite"}
    /\ \/ /\ Unmoved(o)
          /\ job' = [job EXCEPT !.status =
                         IF operator[o].pc = "resumeWrite" THEN "queued" ELSE operator[o].next]
       \/ ~Unmoved(o) /\ UNCHANGED job
    /\ Answers(o)
    /\ UNCHANGED <<results, chunk, exec, late>>

(* A statement of the request throws, or its process dies.                   *)
RequestDies(o) ==
    /\ operator[o].pc # "idle"
    /\ Answers(o)
    /\ UNCHANGED <<rows, exec, late>>

-----------------------------------------------------------------------------
PilotNext ==
    \/ \E r \in Runs :
        \/ ClaimParent(r) \/ SweepPilot(r)
        \/ LoopTop(r) \/ TakeSlice(r) \/ Verify(r)
        \/ Contact(r) \/ ReportSlice(r) \/ SettleSlice(r) \/ Drain(r) \/ SettlePause(r)
        \/ WrapUp(r) \/ FinishPilot(r) \/ SettleParentLease(r) \/ DropParentLease(r)
        \/ PilotStatementFails(r) \/ PilotCrash(r)
    \/ PilotLeases
    \/ \E o \in Operators :
        \/ RequestOfOperator(o) \/ ListSlices(o)
        \/ CancelQueuedSlices(o) \/ WriteStatus(o) \/ RequestDies(o)

PilotSpec == PilotInit /\ [][PilotNext]_pilotVars

-----------------------------------------------------------------------------
(* Pause, cancel or a lost lease stop the work: a slice that was claimed     *)
(* when the job had already stopped never reaches the provider (the          *)
(* re-verification of runPilotBackfillJob).                                  *)
NoContactAfterStop == \A r \in late : exec[r].pc \notin ExecSlice

(* What the operator and the executions decide is decided once: a terminal   *)
(* job keeps its status, whoever read it before.                             *)
PilotVerdictIsFinal == [][job.status \in PilotTerminal => job'.status = job.status]_pilotVars

(* The lifecycle implements the promise of PilotLedger: a slice has one      *)
(* owner, who alone finishes it, and the verdict is given once, whoever read *)
(* the job before: with every slice settled, or by a cancel, and never over  *)
(* what the other decided.                                                   *)
PromisedPhase(status) == CASE status = "completed" -> "done" [] status = "failed" -> "dead"
                           [] status = "cancelled" -> "dropped" [] OTHER -> "open"
PromisedSlice == [c \in Chunks |-> [phase |-> PromisedPhase(chunk[c].status),
                                    owner |-> chunk[c].leaseId,
                                    admissions |-> chunk[c].attempts]]
PromisedVerdict == IF job.status \in PilotTerminal THEN job.status ELSE "open"
Promise == INSTANCE PilotLedger WITH
    Slices <- Chunks, Owners <- Runs, Nobody <- NoRun,
    slice <- PromisedSlice, verdict <- PromisedVerdict
ImplementsPilotLedger == Promise!Spec

(* A verdict of an execution speaks for every slice: none is open, and none  *)
(* was cancelled under it by an operator whose own write is still to come.   *)
VerdictCoversAllSlices ==
    job.status \in JobTerminal => \A c \in Chunks : chunk[c].status \in {"completed", "failed"}

(* An execution that ended in order does not keep the job: it can be run,    *)
(* paused or cancelled at once (settleParentLease).                          *)
EndedExecutionFreesJob ==
    \A r \in Runs : ExecAt(r, "done") => ~(job.status = "running" /\ job.leaseId = r)

(* extended-backfill-pilot-lifecycle.ts:493 "The parent lease is             *)
(* intentionally preserved: an in-flight chunk's fenced progress writes must *)
(* keep succeeding so it can finish safely": while the parent lease is held  *)
(* and has not run out, the fence of these writes lets the holder through.   *)
InFlightSliceFinishes ==
    \A r \in Runs : Reports(r) /\ job.leaseId = r /\ job.live => OwnsJob(r)
=============================================================================
