----------------------------- MODULE ImportWorker -----------------------------
(***************************************************************************)
(* The durable import worker: one job, its slices, and every run of        *)
(* runDurableImportWorker that a claim of the job starts.  A run whose     *)
(* parent lease was lost keeps going until it notices, so several runs     *)
(* interleave on the same rows.  One action is one statement on the        *)
(* database, or one call of the provider, together with what the code      *)
(* decides from its result.                                                *)
(***************************************************************************)
EXTENDS ImportJob, BackfillChunks

CONSTANT NoChunk
ASSUME NoChunkAssumption == NoChunk \notin Chunks

VARIABLES
    run,       \* the local state of each run
    contacts,  \* history: provider calls made for each slice
    author     \* history: the run that recorded the completion of each slice

jobVars == <<job, results>>
history == <<contacts, author>>
vars == <<job, results, chunk, run, contacts, author>>

-----------------------------------------------------------------------------
(* Control points of a run.  Locals that the code no longer reads are      *)
(* blanked: `cur` and `token` outside the treatment of a slice, `seen`     *)
(* outside a listing and the write that follows it.                        *)
ClaimPoints == {"check", "take", "reread", "markExhausted"}
LoopPoints == {"sweep", "sweepQueued", "loop", "exhausted",
               "mirrorRead", "mirrorWrite", "lastRead", "lastWrite", "verdict"}
SlicePoints == {"exec", "report", "complete", "failChunk"}
Treating == ClaimPoints \cup SlicePoints
Active == LoopPoints \cup Treating \cup {"start", "finish", "failJob"}
PC == Active \cup {"unclaimed", "ended"}

Outcomes == {"ok", "partial", "error"}

RunType == [pc : PC,
            leaseLost : BOOLEAN,              \* isLeaseLost, set by the heartbeat timer
            cur : Chunks \cup {NoChunk},      \* the slice selected or claimed
            token : Nat,                      \* the fencing token read after the claim
            outcome : Outcomes \cup {"none"}, \* what the provider returned
            seen : SUBSET Chunks]             \* completed slices in its last listing

TypeOK ==
    /\ job \in JobType
    /\ results \in SUBSET Chunks
    /\ chunk \in [Chunks -> ChunkType]
    /\ run \in [Runs -> RunType]
    /\ \A r \in Runs : run[r].pc \in Treating => run[r].cur \in Chunks
    /\ contacts \in [Chunks -> Nat]
    /\ author \in [Chunks -> Runs \cup {NoRun}]

Blank(point, lost) == [pc |-> point, leaseLost |-> lost, cur |-> NoChunk, token |-> 0,
                       outcome |-> "none", seen |-> {}]

Init ==
    /\ JobInit
    /\ ChunkInit
    /\ run = [r \in Runs |-> Blank("unclaimed", FALSE)]
    /\ contacts = [c \in Chunks |-> 0]
    /\ author = [c \in Chunks |-> NoRun]

At(r, point) == run[r].pc = point
List(r, point) == run' = [run EXCEPT ![r] = [@ EXCEPT !.pc = point, !.seen = Completed]]
Goto(r, point) == run' = [run EXCEPT ![r].pc = point]
Resume(r, point) == run' = [run EXCEPT ![r] = Blank(point, @.leaseLost)]
End(r) == run' = [run EXCEPT ![r] = Blank("ended", FALSE)]

-----------------------------------------------------------------------------
(* Claim, and the heartbeat that fences the run before its first call.     *)
Claim(r) ==
    /\ At(r, "unclaimed")
    /\ ClaimImportJob(r)
    /\ Goto(r, "start")
    /\ UNCHANGED <<chunk, history>>

Start(r) ==
    /\ At(r, "start")
    /\ IF OwnsJob(r) THEN Goto(r, "sweep") ELSE End(r)
    /\ UNCHANGED <<jobVars, chunk, history>>

(* The two clean-ups at the head of runCheckpointedBackfillWorker.         *)
Sweep(r) ==
    /\ At(r, "sweep")
    /\ SweepExhaustedChunks
    /\ Goto(r, "sweepQueued")
    /\ UNCHANGED <<jobVars, history>>

FailQueued(r) ==
    /\ \/ At(r, "sweepQueued") /\ Goto(r, "loop")
       \/ At(r, "exhausted") /\ Goto(r, "mirrorRead")
    /\ FailExhaustedQueuedChunks
    /\ UNCHANGED <<jobVars, history>>

-----------------------------------------------------------------------------
(* claimNextBackfillChunk: select a candidate, re-read it, take it.  Every *)
(* refusal but attempts_exhausted leaves the loop.                         *)
SelectCandidate(r) ==
    /\ At(r, "loop")
    /\ \/ \E c \in Chunks : /\ IsCandidate(c)
                            /\ run' = [run EXCEPT ![r] = [@ EXCEPT !.pc = "check", !.cur = c]]
       \/ (\A c \in Chunks : ~Claimable(c)) /\ Goto(r, "lastRead")
    /\ UNCHANGED <<jobVars, chunk, history>>

CheckCandidate(r) ==
    /\ At(r, "check")
    /\ LET c == run[r].cur
       IN  IF chunk[c].status \in {"completed", "failed"} THEN Resume(r, "lastRead")
           ELSE IF Exhausted(c) THEN Resume(r, "exhausted")
           ELSE Goto(r, "take")
    /\ UNCHANGED <<jobVars, chunk, history>>

TakeChunk(r) ==
    /\ At(r, "take")
    /\ LET c == run[r].cur
       IN  \/ ClaimBackfillChunk(c, r) /\ Goto(r, "reread")
           \/ ~Claimable(c) /\ Resume(r, "lastRead") /\ UNCHANGED chunk
    /\ UNCHANGED <<jobVars, history>>

(* The row as it is now, which may be a later claimer's: its token is the  *)
(* one the run goes on with.                                               *)
ReadClaim(r) ==
    /\ At(r, "reread")
    /\ IF OverAttempted(run[r].cur) THEN Goto(r, "markExhausted")
       ELSE run' = [run EXCEPT ![r] =
                   [@ EXCEPT !.pc = "exec", !.token = chunk[run[r].cur].fencingToken]]
    /\ UNCHANGED <<jobVars, chunk, history>>

(* A claim past the last attempt throws, outside the loop's try block.     *)
MarkExhausted(r) ==
    /\ At(r, "markExhausted")
    /\ LET c == run[r].cur
       IN  \/ FailOverAttempted(c, r)
           \/ chunk[c].leaseId # r /\ UNCHANGED chunk
    /\ Resume(r, "failJob")
    /\ UNCHANGED <<jobVars, history>>

-----------------------------------------------------------------------------
(* The executor: flag check, provider call, progress write.  A lost lease  *)
(* aborts the run and leaves the slice to expire.                          *)
ContactProvider(r) ==
    /\ At(r, "exec")
    /\ IF run[r].leaseLost
       THEN End(r) /\ UNCHANGED contacts
       ELSE /\ \E o \in Outcomes :
                  run' = [run EXCEPT ![r] = [@ EXCEPT !.pc = "report", !.outcome = o]]
            /\ contacts' = [contacts EXCEPT ![run[r].cur] = @ + 1]
    /\ UNCHANGED <<jobVars, chunk, author>>

ReportProgress(r) ==
    /\ At(r, "report")
    /\ IF run[r].leaseLost \/ ~OwnsJob(r)
       THEN End(r) /\ UNCHANGED jobVars
       ELSE /\ UpdateImportJobProgress(r, IF run[r].outcome = "ok" THEN {run[r].cur} ELSE {})
            /\ Goto(r, IF run[r].outcome = "error" THEN "failChunk" ELSE "complete")
    /\ UNCHANGED <<chunk, history>>

(* A stale completion throws; the handler's own failBackfillChunk is then  *)
(* stale too and swallowed.                                                *)
CompleteChunk(r) ==
    /\ At(r, "complete")
    /\ LET c == run[r].cur
       IN  \/ /\ CompleteBackfillChunk(c, r, run[r].token, run[r].outcome = "partial")
              /\ author' = [author EXCEPT ![c] = r]
           \/ ~FencingGuard(c, r, run[r].token) /\ UNCHANGED <<chunk, author>>
    /\ Resume(r, "mirrorRead")
    /\ UNCHANGED <<jobVars, contacts>>

(* The handler re-reads the token, so only the lease id fences it.         *)
FailChunk(r) ==
    /\ At(r, "failChunk")
    /\ LET c == run[r].cur
       IN  \/ FailBackfillChunk(c, r, chunk[c].fencingToken)
           \/ ~FencingGuard(c, r, chunk[c].fencingToken) /\ UNCHANGED chunk
    /\ Resume(r, "mirrorRead")
    /\ UNCHANGED <<jobVars, history>>

-----------------------------------------------------------------------------
(* refreshParentJobFromChunks: list the slices, then overwrite the parent  *)
(* receipts by id alone, with no lease in the WHERE clause.                *)
MirrorRead(r) ==
    /\ \/ At(r, "mirrorRead") /\ List(r, "mirrorWrite")
       \/ At(r, "lastRead") /\ List(r, "lastWrite")
    /\ UNCHANGED <<jobVars, chunk, history>>

MirrorWrite(r) ==
    /\ \/ At(r, "mirrorWrite") /\ Resume(r, "loop")
       \/ At(r, "lastWrite") /\ Resume(r, "verdict")
    /\ results' = run[r].seen
    /\ UNCHANGED <<job, chunk, history>>

(* runCheckpointedSlicesForJob after the loop: a slice still running sends *)
(* the job back to the queue, otherwise the listing becomes the receipts.  *)
Verdict(r) ==
    /\ At(r, "verdict")
    /\ IF WithStatus("running") # {} THEN Goto(r, "failJob")
       ELSE List(r, "finish")
    /\ UNCHANGED <<jobVars, chunk, history>>

(* The outcome counts receipts that are not ok; a partial slice is ok.     *)
JobOutcomeByFailures(ok) == IF WithStatus("failed") = {} THEN "completed" ELSE "partial"
JobOutcome(ok) == IF ok = Chunks THEN "completed" ELSE IF ok = {} THEN "failed" ELSE "partial"

Finish(r) ==
    /\ At(r, "finish")
    /\ IF run[r].leaseLost \/ ~OwnsJob(r)
       THEN UNCHANGED jobVars
       ELSE CompleteImportJob(r, JobOutcome(run[r].seen), run[r].seen)
    /\ End(r)
    /\ UNCHANGED <<chunk, history>>

(* The catch block of runDurableImportWorker.                              *)
FailJob(r) ==
    /\ At(r, "failJob")
    /\ IF run[r].leaseLost \/ ~OwnsJob(r)
       THEN UNCHANGED jobVars
       ELSE FailImportJob(r)
    /\ End(r)
    /\ UNCHANGED <<chunk, history>>

-----------------------------------------------------------------------------
(* What else can happen to a run: the heartbeat timer fails, a statement   *)
(* throws, the process dies.                                               *)
HeartbeatFails(r) ==
    /\ run[r].pc \in Active \ {"start"} /\ ~run[r].leaseLost
    /\ run' = [run EXCEPT ![r].leaseLost = TRUE]
    /\ UNCHANGED <<jobVars, chunk, history>>

StatementFails(r) ==
    /\ \/ /\ run[r].pc \in LoopPoints \cup ClaimPoints \cup {"start", "exec", "failChunk", "finish"}
          /\ Resume(r, "failJob")
       \/ run[r].pc \in {"exec", "report", "complete"} /\ Goto(r, "failChunk")
    /\ UNCHANGED <<jobVars, chunk, history>>

Crash(r) ==
    /\ run[r].pc \in Active
    /\ End(r)
    /\ UNCHANGED <<jobVars, chunk, history>>

(* What happens around the runs.                                           *)
Recover == RecoverExpiredJob /\ UNCHANGED <<chunk, run, history>>
JobLeaseExpires == ExpireJobLease /\ UNCHANGED <<chunk, run, history>>
ChunkLeaseExpires == \E c \in Chunks :
    ExpireChunkLease(c) /\ UNCHANGED <<jobVars, run, history>>

-----------------------------------------------------------------------------
(* The steps a run takes by itself.                                        *)
Step(r) ==
    \/ Start(r) \/ Sweep(r) \/ FailQueued(r)
    \/ SelectCandidate(r) \/ CheckCandidate(r) \/ TakeChunk(r)
    \/ ReadClaim(r) \/ MarkExhausted(r)
    \/ ContactProvider(r) \/ ReportProgress(r) \/ CompleteChunk(r) \/ FailChunk(r)
    \/ MirrorRead(r) \/ MirrorWrite(r) \/ Verdict(r) \/ Finish(r) \/ FailJob(r)

Next ==
    \/ \E r \in Runs : \/ Claim(r) \/ Step(r)
                       \/ HeartbeatFails(r) \/ StatementFails(r) \/ Crash(r)
    \/ Recover \/ JobLeaseExpires \/ ChunkLeaseExpires

Spec == Init /\ [][Next]_vars

(* A live process keeps executing: its next statement is not put off for   *)
(* ever.  Nothing is assumed of claims, crashes, expiries or the cron.     *)
FairSpec == Spec /\ \A r \in Runs : WF_vars(Step(r))
-----------------------------------------------------------------------------
(* Safety.                                                                 *)

(* A job is reported completed only when every one of its slices really is *)
(* completed, whatever stale runs did in between (completeImportJob after  *)
(* runCheckpointedSlicesForJob).                                           *)
CompletedJobIsComplete == job.status = "completed" => Completed = Chunks

(* A slice is never contacted more often than it has attempts, even when   *)
(* two runs race for its last one (claimBackfillChunk).                    *)
ContactsBounded == \A c \in Chunks : contacts[c] <= MaxAttempts

(* A slice is never given up while an attempt is left, by none of the four *)
(* places that can mark it failed.                                         *)
FailedSliceUsedItsAttempts ==
    \A c \in Chunks : chunk[c].status = "failed" => chunk[c].attempts >= MaxAttempts

(* The verdict of a terminal job is final: no stale run, recovery or retry *)
(* moves it again.                                                         *)
JobVerdictIsFinal == [][job.status \in JobTerminal => job' = job]_vars

(* A slice that a run has listed as completed stays completed for as long  *)
(* as the run relies on the listing: nothing reopens it.                   *)
ListingsStayTrue == \A r \in Runs : run[r].seen \subseteq Completed

(* The worker implements the promise of SliceLedger: in particular the     *)
(* completion of a slice is recorded by the run it was last claimed by,    *)
(* and never on a claim beyond the last attempt, which may sit in the row  *)
(* for as long as its claimer is silent.                                   *)
LedgerRow(row) ==
    LET forfeit == row.status = "running" /\ row.attempts > MaxAttempts
    IN  [phase |-> CASE row.status = "completed" -> "done"
                     [] row.status = "failed" -> "dead"
                     [] forfeit -> "forfeit"
                     [] OTHER -> "open",
         owner |-> IF forfeit THEN NoRun ELSE row.leaseId,
         admissions |-> IF row.attempts > MaxAttempts THEN MaxAttempts ELSE row.attempts]
LedgerSlice == [c \in Chunks |-> LedgerRow(chunk[c])]
LedgerVerdict == IF job.status \in JobTerminal THEN job.status ELSE "open"
Ledger == INSTANCE SliceLedger WITH
    Slices <- Chunks, Owners <- Runs, Nobody <- NoRun,
    slice <- LedgerSlice, verdict <- LedgerVerdict
ImplementsLedger == Ledger!Spec

-----------------------------------------------------------------------------
(* Liveness, under FairSpec.                                               *)

(* Every run leaves its loop, unless it meets a slice whose lease expired  *)
(* on its last attempt.                                                    *)
Stuck(c) == Expired(c) /\ Exhausted(c)
RunConverges ==
    \A r \in Runs : run[r].pc \in Active ~> \/ run[r].pc \notin Active
                                            \/ \E c \in Chunks : Stuck(c)

-----------------------------------------------------------------------------
(* What the documentation says and the code does not do.                   *)

(* docs/CHECKPOINTED_BACKFILL_WORKER.md:95 "Queued-but-exhausted chunks    *)
(* are failed explicitly so the loop always converges."                    *)
LoopAlwaysConverges ==
    \A r \in Runs : run[r].pc \in Active ~> run[r].pc \notin Active

(* warehouse-backfill-chunks.ts:590 "the slice is done (never re-contacted)*)
(* but the parent must report partial, never completed".                   *)
PartialSliceMakesPartialJob == job.status = "completed" => AggregateStatus # "partial"

(* docs/CHECKPOINTED_BACKFILL_WORKER.md:93 "No-claimable-chunk stops are   *)
(* non-terminal": a job is not closed over slices that were never done.    *)
PartialJobLeavesNothingQueued == job.status = "partial" => WithStatus("queued") = {}
=============================================================================
