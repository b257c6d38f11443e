------------------------- MODULE ImportWorker_proofs -------------------------
(***************************************************************************)
(* Theorems about ImportWorker, for every set of runs and of slices and    *)
(* every bound on attempts and retries.                                    *)
(***************************************************************************)
EXTENDS ImportWorker, FiniteSetTheorems, TLAPS

USE NoRunAssumption, NoChunkAssumption, ChunksAssumption,
    MaxRetriesAssumption, MaxAttemptsAssumption

-----------------------------------------------------------------------------
(* The rows keep their shape.                                              *)

LEMMA RelinquishedType ==
    ASSUME job \in JobType, NEW status \in JobStatus
    PROVE  /\ Relinquished(status) \in JobType
           /\ Relinquished(status).status = status
           /\ Relinquished(status).retryCount = job.retryCount
BY DEF JobType, Relinquished

LEMMA FailImportJobType ==
    ASSUME job \in JobType, NEW r \in Runs, FailImportJob(r)
    PROVE  /\ job' \in JobType
           /\ job'.status \in {"queued", "failed"}
<1>1. Relinquished("queued") \in JobType /\ Relinquished("queued").retryCount = job.retryCount
    BY RelinquishedType DEF JobStatus
<1>2. Relinquished("failed") \in JobType /\ Relinquished("failed").status = "failed"
    BY RelinquishedType DEF JobStatus, JobTerminal
<1>3. CASE job.retryCount < MaxRetries
    <2>1. job.retryCount + 1 \in 0 .. MaxRetries
        BY <1>3 DEF JobType
    <2> QED BY <1>1, <1>3, <2>1 DEF FailImportJob, JobType, Relinquished
<1>4. CASE ~(job.retryCount < MaxRetries)
    BY <1>2, <1>4 DEF FailImportJob
<1> QED BY <1>3, <1>4

LEMMA SettledType ==
    ASSUME NEW row \in ChunkType, NEW status \in ChunkStatus, NEW err \in BOOLEAN
    PROVE  /\ Settled(row, status, err) \in ChunkType
           /\ Settled(row, status, err).status = status
           /\ Settled(row, status, err).leaseId = NoRun
           /\ Settled(row, status, err).attempts = row.attempts
BY DEF ChunkType, Settled

LEMMA ClaimedRowType ==
    ASSUME NEW c \in Chunks, NEW r \in Runs, chunk[c] \in ChunkType
    PROVE  /\ ClaimedRow(c, r) \in ChunkType
           /\ ClaimedRow(c, r).attempts = chunk[c].attempts + 1
           /\ ClaimedRow(c, r).status = "running"
           /\ ClaimedRow(c, r).leaseId = r
<1>1. /\ chunk[c].attempts + 1 \in Nat
      /\ chunk[c].fencingToken + 1 \in Nat
      /\ chunk[c].lastError \in BOOLEAN
    BY DEF ChunkType
<1> QED BY <1>1 DEF ClaimedRow, ChunkType, ChunkStatus

-----------------------------------------------------------------------------
(* The local state of the run that steps; the other runs are left alone.   *)

RunOK(state) == /\ state \in RunType
                /\ state.pc \in Treating => state.cur \in Chunks

LEMMA StepType ==
    ASSUME TypeOK, NEW r \in Runs, NEW state, RunOK(state),
           run' = [run EXCEPT ![r] = state]
    PROVE  /\ run' \in [Runs -> RunType]
           /\ \A q \in Runs : run'[q].pc \in Treating => run'[q].cur \in Chunks
BY DEF TypeOK, RunOK

LEMMA BlankOK ==
    ASSUME NEW point \in PC \ Treating, NEW lost \in BOOLEAN
    PROVE  RunOK(Blank(point, lost))
BY DEF RunOK, Blank, RunType

LEMMA EndOK ==
    ASSUME TypeOK, NEW r \in Runs, End(r)
    PROVE  /\ run' \in [Runs -> RunType]
           /\ \A q \in Runs : run'[q].pc \in Treating => run'[q].cur \in Chunks
<1>1. RunOK(Blank("ended", FALSE))
    BY BlankOK DEF PC, Treating, ClaimPoints, SlicePoints
<1> QED BY <1>1, StepType DEF End

LEMMA ResumeOK ==
    ASSUME TypeOK, NEW r \in Runs, NEW point \in PC \ Treating, Resume(r, point)
    PROVE  /\ run' \in [Runs -> RunType]
           /\ \A q \in Runs : run'[q].pc \in Treating => run'[q].cur \in Chunks
<1>1. RunOK(Blank(point, run[r].leaseLost))
    BY BlankOK DEF TypeOK, RunType
<1> QED BY <1>1, StepType DEF Resume

LEMMA GotoOK ==
    ASSUME TypeOK, NEW r \in Runs, NEW point \in PC, Goto(r, point),
           point \in Treating => run[r].pc \in Treating
    PROVE  /\ run' \in [Runs -> RunType]
           /\ \A q \in Runs : run'[q].pc \in Treating => run'[q].cur \in Chunks
<1>1. run' = [run EXCEPT ![r] = [run[r] EXCEPT !.pc = point]]
    BY DEF Goto
<1>2. RunOK([run[r] EXCEPT !.pc = point])
    BY DEF RunOK, TypeOK, RunType
<1> QED BY <1>1, <1>2, StepType

LEMMA ListOK ==
    ASSUME TypeOK, NEW r \in Runs, NEW point \in PC \ Treating, List(r, point)
    PROVE  /\ run' \in [Runs -> RunType]
           /\ \A q \in Runs : run'[q].pc \in Treating => run'[q].cur \in Chunks
<1>1. run[r] \in RunType /\ Completed \in SUBSET Chunks
    BY DEF TypeOK, Completed, WithStatus
<1>2. RunOK([run[r] EXCEPT !.pc = point, !.seen = Completed])
    BY <1>1 DEF RunOK, RunType
<1> QED BY <1>2, StepType DEF List

-----------------------------------------------------------------------------
(* Types.                                                                  *)

LEMMA InitType ==
    ASSUME Init
    PROVE  TypeOK
<1>1. RunOK(Blank("unclaimed", FALSE))
    BY BlankOK DEF PC, Treating, ClaimPoints, SlicePoints
<1>2. /\ run \in [Runs -> RunType]
      /\ \A r \in Runs : run[r].pc \in Treating => run[r].cur \in Chunks
    BY <1>1 DEF Init, RunOK
<1>3. job \in JobType /\ results \in SUBSET Chunks
    BY DEF Init, JobInit, JobType, JobStatus
<1>4. chunk \in [Chunks -> ChunkType]
    BY DEF Init, ChunkInit, ChunkType, ChunkStatus
<1> QED
    BY <1>2, <1>3, <1>4 DEF Init, TypeOK

(* Every step preserves the types: one step per action.                    *)
LEMMA NextType ==
    ASSUME TypeOK, [Next]_vars
    PROVE  TypeOK'
<1> DEFINE RunTyped == /\ run' \in [Runs -> RunType]
                       /\ \A q \in Runs : run'[q].pc \in Treating => run'[q].cur \in Chunks
<1>0. /\ \A r \in Runs : run[r] \in RunType
      /\ \A c \in Chunks : chunk[c] \in ChunkType
      /\ \A r \in Runs : run[r].seen \subseteq Chunks
    BY DEF TypeOK, RunType
<1>1. ASSUME NEW r \in Runs, Claim(r)
      PROVE  TypeOK'
    <2>1. job' \in JobType
        BY <1>1 DEF Claim, ClaimImportJob, TypeOK, JobType, JobStatus
    <2>2. RunTyped
        BY <1>1, GotoOK DEF Claim, PC, Active, Treating, ClaimPoints, SlicePoints
    <2> QED BY <1>1, <2>1, <2>2 DEF Claim, ClaimImportJob, TypeOK, history
<1>2. ASSUME NEW r \in Runs, Start(r)
      PROVE  TypeOK'
    <2>1. RunTyped
        BY <1>2, GotoOK, EndOK DEF Start, PC, Active, LoopPoints, Treating, ClaimPoints, SlicePoints
    <2> QED BY <1>2, <2>1 DEF Start, TypeOK, jobVars, history
<1>3. ASSUME NEW r \in Runs, Sweep(r)
      PROVE  TypeOK'
    <2>1. RunTyped
        BY <1>3, GotoOK DEF Sweep, PC, Active, LoopPoints, Treating, ClaimPoints, SlicePoints
    <2>2. chunk' \in [Chunks -> ChunkType]
        BY <1>0, <1>3, SettledType DEF Sweep, SweepExhaustedChunks, ChunkStatus
    <2> QED BY <1>3, <2>1, <2>2 DEF Sweep, TypeOK, jobVars, history
<1>4. ASSUME NEW r \in Runs, FailQueued(r)
      PROVE  TypeOK'
    <2>1. RunTyped
        BY <1>4, GotoOK DEF FailQueued, PC, Active, LoopPoints, Treating, ClaimPoints, SlicePoints
    <2>2. chunk' \in [Chunks -> ChunkType]
        BY <1>0, <1>4, SettledType DEF FailQueued, FailExhaustedQueuedChunks, ChunkStatus
    <2> QED BY <1>4, <2>1, <2>2 DEF FailQueued, TypeOK, jobVars, history
<1>5. ASSUME NEW r \in Runs, SelectCandidate(r)
      PROVE  TypeOK'
    <2>1. RunTyped
        <3>1. CASE Goto(r, "lastRead")
            BY <3>1, GotoOK DEF PC, Active, LoopPoints, Treating, ClaimPoints, SlicePoints
        <3>2. CASE \E c \in Chunks : run' = [run EXCEPT ![r] = [@ EXCEPT !.pc = "check", !.cur = c]]
            <4>1. PICK c \in Chunks : run' = [run EXCEPT ![r] = [@ EXCEPT !.pc = "check", !.cur = c]]
                BY <3>2
            <4>2. RunOK([run[r] EXCEPT !.pc = "check", !.cur = c])
                BY <1>0 DEF RunOK, RunType, PC, Active, Treating, ClaimPoints
            <4> QED BY <4>1, <4>2, StepType
        <3> QED BY <1>5, <3>1, <3>2 DEF SelectCandidate
    <2> QED BY <1>5, <2>1 DEF SelectCandidate, TypeOK, jobVars, history
<1>6. ASSUME NEW r \in Runs, CheckCandidate(r)
      PROVE  TypeOK'
    <2>1. RunTyped
        BY <1>6, GotoOK, ResumeOK DEF CheckCandidate, At, PC, Active, LoopPoints, Treating, ClaimPoints, SlicePoints
    <2> QED BY <1>6, <2>1 DEF CheckCandidate, TypeOK, jobVars, history
<1>7. ASSUME NEW r \in Runs, TakeChunk(r)
      PROVE  TypeOK'
    <2> DEFINE c == run[r].cur
    <2>1. c \in Chunks /\ run[r].pc \in Treating
        BY <1>7 DEF TakeChunk, At, TypeOK, Treating, ClaimPoints
    <2>2. RunTyped
        BY <1>7, <2>1, ResumeOK, GotoOK
        DEF TakeChunk, PC, Active, LoopPoints, Treating, ClaimPoints, SlicePoints
    <2>3. chunk' \in [Chunks -> ChunkType]
        BY <1>0, <1>7, <2>1, ClaimedRowType DEF TakeChunk, ClaimBackfillChunk, TypeOK
    <2> QED BY <1>7, <2>2, <2>3 DEF TakeChunk, TypeOK, jobVars, history
<1>24. ASSUME NEW r \in Runs, ReadClaim(r)
       PROVE  TypeOK'
    <2> DEFINE token == chunk[run[r].cur].fencingToken
    <2>1. run[r].cur \in Chunks /\ run[r].pc \in Treating
        BY <1>24 DEF ReadClaim, At, TypeOK, Treating, ClaimPoints
    <2>2. token \in Nat
        <3>1. chunk[run[r].cur] \in ChunkType
            BY <1>0, <2>1
        <3> QED BY <3>1 DEF ChunkType
    <2>3. RunOK([run[r] EXCEPT !.pc = "exec", !.token = token])
        BY <1>0, <2>1, <2>2 DEF RunOK, RunType, PC, Active, Treating, SlicePoints
    <2>4. RunTyped
        BY <1>24, <2>1, <2>3, GotoOK, StepType
        DEF ReadClaim, PC, Active, Treating, ClaimPoints
    <2> QED BY <1>24, <2>4 DEF ReadClaim, TypeOK, jobVars, history
<1>25. ASSUME NEW r \in Runs, MarkExhausted(r)
       PROVE  TypeOK'
    <2>1. run[r].cur \in Chunks
        BY <1>25 DEF MarkExhausted, At, TypeOK, Treating, ClaimPoints
    <2>2. RunTyped
        BY <1>25, ResumeOK DEF MarkExhausted, PC, Active, Treating, ClaimPoints, SlicePoints
    <2>3. chunk' \in [Chunks -> ChunkType]
        <3> DEFINE row == Settled(chunk[run[r].cur], "failed", TRUE)
        <3>1. row \in ChunkType
            BY <1>0, <2>1, SettledType DEF ChunkStatus
        <3>2. UNCHANGED chunk \/ chunk' = [chunk EXCEPT ![run[r].cur] = row]
            BY <1>25 DEF MarkExhausted, FailOverAttempted
        <3> HIDE DEF row
        <3> QED BY <2>1, <3>1, <3>2 DEF TypeOK
    <2> QED BY <1>25, <2>2, <2>3 DEF MarkExhausted, TypeOK, jobVars, history
<1>8. ASSUME NEW r \in Runs, ContactProvider(r)
      PROVE  TypeOK'
    <2>1. CASE End(r) /\ UNCHANGED contacts
        <3>1. RunTyped
            BY <2>1, EndOK
        <3> QED BY <1>8, <2>1, <3>1 DEF ContactProvider, TypeOK, jobVars
    <2>2. CASE ~run[r].leaseLost
        <3>1. PICK o \in Outcomes : run' = [run EXCEPT ![r] = [@ EXCEPT !.pc = "report", !.outcome = o]]
            BY <1>8, <2>2 DEF ContactProvider
        <3>2. run[r].cur \in Chunks
            BY <1>8 DEF ContactProvider, At, TypeOK, Treating, ClaimPoints, SlicePoints
        <3>3. RunOK([run[r] EXCEPT !.pc = "report", !.outcome = o])
            BY <1>0, <3>2 DEF RunOK, RunType, PC, Active, Treating, SlicePoints
        <3>4. RunTyped
            BY <3>1, <3>3, StepType
        <3>5. contacts' \in [Chunks -> Nat]
            <4>0. contacts \in [Chunks -> Nat]
                BY DEF TypeOK
            <4>1. contacts[run[r].cur] + 1 \in Nat
                <5>1. contacts[run[r].cur] \in Nat
                    BY <3>2, <4>0
                <5> QED BY <5>1
            <4>2. contacts' = [contacts EXCEPT ![run[r].cur] = contacts[run[r].cur] + 1]
                BY <1>8, <2>2 DEF ContactProvider
            <4> QED BY <3>2, <4>0, <4>1, <4>2
        <3> QED BY <1>8, <3>4, <3>5 DEF ContactProvider, TypeOK, jobVars
    <2> QED BY <1>8, <2>1, <2>2 DEF ContactProvider
<1>9. ASSUME NEW r \in Runs, ReportProgress(r)
      PROVE  TypeOK'
    <2>1. run[r].cur \in Chunks
        BY <1>9 DEF ReportProgress, At, TypeOK, Treating, ClaimPoints, SlicePoints
    <2>2. RunTyped
        BY <1>9, GotoOK, EndOK DEF ReportProgress, At, PC, Active, Treating, ClaimPoints, SlicePoints
    <2>3. job' = job /\ results' \in SUBSET Chunks
        BY <1>9, <2>1 DEF ReportProgress, UpdateImportJobProgress, jobVars, TypeOK
    <2> QED BY <1>9, <2>2, <2>3 DEF ReportProgress, TypeOK, history
<1>10. ASSUME NEW r \in Runs, CompleteChunk(r)
      PROVE  TypeOK'
    <2>1. run[r].cur \in Chunks
        BY <1>10 DEF CompleteChunk, At, TypeOK, Treating, ClaimPoints, SlicePoints
    <2>2. RunTyped
        BY <1>10, ResumeOK DEF CompleteChunk, PC, Active, LoopPoints, Treating, ClaimPoints, SlicePoints
    <2>3. chunk' \in [Chunks -> ChunkType] /\ author' \in [Chunks -> Runs \cup {NoRun}]
        <3> DEFINE row == Settled(chunk[run[r].cur], "completed", run[r].outcome = "partial")
        <3>1. row \in ChunkType
            BY <1>0, <2>1, SettledType DEF ChunkStatus
        <3>2. \/ UNCHANGED <<chunk, author>>
              \/ /\ chunk' = [chunk EXCEPT ![run[r].cur] = row]
                 /\ author' = [author EXCEPT ![run[r].cur] = r]
            BY <1>10 DEF CompleteChunk, CompleteBackfillChunk
        <3> HIDE DEF row
        <3> QED BY <2>1, <3>1, <3>2 DEF TypeOK
    <2> QED BY <1>10, <2>2, <2>3 DEF CompleteChunk, TypeOK, jobVars
<1>11. ASSUME NEW r \in Runs, FailChunk(r)
      PROVE  TypeOK'
    <2>1. run[r].cur \in Chunks
        BY <1>11 DEF FailChunk, At, TypeOK, Treating, ClaimPoints, SlicePoints
    <2>2. RunTyped
        BY <1>11, ResumeOK DEF FailChunk, PC, Active, LoopPoints, Treating, ClaimPoints, SlicePoints
    <2>3. chunk' \in [Chunks -> ChunkType]
        <3> DEFINE row == Settled(chunk[run[r].cur],
                                  IF Exhausted(run[r].cur) THEN "failed" ELSE "queued", TRUE)
        <3>1. row \in ChunkType
            BY <1>0, <2>1, SettledType DEF ChunkStatus
        <3>2. UNCHANGED chunk \/ chunk' = [chunk EXCEPT ![run[r].cur] = row]
            BY <1>11 DEF FailChunk, FailBackfillChunk
        <3> HIDE DEF row
        <3> QED BY <2>1, <3>1, <3>2 DEF TypeOK
    <2> QED BY <1>11, <2>2, <2>3 DEF FailChunk, TypeOK, jobVars, history
<1>12. ASSUME NEW r \in Runs, MirrorRead(r)
      PROVE  TypeOK'
    <2>1. RunTyped
        BY <1>12, ListOK DEF MirrorRead, PC, Active, LoopPoints, Treating, ClaimPoints, SlicePoints
    <2> QED BY <1>12, <2>1 DEF MirrorRead, TypeOK, jobVars, history
<1>13. ASSUME NEW r \in Runs, MirrorWrite(r)
      PROVE  TypeOK'
    <2>1. RunTyped
        BY <1>13, ResumeOK DEF MirrorWrite, PC, Active, LoopPoints, Treating, ClaimPoints, SlicePoints
    <2> QED BY <1>0, <1>13, <2>1 DEF MirrorWrite, TypeOK, history
<1>14. ASSUME NEW r \in Runs, Verdict(r)
      PROVE  TypeOK'
    <2>1. RunTyped
        BY <1>14, GotoOK, ListOK DEF Verdict, PC, Active, LoopPoints, Treating, ClaimPoints, SlicePoints
    <2> QED BY <1>14, <2>1 DEF Verdict, TypeOK, jobVars, history
<1>15. ASSUME NEW r \in Runs, Finish(r)
      PROVE  TypeOK'
    <2>1. RunTyped
        BY <1>15, EndOK DEF Finish
    <2>2. Relinquished(JobOutcome(run[r].seen)) \in JobType
        BY RelinquishedType DEF JobOutcome, JobStatus, JobTerminal, TypeOK
    <2>3. job' \in JobType /\ results' \in SUBSET Chunks
        BY <1>0, <1>15, <2>2, ZenonT(30) DEF Finish, CompleteImportJob, TypeOK, jobVars
    <2> QED BY <1>15, <2>1, <2>3 DEF Finish, TypeOK, history
<1>16. ASSUME NEW r \in Runs, FailJob(r)
      PROVE  TypeOK'
    <2>1. RunTyped
        BY <1>16, EndOK DEF FailJob
    <2>2. job' \in JobType /\ results' \in SUBSET Chunks
        BY <1>16, FailImportJobType DEF FailJob, FailImportJob, TypeOK, jobVars
    <2> QED BY <1>16, <2>1, <2>2 DEF FailJob, TypeOK, history
<1>17. ASSUME NEW r \in Runs, HeartbeatFails(r)
      PROVE  TypeOK'
    <2>1. RunOK([run[r] EXCEPT !.leaseLost = TRUE])
        BY <1>0 DEF RunOK, RunType, TypeOK
    <2>2. run' = [run EXCEPT ![r] = [run[r] EXCEPT !.leaseLost = TRUE]]
        BY <1>17 DEF HeartbeatFails
    <2>3. RunTyped
        BY <2>1, <2>2, StepType
    <2> QED BY <1>17, <2>3 DEF HeartbeatFails, TypeOK, jobVars, history
<1>18. ASSUME NEW r \in Runs, StatementFails(r)
      PROVE  TypeOK'
    <2>1. RunTyped
        BY <1>18, GotoOK, ResumeOK DEF StatementFails, PC, Active, LoopPoints, Treating, ClaimPoints, SlicePoints
    <2> QED BY <1>18, <2>1 DEF StatementFails, TypeOK, jobVars, history
<1>19. ASSUME NEW r \in Runs, Crash(r)
      PROVE  TypeOK'
    <2>1. RunTyped
        BY <1>19, EndOK DEF Crash
    <2> QED BY <1>19, <2>1 DEF Crash, TypeOK, jobVars, history
<1>20. CASE Recover
    <2>1. job' \in JobType
        BY <1>20, RelinquishedType DEF Recover, RecoverExpiredJob, TypeOK, JobStatus
    <2> QED BY <1>20, <2>1 DEF Recover, RecoverExpiredJob, TypeOK, history
<1>21. CASE JobLeaseExpires
    <2>1. job' \in JobType
        BY <1>21 DEF JobLeaseExpires, ExpireJobLease, TypeOK, JobType
    <2> QED BY <1>21, <2>1 DEF JobLeaseExpires, ExpireJobLease, TypeOK, history
<1>22. CASE ChunkLeaseExpires
    <2>1. PICK c \in Chunks : ExpireChunkLease(c)
        BY <1>22 DEF ChunkLeaseExpires
    <2>2. [chunk[c] EXCEPT !.live = FALSE] \in ChunkType
        BY <1>0 DEF ChunkType
    <2>3. chunk' \in [Chunks -> ChunkType]
        BY <2>1, <2>2 DEF ExpireChunkLease, TypeOK
    <2> QED BY <1>22, <2>3 DEF ChunkLeaseExpires, TypeOK, jobVars, history
<1>23. CASE UNCHANGED vars
    BY <1>23 DEF vars, TypeOK
<1> QED
    BY <1>1, <1>2, <1>3, <1>4, <1>5, <1>6, <1>7, <1>8, <1>9, <1>10, <1>11, <1>12, <1>13,
       <1>14, <1>15, <1>16, <1>17, <1>18, <1>19, <1>20, <1>21, <1>22, <1>23, <1>24, <1>25
    DEF Next, Step

(* Type correctness of the worker, for any number of runs, slices,         *)
(* attempts and retries: the retry counter never passes maxRetries and a   *)
(* run that treats a slice always has one at hand.                         *)
THEOREM TypeInvariant == Spec => []TypeOK
<1>1. Init => TypeOK
    BY InitType
<1>2. TypeOK /\ [Next]_vars => TypeOK'
    BY NextType
<1> QED BY <1>1, <1>2, PTL DEF Spec

-----------------------------------------------------------------------------
(* How a step changes the slices, and what a run carries through the       *)
(* treatment of one.                                                       *)

(* A slice carries a lease exactly while it is running.                    *)
LeasedWhileRunning ==
    \A c \in Chunks : chunk[c].status = "running" <=> chunk[c].leaseId # NoRun

(* The seven ways in which a step changes the slices.                      *)
Handles(r, point, c) == At(r, point) /\ run[r].cur = c
SliceStep ==
    \/ UNCHANGED <<chunk, author>>
    \/ \E c \in Chunks, r \in Runs :
          Handles(r, "take", c) /\ ClaimBackfillChunk(c, r) /\ UNCHANGED author
    \/ \E c \in Chunks, r \in Runs :
          Handles(r, "markExhausted", c) /\ FailOverAttempted(c, r) /\ UNCHANGED author
    \/ \E c \in Chunks, r \in Runs, token \in Nat, partial \in BOOLEAN :
          /\ Handles(r, "complete", c)
          /\ CompleteBackfillChunk(c, r, token, partial)
          /\ author' = [author EXCEPT ![c] = r]
    \/ \E c \in Chunks, r \in Runs, token \in Nat :
          FailBackfillChunk(c, r, token) /\ UNCHANGED author
    \/ SweepExhaustedChunks /\ UNCHANGED author
    \/ FailExhaustedQueuedChunks /\ UNCHANGED author
    \/ \E c \in Chunks : ExpireChunkLease(c) /\ UNCHANGED author

LEMMA StepIsSliceStep ==
    ASSUME TypeOK, [Next]_vars
    PROVE  SliceStep
<1>1. ASSUME NEW r \in Runs,
             At(r, "take") \/ At(r, "markExhausted") \/ At(r, "complete") \/ At(r, "failChunk")
      PROVE  /\ run[r].cur \in Chunks
             /\ run[r].token \in Nat
             /\ chunk[run[r].cur].fencingToken \in Nat
    <2>1. run[r].cur \in Chunks
        BY <1>1 DEF At, TypeOK, Treating, ClaimPoints, SlicePoints
    <2>2. run[r] \in RunType /\ chunk[run[r].cur] \in ChunkType
        BY <2>1 DEF TypeOK
    <2> QED BY <2>1, <2>2 DEF RunType, ChunkType
<1>2. ASSUME NEW r \in Runs, TakeChunk(r)
      PROVE  SliceStep
    BY <1>1, <1>2 DEF TakeChunk, SliceStep, Handles, history
<1>3. ASSUME NEW r \in Runs, CompleteChunk(r)
      PROVE  SliceStep
    BY <1>1, <1>3 DEF CompleteChunk, SliceStep, Handles
<1>4. ASSUME NEW r \in Runs, FailChunk(r)
      PROVE  SliceStep
    BY <1>1, <1>4 DEF FailChunk, SliceStep, history
<1>5. ASSUME NEW r \in Runs, Sweep(r) \/ FailQueued(r)
      PROVE  SliceStep
    BY <1>5 DEF Sweep, FailQueued, SliceStep, history
<1>6. CASE ChunkLeaseExpires
    BY <1>6 DEF ChunkLeaseExpires, SliceStep, history
<1>7. ASSUME NEW r \in Runs, MarkExhausted(r)
      PROVE  SliceStep
    BY <1>1, <1>7 DEF MarkExhausted, SliceStep, Handles, history
<1>8. \/ UNCHANGED <<chunk, author>>
      \/ ChunkLeaseExpires
      \/ \E r \in Runs : \/ Sweep(r) \/ FailQueued(r) \/ TakeChunk(r) \/ MarkExhausted(r)
                         \/ CompleteChunk(r) \/ FailChunk(r)
    BY DEF Next, Step, vars, history, Claim, Start, SelectCandidate, CheckCandidate, ReadClaim,
           ContactProvider, ReportProgress, MirrorRead, MirrorWrite, Verdict, Finish, FailJob,
           HeartbeatFails, StatementFails, Crash, Recover, JobLeaseExpires
<1> QED BY <1>2, <1>3, <1>4, <1>5, <1>6, <1>7, <1>8 DEF SliceStep

(* One row of the table, before and after the step.                        *)
LEMMA RowSteps ==
    ASSUME TypeOK, SliceStep, NEW c \in Chunks
    PROVE  \/ chunk'[c] = chunk[c]
           \/ \E r \in Runs : /\ Handles(r, "take", c) /\ Claimable(c)
                              /\ chunk'[c] = ClaimedRow(c, r)
           \/ \E r \in Runs : /\ Handles(r, "markExhausted", c) /\ chunk[c].leaseId = r
                              /\ chunk'[c] = Settled(chunk[c], "failed", TRUE)
           \/ \E status \in {"completed", "failed", "queued"}, err \in BOOLEAN :
                  /\ chunk[c].status \in {"queued", "running"}
                  /\ status = "failed" => Exhausted(c)
                  /\ chunk'[c] = Settled(chunk[c], status, err)
           \/ chunk[c].status = "running" /\ chunk'[c] = [chunk[c] EXCEPT !.live = FALSE]
<1> DEFINE Goal == \/ chunk'[c] = chunk[c]
                   \/ \E r \in Runs : /\ Handles(r, "take", c) /\ Claimable(c)
                                      /\ chunk'[c] = ClaimedRow(c, r)
                   \/ \E r \in Runs : /\ Handles(r, "markExhausted", c) /\ chunk[c].leaseId = r
                                      /\ chunk'[c] = Settled(chunk[c], "failed", TRUE)
                   \/ \E status \in {"completed", "failed", "queued"}, err \in BOOLEAN :
                          /\ chunk[c].status \in {"queued", "running"}
                          /\ status = "failed" => Exhausted(c)
                          /\ chunk'[c] = Settled(chunk[c], status, err)
                   \/ chunk[c].status = "running" /\ chunk'[c] = [chunk[c] EXCEPT !.live = FALSE]
<1>0. chunk \in [Chunks -> ChunkType]
    BY DEF TypeOK
<1>1. ASSUME NEW d \in Chunks, NEW row, chunk' = [chunk EXCEPT ![d] = row]
      PROVE  chunk'[c] = IF c = d THEN row ELSE chunk[c]
    BY <1>0, <1>1
<1>2. ASSUME NEW d \in Chunks, NEW r \in Runs, Handles(r, "take", d), ClaimBackfillChunk(d, r)
      PROVE  Goal
    BY <1>1, <1>2 DEF ClaimBackfillChunk
<1>3. ASSUME NEW d \in Chunks, NEW r \in Runs, Handles(r, "markExhausted", d), FailOverAttempted(d, r)
      PROVE  Goal
    BY <1>1, <1>3 DEF FailOverAttempted
<1>4. ASSUME NEW d \in Chunks, NEW r \in Runs, NEW token \in Nat, NEW partial \in BOOLEAN,
             CompleteBackfillChunk(d, r, token, partial)
      PROVE  Goal
    BY <1>1, <1>4 DEF CompleteBackfillChunk, FencingGuard
<1>5. ASSUME NEW d \in Chunks, NEW r \in Runs, NEW token \in Nat, FailBackfillChunk(d, r, token)
      PROVE  Goal
    <2> DEFINE status == IF Exhausted(d) THEN "failed" ELSE "queued"
    <2>1. status \in {"completed", "failed", "queued"} /\ (status = "failed" => Exhausted(d))
        OBVIOUS
    <2>2. chunk'[c] = IF c = d THEN Settled(chunk[d], status, TRUE) ELSE chunk[c]
        BY <1>1, <1>5 DEF FailBackfillChunk
    <2>3. chunk[d].status = "running"
        BY <1>5 DEF FailBackfillChunk, FencingGuard
    <2> HIDE DEF status
    <2> QED BY <2>1, <2>2, <2>3
<1>6. ASSUME SweepExhaustedChunks
      PROVE  Goal
    BY <1>6 DEF SweepExhaustedChunks, Expired
<1>7. ASSUME FailExhaustedQueuedChunks
      PROVE  Goal
    BY <1>7 DEF FailExhaustedQueuedChunks
<1>8. ASSUME NEW d \in Chunks, ExpireChunkLease(d)
      PROVE  Goal
    BY <1>1, <1>8 DEF ExpireChunkLease
<1>9. ASSUME UNCHANGED <<chunk, author>>
      PROVE  Goal
    BY <1>9
<1> HIDE DEF Goal
<1>10. Goal
    BY <1>2, <1>3, <1>4, <1>5, <1>6, <1>7, <1>8, <1>9 DEF SliceStep
<1> QED BY <1>10 DEF Goal

LEMMA LeasePreserved ==
    ASSUME TypeOK, LeasedWhileRunning, SliceStep
    PROVE  LeasedWhileRunning'
<1> SUFFICES ASSUME NEW c \in Chunks
             PROVE  chunk'[c].status = "running" <=> chunk'[c].leaseId # NoRun
    BY DEF LeasedWhileRunning
<1>1. chunk[c] \in ChunkType
    BY DEF TypeOK
<1>2. ASSUME NEW status \in {"completed", "failed", "queued"}, NEW err \in BOOLEAN,
             chunk'[c] = Settled(chunk[c], status, err)
      PROVE  chunk'[c].status = "running" <=> chunk'[c].leaseId # NoRun
    <2>1. status \in ChunkStatus /\ status # "running"
        BY DEF ChunkStatus
    <2>2. chunk'[c].status = status /\ chunk'[c].leaseId = NoRun
        BY <1>1, <1>2, <2>1, SettledType
    <2> QED BY <2>1, <2>2
<1>3. ASSUME chunk'[c] = [chunk[c] EXCEPT !.live = FALSE]
      PROVE  chunk'[c].status = "running" <=> chunk'[c].leaseId # NoRun
    BY <1>1, <1>3 DEF ChunkType, LeasedWhileRunning
<1>4. ASSUME NEW r \in Runs, chunk'[c] = ClaimedRow(c, r)
      PROVE  chunk'[c].status = "running" <=> chunk'[c].leaseId # NoRun
    BY <1>1, <1>4, ClaimedRowType
<1> QED BY <1>2, <1>3, <1>4, RowSteps DEF LeasedWhileRunning

(* Attempts are never taken back, and a lease that stands after the step   *)
(* stood before it with the same attempts, unless it was just claimed.     *)
LEMMA AttemptsGrow ==
    ASSUME TypeOK, SliceStep, NEW c \in Chunks
    PROVE  /\ chunk'[c].attempts >= chunk[c].attempts
           /\ chunk'[c].leaseId # NoRun =>
                 \/ /\ chunk'[c].leaseId = chunk[c].leaseId
                    /\ chunk'[c].attempts = chunk[c].attempts
                 \/ \E r \in Runs : Handles(r, "take", c) /\ chunk'[c].leaseId = r
<1>1. chunk[c] \in ChunkType /\ chunk[c].attempts \in Nat
    BY DEF TypeOK, ChunkType
<1>2. ASSUME NEW status \in {"completed", "failed", "queued"}, NEW err \in BOOLEAN,
             chunk'[c] = Settled(chunk[c], status, err)
      PROVE  chunk'[c].attempts = chunk[c].attempts /\ chunk'[c].leaseId = NoRun
    <2>1. status \in ChunkStatus
        BY DEF ChunkStatus
    <2> QED BY <1>1, <1>2, <2>1, SettledType
<1>3. ASSUME chunk'[c] = [chunk[c] EXCEPT !.live = FALSE]
      PROVE  chunk'[c].attempts = chunk[c].attempts /\ chunk'[c].leaseId = chunk[c].leaseId
    BY <1>1, <1>3 DEF ChunkType
<1>4. ASSUME NEW r \in Runs, chunk'[c] = ClaimedRow(c, r)
      PROVE  chunk'[c].attempts = chunk[c].attempts + 1 /\ chunk'[c].leaseId = r
    BY <1>4 DEF ClaimedRow
<1>5. \/ chunk'[c].attempts = chunk[c].attempts
      \/ chunk'[c].attempts = chunk[c].attempts + 1
    BY <1>2, <1>3, <1>4, RowSteps
<1>6. chunk'[c].leaseId # NoRun =>
         \/ /\ chunk'[c].leaseId = chunk[c].leaseId
            /\ chunk'[c].attempts = chunk[c].attempts
         \/ \E r \in Runs : Handles(r, "take", c) /\ chunk'[c].leaseId = r
    BY <1>2, <1>3, <1>4, RowSteps
<1> QED BY <1>1, <1>5, <1>6

(* How a run enters the points where it holds a claim: by the claim, by    *)
(* the re-read, and from one point of the treatment to the next.           *)
HeldPoints == {"reread", "markExhausted"} \cup SlicePoints
Holds(q, point, c) == run'[q].pc = point /\ run'[q].cur = c
Moves(q) ==
    \/ run'[q].pc \notin HeldPoints
    \/ Holds(q, run[q].pc, run[q].cur)
    \/ TakeChunk(q) /\ Holds(q, "reread", run[q].cur)
    \/ ReadClaim(q) /\ OverAttempted(run[q].cur) /\ Holds(q, "markExhausted", run[q].cur)
    \/ ReadClaim(q) /\ ~OverAttempted(run[q].cur) /\ Holds(q, "exec", run[q].cur)
    \/ /\ run[q].pc \in SlicePoints
       /\ run'[q].pc \in SlicePoints \ {"exec"} /\ run'[q].cur = run[q].cur

LEMMA TreatmentMoves ==
    ASSUME TypeOK, [Next]_vars, NEW q \in Runs
    PROVE  Moves(q)
<1>0. run \in [Runs -> RunType] /\ \A r \in Runs : run[r] \in RunType
    BY DEF TypeOK
<1>1. ASSUME NEW r \in Runs, NEW state, run' = [run EXCEPT ![r] = state]
      PROVE  \/ run'[q] = run[q]
             \/ q = r /\ run'[q] = state
    BY <1>0, <1>1
<1>2. ASSUME NEW r \in Runs, NEW point, Resume(r, point)
      PROVE  run'[q] = run[q] \/ run'[q].pc = point
    <2>1. Blank(point, run[r].leaseLost).pc = point
        BY DEF Blank
    <2> QED BY <1>1, <1>2, <2>1 DEF Resume
<1>3. ASSUME NEW r \in Runs, End(r)
      PROVE  run'[q] = run[q] \/ run'[q].pc = "ended"
    <2>1. Blank("ended", FALSE).pc = "ended"
        BY DEF Blank
    <2> QED BY <1>1, <1>3, <2>1 DEF End
<1>4. ASSUME NEW r \in Runs, NEW point, Goto(r, point)
      PROVE  run'[q] = run[q] \/ (q = r /\ Holds(q, point, run[q].cur))
    <2>1. run' = [run EXCEPT ![r] = [run[r] EXCEPT !.pc = point]]
        BY <1>4 DEF Goto
    <2>2. [run[r] EXCEPT !.pc = point].pc = point /\ [run[r] EXCEPT !.pc = point].cur = run[r].cur
        BY <1>0 DEF RunType
    <2> QED BY <1>1, <2>1, <2>2 DEF Holds
<1>5. ASSUME NEW r \in Runs, NEW point, List(r, point)
      PROVE  run'[q] = run[q] \/ run'[q].pc = point
    <2>1. [run[r] EXCEPT !.pc = point, !.seen = Completed].pc = point
        BY <1>0 DEF RunType
    <2> QED BY <1>1, <1>5, <2>1 DEF List
<1>6. ASSUME run'[q] = run[q]
      PROVE  Moves(q)
    BY <1>6 DEF Moves, Holds
<1>7. ASSUME NEW r \in Runs, SelectCandidate(r)
      PROVE  Moves(q)
    <2>1. ASSUME NEW c \in Chunks, run' = [run EXCEPT ![r] = [@ EXCEPT !.pc = "check", !.cur = c]]
          PROVE  Moves(q)
        <3>1. [run[r] EXCEPT !.pc = "check", !.cur = c].pc = "check"
            BY <1>0 DEF RunType
        <3> QED BY <1>1, <1>6, <2>1, <3>1 DEF Moves, HeldPoints, SlicePoints
    <2>2. CASE Goto(r, "lastRead")
        BY <1>4, <1>6, <2>2 DEF Moves, Holds, HeldPoints, SlicePoints
    <2> QED BY <1>7, <2>1, <2>2 DEF SelectCandidate
<1>8. ASSUME NEW r \in Runs, TakeChunk(r)
      PROVE  Moves(q)
    <2>1. CASE Goto(r, "reread")
        BY <1>4, <1>6, <1>8, <2>1 DEF Moves
    <2>2. CASE Resume(r, "lastRead")
        BY <1>2, <1>6, <2>2 DEF Moves, HeldPoints, SlicePoints
    <2> QED BY <1>8, <2>1, <2>2 DEF TakeChunk
<1>9. ASSUME NEW r \in Runs, ReadClaim(r)
      PROVE  Moves(q)
    <2> DEFINE c == run[r].cur
               token == chunk[c].fencingToken
    <2>1. CASE OverAttempted(c)
        BY <1>4, <1>6, <1>9, <2>1 DEF Moves, ReadClaim
    <2>2. CASE ~OverAttempted(c)
        <3>1. run' = [run EXCEPT ![r] = [run[r] EXCEPT !.pc = "exec", !.token = token]]
            BY <1>9, <2>2 DEF ReadClaim
        <3>2. /\ [run[r] EXCEPT !.pc = "exec", !.token = token].pc = "exec"
              /\ [run[r] EXCEPT !.pc = "exec", !.token = token].cur = c
            BY <1>0 DEF RunType
        <3>3. run'[q] = run[q] \/ (q = r /\ Holds(q, "exec", c))
            BY <1>1, <3>1, <3>2 DEF Holds
        <3> QED BY <1>6, <1>9, <2>2, <3>3 DEF Moves
    <2> QED BY <2>1, <2>2
<1>10. ASSUME NEW r \in Runs, ContactProvider(r)
       PROVE  Moves(q)
    <2>1. ASSUME NEW o \in Outcomes,
                 run' = [run EXCEPT ![r] = [@ EXCEPT !.pc = "report", !.outcome = o]]
          PROVE  Moves(q)
        <3>1. /\ [run[r] EXCEPT !.pc = "report", !.outcome = o].pc = "report"
              /\ [run[r] EXCEPT !.pc = "report", !.outcome = o].cur = run[r].cur
            BY <1>0 DEF RunType
        <3>2. run[r].pc \in SlicePoints
            BY <1>10 DEF ContactProvider, At, SlicePoints
        <3> QED BY <1>1, <1>6, <2>1, <3>1, <3>2 DEF Moves, SlicePoints
    <2>2. CASE End(r)
        BY <1>3, <1>6, <2>2 DEF Moves, HeldPoints, SlicePoints
    <2> QED BY <1>10, <2>1, <2>2 DEF ContactProvider
<1>11. ASSUME NEW r \in Runs, ReportProgress(r)
       PROVE  Moves(q)
    <2>1. run[r].pc \in SlicePoints
        BY <1>11 DEF ReportProgress, At, SlicePoints
    <2>2. CASE End(r)
        BY <1>3, <1>6, <2>2 DEF Moves, HeldPoints, SlicePoints
    <2>3. ASSUME NEW point \in {"failChunk", "complete"}, Goto(r, point)
          PROVE  Moves(q)
        BY <1>4, <1>6, <2>1, <2>3 DEF Moves, Holds, SlicePoints
    <2> QED BY <1>11, <2>2, <2>3 DEF ReportProgress
<1>12. ASSUME NEW r \in Runs, StatementFails(r)
       PROVE  Moves(q)
    <2>1. CASE Resume(r, "failJob")
        BY <1>2, <1>6, <2>1 DEF Moves, HeldPoints, SlicePoints
    <2>2. CASE run[r].pc \in SlicePoints /\ Goto(r, "failChunk")
        BY <1>4, <1>6, <2>2 DEF Moves, Holds, SlicePoints
    <2> QED BY <1>12, <2>1, <2>2 DEF StatementFails, SlicePoints
<1>13. ASSUME NEW r \in Runs, HeartbeatFails(r)
       PROVE  Moves(q)
    <2>1. run' = [run EXCEPT ![r] = [run[r] EXCEPT !.leaseLost = TRUE]]
        BY <1>13 DEF HeartbeatFails
    <2>2. /\ [run[r] EXCEPT !.leaseLost = TRUE].pc = run[r].pc
          /\ [run[r] EXCEPT !.leaseLost = TRUE].cur = run[r].cur
        BY <1>0 DEF RunType
    <2> QED BY <1>1, <1>6, <2>1, <2>2 DEF Moves, Holds
<1>14. ASSUME NEW r \in Runs, Claim(r) \/ Start(r) \/ Sweep(r) \/ FailQueued(r)
       PROVE  Moves(q)
    BY <1>3, <1>4, <1>6, <1>14
    DEF Claim, Start, Sweep, FailQueued, Moves, Holds, HeldPoints, SlicePoints
<1>15. ASSUME NEW r \in Runs, CheckCandidate(r)
       PROVE  Moves(q)
    BY <1>2, <1>4, <1>6, <1>15 DEF CheckCandidate, Moves, Holds, HeldPoints, SlicePoints
<1>16. ASSUME NEW r \in Runs, MarkExhausted(r) \/ CompleteChunk(r) \/ FailChunk(r) \/ MirrorWrite(r)
       PROVE  Moves(q)
    BY <1>2, <1>6, <1>16
    DEF MarkExhausted, CompleteChunk, FailChunk, MirrorWrite, Moves, HeldPoints, SlicePoints
<1>17. ASSUME NEW r \in Runs, Finish(r) \/ FailJob(r) \/ Crash(r)
       PROVE  Moves(q)
    BY <1>3, <1>6, <1>17 DEF Finish, FailJob, Crash, Moves, HeldPoints, SlicePoints
<1>18. ASSUME NEW r \in Runs, MirrorRead(r) \/ Verdict(r)
       PROVE  Moves(q)
    BY <1>4, <1>5, <1>6, <1>18 DEF MirrorRead, Verdict, Moves, Holds, HeldPoints, SlicePoints
<1>19. \/ UNCHANGED run
       \/ \E r \in Runs : Claim(r) \/ Step(r) \/ HeartbeatFails(r) \/ StatementFails(r) \/ Crash(r)
    BY DEF Next, vars, Recover, JobLeaseExpires, ChunkLeaseExpires
<1> QED BY <1>6, <1>7, <1>8, <1>9, <1>10, <1>11, <1>12, <1>13, <1>14, <1>15, <1>16, <1>17, <1>18,
           <1>19 DEF Step

(* What the re-read of a claim establishes.  A run about to mark a slice   *)
(* exhausted has seen too many attempts, and they only grow; a run at work *)
(* whose lease still stands has seen no more than allowed, and a later     *)
(* claim would have replaced its lease.                                    *)
ClaimsRead ==
    /\ \A r \in Runs : At(r, "markExhausted") => chunk[run[r].cur].attempts > MaxAttempts
    /\ \A r \in Runs :
          run[r].pc \in SlicePoints /\ chunk[run[r].cur].leaseId = r
             => chunk[run[r].cur].attempts <= MaxAttempts

LEMMA ClaimsReadPreserved ==
    ASSUME TypeOK, ClaimsRead, [Next]_vars
    PROVE  ClaimsRead'
<1>0. \A c \in Chunks : chunk[c].attempts \in Nat /\ chunk'[c].attempts \in Nat
    BY NextType DEF TypeOK, ChunkType
<1>1. ASSUME NEW q \in Runs, run'[q].pc = "markExhausted"
      PROVE  chunk'[run'[q].cur].attempts > MaxAttempts
    <2>1. /\ run'[q].cur = run[q].cur /\ run[q].cur \in Chunks
          /\ chunk[run[q].cur].attempts > MaxAttempts
        <3>1. \/ Holds(q, run[q].pc, run[q].cur)
              \/ ReadClaim(q) /\ OverAttempted(run[q].cur) /\ Holds(q, "markExhausted", run[q].cur)
            BY <1>1, TreatmentMoves DEF Moves, Holds, HeldPoints, SlicePoints
        <3>2. run'[q].cur = run[q].cur /\ run[q].cur \in Chunks
            BY <1>1, <3>1 DEF Holds, ReadClaim, At, TypeOK, Treating, ClaimPoints
        <3> QED BY <1>1, <3>1, <3>2 DEF Holds, ClaimsRead, At, OverAttempted
    <2>2. chunk'[run[q].cur].attempts >= chunk[run[q].cur].attempts
        BY <2>1, StepIsSliceStep, AttemptsGrow
    <2>3. chunk[run[q].cur].attempts \in Nat /\ chunk'[run[q].cur].attempts \in Nat
        BY <1>0, <2>1
    <2> QED BY <2>1, <2>2, <2>3
<1>2. ASSUME NEW q \in Runs, run'[q].pc \in SlicePoints, chunk'[run'[q].cur].leaseId = q
      PROVE  chunk'[run'[q].cur].attempts <= MaxAttempts
    <2>1. CASE ReadClaim(q)
        <3>1. ~OverAttempted(run[q].cur) /\ run'[q].cur = run[q].cur
            BY <1>2, <2>1, TreatmentMoves
            DEF Moves, Holds, HeldPoints, SlicePoints, ReadClaim, TakeChunk, At
        <3>2. chunk' = chunk /\ run[q].cur \in Chunks
            BY <2>1 DEF ReadClaim, At, TypeOK, Treating, ClaimPoints
        <3>3. chunk[run[q].cur].attempts \in Nat
            BY <1>0, <3>2
        <3> QED BY <3>1, <3>2, <3>3 DEF OverAttempted
    <2>2. CASE ~ReadClaim(q)
        <3>1. run[q].pc \in SlicePoints /\ run'[q].cur = run[q].cur
            BY <1>2, <2>2, TreatmentMoves DEF Moves, Holds, HeldPoints, SlicePoints
        <3>2. run[q].cur \in Chunks
            BY <3>1 DEF TypeOK, Treating
        <3>3. ~Handles(q, "take", run[q].cur)
            BY <3>1 DEF Handles, At, SlicePoints
        <3>4. /\ chunk[run[q].cur].leaseId = q
              /\ chunk'[run[q].cur].attempts = chunk[run[q].cur].attempts
            BY <1>2, <3>1, <3>2, <3>3, StepIsSliceStep, AttemptsGrow
        <3> QED BY <3>1, <3>4 DEF ClaimsRead
    <2> QED BY <2>1, <2>2
<1> QED BY <1>1, <1>2 DEF ClaimsRead, At

RowsInv == TypeOK /\ LeasedWhileRunning /\ ClaimsRead

(* The invariant of the claims, on which the other theorems rest.          *)
THEOREM RowsInvariant == Spec => []RowsInv
<1>1. Init => LeasedWhileRunning
    BY DEF Init, ChunkInit, LeasedWhileRunning
<1>2. Init => ClaimsRead
    <2>1. Blank("unclaimed", FALSE).pc = "unclaimed"
        BY DEF Blank
    <2> QED BY <2>1 DEF Init, ClaimsRead, At, SlicePoints
<1>3. TypeOK /\ LeasedWhileRunning /\ [Next]_vars => LeasedWhileRunning'
    BY StepIsSliceStep, LeasePreserved
<1>4. TypeOK /\ ClaimsRead /\ [Next]_vars => ClaimsRead'
    BY ClaimsReadPreserved
<1> QED BY <1>1, <1>2, <1>3, <1>4, TypeInvariant, PTL DEF Spec, RowsInv

-----------------------------------------------------------------------------
(* How a slice can change in one step.                                     *)

Evolves(c) ==
    /\ chunk[c].status = "completed" => chunk'[c].status = "completed"
    /\ chunk'[c].status = "failed" =>
          \/ chunk[c].status = "failed" /\ chunk'[c].attempts = chunk[c].attempts
          \/ chunk'[c].attempts >= MaxAttempts
    /\ chunk'[c].attempts >= chunk[c].attempts

(* No step takes a completed slice back, and each of the four places that  *)
(* fail a slice finds its attempts used up.                                *)
LEMMA SlicesEvolve ==
    ASSUME RowsInv, [Next]_vars, NEW d \in Chunks
    PROVE  Evolves(d)
<1> USE DEF RowsInv
<1>0. chunk[d] \in ChunkType /\ chunk[d].attempts \in Nat
    BY DEF TypeOK, ChunkType
<1>1. CASE chunk'[d] = chunk[d]
    BY <1>0, <1>1 DEF Evolves
<1>2. ASSUME NEW r \in Runs, Claimable(d), chunk'[d] = ClaimedRow(d, r)
      PROVE  Evolves(d)
    BY <1>0, <1>2, ClaimedRowType DEF Evolves, Claimable, Expired
<1>3. ASSUME NEW r \in Runs, Handles(r, "markExhausted", d), chunk[d].leaseId = r,
             chunk'[d] = Settled(chunk[d], "failed", TRUE)
      PROVE  Evolves(d)
    <2>1. chunk[d].status = "running" /\ chunk[d].attempts > MaxAttempts
        BY <1>3 DEF LeasedWhileRunning, ClaimsRead, Handles
    <2>2. /\ Settled(chunk[d], "failed", TRUE).attempts = chunk[d].attempts
          /\ Settled(chunk[d], "failed", TRUE).status = "failed"
        BY <1>0, SettledType DEF ChunkStatus
    <2>3. /\ chunk'[d].attempts = chunk[d].attempts /\ chunk'[d].status = "failed"
          /\ chunk[d].attempts \in Nat
        BY <1>0, <1>3, <2>2
    <2>4. chunk'[d].attempts >= MaxAttempts /\ chunk'[d].attempts >= chunk[d].attempts
        BY <2>1, <2>3
    <2> QED BY <2>1, <2>3, <2>4 DEF Evolves
<1>4. ASSUME NEW status \in {"completed", "failed", "queued"}, NEW err \in BOOLEAN,
             chunk[d].status \in {"queued", "running"}, status = "failed" => Exhausted(d),
             chunk'[d] = Settled(chunk[d], status, err)
      PROVE  Evolves(d)
    <2>2. status \in ChunkStatus
        BY DEF ChunkStatus
    <2>1. chunk'[d].attempts = chunk[d].attempts /\ chunk'[d].status = status
        BY <1>0, <1>4, <2>2, SettledType
    <2> QED BY <1>0, <1>4, <2>1 DEF Evolves, Exhausted
<1>5. ASSUME chunk[d].status = "running", chunk'[d] = [chunk[d] EXCEPT !.live = FALSE]
      PROVE  Evolves(d)
    <2>1. chunk'[d].attempts = chunk[d].attempts /\ chunk'[d].status = chunk[d].status
        BY <1>0, <1>5 DEF ChunkType
    <2> QED BY <1>0, <1>5, <2>1 DEF Evolves
<1> QED BY <1>1, <1>2, <1>3, <1>4, <1>5, StepIsSliceStep, RowSteps

(* A slice is given up only when its attempts are used up.                 *)
THEOREM FailedMeansExhausted == Spec => []FailedSliceUsedItsAttempts
<1>1. Init => FailedSliceUsedItsAttempts
    BY DEF Init, ChunkInit, FailedSliceUsedItsAttempts
<1>2. RowsInv /\ FailedSliceUsedItsAttempts /\ [Next]_vars => FailedSliceUsedItsAttempts'
    BY SlicesEvolve DEF Evolves, FailedSliceUsedItsAttempts
<1> QED BY <1>1, <1>2, RowsInvariant, PTL DEF Spec

-----------------------------------------------------------------------------
(* Listings: what a run has seen completed.                                *)

LEMMA CompletedGrows ==
    ASSUME RowsInv, [Next]_vars
    PROVE  Completed \subseteq Completed'
BY SlicesEvolve DEF Evolves, Completed, WithStatus

LEMMA SeenEvolves ==
    ASSUME TypeOK, [Next]_vars, NEW q \in Runs
    PROVE  run'[q].seen \in {run[q].seen, Completed, {}}
<1>0. run \in [Runs -> RunType] /\ \A r \in Runs : run[r] \in RunType
    BY DEF TypeOK
<1>1. ASSUME NEW r \in Runs, NEW state, run' = [run EXCEPT ![r] = state],
             state.seen \in {run[r].seen, Completed, {}}
      PROVE  run'[q].seen \in {run[q].seen, Completed, {}}
    BY <1>0, <1>1
<1>2. ASSUME NEW r \in Runs, NEW point, Resume(r, point) \/ End(r)
      PROVE  run'[q].seen \in {run[q].seen, Completed, {}}
    <2>1. \A lost \in BOOLEAN : Blank(point, lost).seen = {} /\ Blank("ended", lost).seen = {}
        BY DEF Blank
    <2>2. run[r].leaseLost \in BOOLEAN
        BY <1>0 DEF RunType
    <2> QED BY <1>1, <1>2, <2>1, <2>2 DEF Resume, End
<1>3. ASSUME NEW r \in Runs, NEW point, Goto(r, point)
      PROVE  run'[q].seen \in {run[q].seen, Completed, {}}
    <2>1. run' = [run EXCEPT ![r] = [run[r] EXCEPT !.pc = point]]
        BY <1>3 DEF Goto
    <2>2. [run[r] EXCEPT !.pc = point].seen = run[r].seen
        BY <1>0 DEF RunType
    <2> QED BY <1>1, <2>1, <2>2
<1>4. ASSUME NEW r \in Runs, NEW point, List(r, point)
      PROVE  run'[q].seen \in {run[q].seen, Completed, {}}
    <2>1. [run[r] EXCEPT !.pc = point, !.seen = Completed].seen = Completed
        BY <1>0 DEF RunType
    <2> QED BY <1>1, <1>4, <2>1 DEF List
<1>5. ASSUME NEW r \in Runs, SelectCandidate(r)
      PROVE  run'[q].seen \in {run[q].seen, Completed, {}}
    <2>1. ASSUME NEW c \in Chunks, run' = [run EXCEPT ![r] = [@ EXCEPT !.pc = "check", !.cur = c]]
          PROVE  run'[q].seen \in {run[q].seen, Completed, {}}
        <3>1. [run[r] EXCEPT !.pc = "check", !.cur = c].seen = run[r].seen
            BY <1>0 DEF RunType
        <3> QED BY <1>1, <2>1, <3>1
    <2> QED BY <1>3, <1>5, <2>1 DEF SelectCandidate
<1>6. ASSUME NEW r \in Runs, ReadClaim(r)
      PROVE  run'[q].seen \in {run[q].seen, Completed, {}}
    <2> DEFINE token == chunk[run[r].cur].fencingToken
    <2>1. ASSUME run' = [run EXCEPT ![r] = [@ EXCEPT !.pc = "exec", !.token = token]]
          PROVE  run'[q].seen \in {run[q].seen, Completed, {}}
        <3>1. [run[r] EXCEPT !.pc = "exec", !.token = token].seen = run[r].seen
            BY <1>0 DEF RunType
        <3> QED BY <1>1, <2>1, <3>1
    <2> QED BY <1>3, <1>6, <2>1 DEF ReadClaim
<1>7. ASSUME NEW r \in Runs, ContactProvider(r)
      PROVE  run'[q].seen \in {run[q].seen, Completed, {}}
    <2>1. ASSUME NEW o \in Outcomes,
                 run' = [run EXCEPT ![r] = [@ EXCEPT !.pc = "report", !.outcome = o]]
          PROVE  run'[q].seen \in {run[q].seen, Completed, {}}
        <3>1. [run[r] EXCEPT !.pc = "report", !.outcome = o].seen = run[r].seen
            BY <1>0 DEF RunType
        <3> QED BY <1>1, <2>1, <3>1
    <2> QED BY <1>2, <1>7, <2>1 DEF ContactProvider
<1>8. ASSUME NEW r \in Runs, HeartbeatFails(r)
      PROVE  run'[q].seen \in {run[q].seen, Completed, {}}
    <2>1. run' = [run EXCEPT ![r] = [run[r] EXCEPT !.leaseLost = TRUE]]
        BY <1>8 DEF HeartbeatFails
    <2>2. [run[r] EXCEPT !.leaseLost = TRUE].seen = run[r].seen
        BY <1>0 DEF RunType
    <2> QED BY <1>1, <2>1, <2>2
<1>9. ASSUME NEW r \in Runs, Claim(r) \/ Start(r) \/ Sweep(r) \/ FailQueued(r)
                             \/ CheckCandidate(r) \/ TakeChunk(r) \/ MarkExhausted(r)
                             \/ ReportProgress(r)
      PROVE  run'[q].seen \in {run[q].seen, Completed, {}}
    BY <1>2, <1>3, <1>9 DEF Claim, Start, Sweep, FailQueued, CheckCandidate,
                                   TakeChunk, MarkExhausted, ReportProgress
<1>10. ASSUME NEW r \in Runs, CompleteChunk(r) \/ FailChunk(r) \/ MirrorWrite(r) \/ Finish(r)
                              \/ FailJob(r) \/ StatementFails(r) \/ Crash(r)
       PROVE  run'[q].seen \in {run[q].seen, Completed, {}}
    BY <1>2, <1>3, <1>10 DEF CompleteChunk, FailChunk, MirrorWrite, Finish, FailJob,
                             StatementFails, Crash
<1>11. ASSUME NEW r \in Runs, MirrorRead(r) \/ Verdict(r)
       PROVE  run'[q].seen \in {run[q].seen, Completed, {}}
    BY <1>3, <1>4, <1>11 DEF MirrorRead, Verdict
<1>12. CASE UNCHANGED run
    BY <1>12
<1>13. \/ UNCHANGED run
       \/ \E r \in Runs : Claim(r) \/ Step(r) \/ HeartbeatFails(r) \/ StatementFails(r) \/ Crash(r)
    BY DEF Next, vars, Recover, JobLeaseExpires, ChunkLeaseExpires
<1> QED BY <1>5, <1>6, <1>7, <1>8, <1>9, <1>10, <1>11, <1>12, <1>13 DEF Step

(* What a run has listed as completed is completed still.                  *)
THEOREM ListingsInvariant == Spec => []ListingsStayTrue
<1>1. Init => ListingsStayTrue
    <2>1. Blank("unclaimed", FALSE).seen = {}
        BY DEF Blank
    <2> QED BY <2>1 DEF Init, ListingsStayTrue
<1>2. RowsInv /\ ListingsStayTrue /\ [Next]_vars => ListingsStayTrue'
    BY SeenEvolves, CompletedGrows DEF ListingsStayTrue, RowsInv
<1> QED BY <1>1, <1>2, RowsInvariant, PTL DEF Spec

-----------------------------------------------------------------------------
(* The verdict of the job.                                                 *)

(* A step that changes the job finds it queued or running; one that makes  *)
(* it completed is the Finish of a run that listed every slice.            *)
LEMMA JobEvolves ==
    ASSUME TypeOK, [Next]_vars, job' # job
    PROVE  /\ job.status \notin JobTerminal
           /\ job'.status = "completed" => \E r \in Runs : run[r].seen = Chunks
<1>0. job \in JobType /\ job.status \in JobStatus
    BY DEF TypeOK, JobType
<1>1. ASSUME NEW r \in Runs, Claim(r)
      PROVE  job.status \notin JobTerminal /\ job'.status # "completed"
    BY <1>0, <1>1 DEF Claim, ClaimImportJob, JobClaimable, JobTerminal, JobType
<1>2. ASSUME NEW r \in Runs, Finish(r)
      PROVE  /\ job.status \notin JobTerminal
             /\ job'.status = "completed" => run[r].seen = Chunks
    <2>1. OwnsJob(r) /\ job' = Relinquished(JobOutcome(run[r].seen))
        BY <1>2 DEF Finish, CompleteImportJob, jobVars
    <2>2. JobOutcome(run[r].seen) \in JobStatus
        BY DEF JobOutcome, JobStatus, JobTerminal
    <2>3. job'.status = JobOutcome(run[r].seen)
        BY <1>0, <2>1, <2>2, RelinquishedType
    <2> QED BY <2>1, <2>3 DEF OwnsJob, JobTerminal, JobOutcome
<1>3. ASSUME NEW r \in Runs, FailJob(r)
      PROVE  job.status \notin JobTerminal /\ job'.status # "completed"
    <2>1. FailImportJob(r)
        BY <1>3 DEF FailJob, jobVars
    <2> QED BY <1>0, <2>1, FailImportJobType DEF FailImportJob, OwnsJob, JobTerminal
<1>4. CASE Recover
    <2>1. Relinquished("queued").status = "queued"
        BY <1>0, RelinquishedType DEF JobStatus
    <2> QED BY <1>4, <2>1 DEF Recover, RecoverExpiredJob, JobTerminal
<1>5. CASE JobLeaseExpires
    BY <1>0, <1>5 DEF JobLeaseExpires, ExpireJobLease, JobTerminal, JobType
<1>6. Recover \/ JobLeaseExpires \/ \E r \in Runs : Claim(r) \/ Finish(r) \/ FailJob(r)
    BY DEF Next, Step, vars, jobVars, Start, Sweep, FailQueued, SelectCandidate, CheckCandidate,
           TakeChunk, ReadClaim, MarkExhausted, ContactProvider, ReportProgress, UpdateImportJobProgress, CompleteChunk,
           FailChunk, MirrorRead, MirrorWrite, Verdict, HeartbeatFails, StatementFails, Crash,
           ChunkLeaseExpires
<1> QED BY <1>1, <1>2, <1>3, <1>4, <1>5, <1>6

(* Nothing moves a terminal job: no stale run, no recovery, no retry.      *)
THEOREM VerdictIsFinal == Spec => JobVerdictIsFinal
<1>1. TypeOK /\ [Next]_vars => [job.status \in JobTerminal => job' = job]_vars
    BY JobEvolves
<1> QED BY <1>1, TypeInvariant, PTL DEF Spec, JobVerdictIsFinal

(* A completed job has only completed slices.                              *)
THEOREM CompletedIsComplete == Spec => []CompletedJobIsComplete
<1>1. Init => CompletedJobIsComplete
    BY DEF Init, JobInit, CompletedJobIsComplete
<1>2. RowsInv /\ ListingsStayTrue /\ CompletedJobIsComplete /\ [Next]_vars => CompletedJobIsComplete'
    <2> SUFFICES ASSUME RowsInv, ListingsStayTrue, CompletedJobIsComplete, [Next]_vars,
                        job'.status = "completed"
                 PROVE  Completed' = Chunks
        BY DEF CompletedJobIsComplete
    <2>1. Completed \subseteq Completed' /\ Completed' \subseteq Chunks
        BY CompletedGrows DEF Completed, WithStatus
    <2>2. Chunks \subseteq Completed
        BY JobEvolves DEF RowsInv, ListingsStayTrue, CompletedJobIsComplete
    <2> QED BY <2>1, <2>2
<1> QED BY <1>1, <1>2, RowsInvariant, ListingsInvariant, PTL DEF Spec

-----------------------------------------------------------------------------
(* The worker implements the ledger.                                       *)

LEMMA JobOrSlices ==
    ASSUME [Next]_vars
    PROVE  UNCHANGED job \/ UNCHANGED <<chunk, author>>
<1>1. \/ UNCHANGED job
      \/ Recover \/ JobLeaseExpires
      \/ \E r \in Runs : Claim(r) \/ Finish(r) \/ FailJob(r)
    BY DEF Next, Step, vars, jobVars, Start, Sweep, FailQueued, SelectCandidate, CheckCandidate,
           TakeChunk, ReadClaim, MarkExhausted, ContactProvider, ReportProgress,
           UpdateImportJobProgress, CompleteChunk, FailChunk, MirrorRead, MirrorWrite, Verdict,
           HeartbeatFails, StatementFails, Crash, ChunkLeaseExpires
<1>2. Recover \/ JobLeaseExpires => UNCHANGED <<chunk, author>>
    BY DEF Recover, JobLeaseExpires, history
<1>3. ASSUME NEW r \in Runs, Claim(r) \/ Finish(r) \/ FailJob(r)
      PROVE  UNCHANGED <<chunk, author>>
    BY <1>3 DEF Claim, Finish, FailJob, history
<1> QED BY <1>1, <1>2, <1>3

-----------------------------------------------------------------------------
(* The refinement mapping, row by row.                                     *)

LEMMA LedgerUpdate ==
    ASSUME TypeOK, NEW c \in Chunks, NEW row, chunk' = [chunk EXCEPT ![c] = row]
    PROVE  LedgerSlice' = [LedgerSlice EXCEPT ![c] = LedgerRow(row)]
BY DEF TypeOK, LedgerSlice

LEMMA LedgerRowFields ==
    ASSUME NEW row \in ChunkType
    PROVE  /\ LedgerRow(row).phase =
                 IF row.status = "completed" THEN "done"
                 ELSE IF row.status = "failed" THEN "dead"
                 ELSE IF row.status = "running" /\ row.attempts > MaxAttempts THEN "forfeit"
                 ELSE "open"
           /\ LedgerRow(row).owner =
                 IF row.status = "running" /\ row.attempts > MaxAttempts THEN NoRun
                 ELSE row.leaseId
           /\ LedgerRow(row).admissions = IF row.attempts > MaxAttempts THEN MaxAttempts
                                          ELSE row.attempts
           /\ LedgerRow(row) = Ledger!Row(LedgerRow(row).phase, LedgerRow(row).owner,
                                          LedgerRow(row).admissions)
<1> DEFINE forfeit == row.status = "running" /\ row.attempts > MaxAttempts
           phase == CASE row.status = "completed" -> "done"
                      [] row.status = "failed" -> "dead"
                      [] forfeit -> "forfeit"
                      [] OTHER -> "open"
           owner == IF forfeit THEN NoRun ELSE row.leaseId
           admissions == IF row.attempts > MaxAttempts THEN MaxAttempts ELSE row.attempts
<1>1. LedgerRow(row) = [phase |-> phase, owner |-> owner, admissions |-> admissions]
    BY DEF LedgerRow
<1>2. phase = IF row.status = "completed" THEN "done"
              ELSE IF row.status = "failed" THEN "dead"
              ELSE IF forfeit THEN "forfeit" ELSE "open"
    OBVIOUS
<1> HIDE DEF phase, owner, admissions
<1>3. /\ LedgerRow(row).phase = phase /\ LedgerRow(row).owner = owner
      /\ LedgerRow(row).admissions = admissions
      /\ LedgerRow(row) = Ledger!Row(LedgerRow(row).phase, LedgerRow(row).owner,
                                     LedgerRow(row).admissions)
    BY <1>1 DEF Ledger!Row
<1> QED BY <1>2, <1>3 DEF owner, admissions

(* A row that is settled without an owner: same admissions.                *)
LEMMA LedgerRowSettled ==
    ASSUME NEW row \in ChunkType, NEW status \in ChunkStatus \ {"running"}, NEW err \in BOOLEAN
    PROVE  LedgerRow(Settled(row, status, err)) =
              Ledger!Row(IF status = "completed" THEN "done"
                         ELSE IF status = "failed" THEN "dead" ELSE "open",
                         NoRun, LedgerRow(row).admissions)
<1> DEFINE new == Settled(row, status, err)
<1>1. /\ new \in ChunkType /\ new.status = status /\ new.leaseId = NoRun
      /\ new.attempts = row.attempts
    BY SettledType
<1> HIDE DEF new
<1>2. /\ LedgerRow(new).phase = IF status = "completed" THEN "done"
                                 ELSE IF status = "failed" THEN "dead" ELSE "open"
      /\ LedgerRow(new).owner = NoRun
      /\ LedgerRow(new).admissions = LedgerRow(row).admissions
      /\ LedgerRow(new) = Ledger!Row(LedgerRow(new).phase, LedgerRow(new).owner,
                                     LedgerRow(new).admissions)
    BY <1>1, LedgerRowFields
<1>3. LedgerRow(new) = Ledger!Row(IF status = "completed" THEN "done"
                                  ELSE IF status = "failed" THEN "dead" ELSE "open",
                                  NoRun, LedgerRow(row).admissions)
    BY <1>2
<1> QED BY <1>3 DEF new

(* What each of them means for the ledger.                                 *)
LEMMA SliceStepSimulated ==
    ASSUME RowsInv, SliceStep, UNCHANGED job
    PROVE  [Ledger!Next]_<<LedgerSlice, author, LedgerVerdict>>
<1> USE DEF RowsInv
<1>0. /\ \A c \in Chunks : chunk[c] \in ChunkType
      /\ \A c \in Chunks : LedgerSlice[c] = LedgerRow(chunk[c])
      /\ LedgerVerdict' = LedgerVerdict
    BY DEF TypeOK, LedgerSlice, LedgerVerdict
<1>1. CASE UNCHANGED <<chunk, author>>
    BY <1>0, <1>1 DEF LedgerSlice
<1>9. ASSUME NEW c \in Chunks, UNCHANGED author,
             Ledger!IsOpen(c) \/ LedgerSlice[c].phase = "forfeit",
             LedgerSlice[c].admissions = MaxAttempts,
             LedgerSlice' = [LedgerSlice EXCEPT ![c] = Ledger!Unowned(c, "dead")]
      PROVE  Ledger!Next
    <2>1. LedgerSlice' = [s \in Chunks |-> IF s \in {c} THEN Ledger!Unowned(s, "dead")
                                           ELSE LedgerSlice[s]]
        BY <1>9 DEF LedgerSlice
    <2>2. Ledger!GiveUp({c})
        BY <1>0, <1>9, <2>1 DEF Ledger!GiveUp, Ledger!IsOpen
    <2> QED BY <2>2 DEF Ledger!Next
<1>2. ASSUME NEW c \in Chunks, NEW r \in Runs, ClaimBackfillChunk(c, r), UNCHANGED author
      PROVE  Ledger!Next \/ UNCHANGED <<LedgerSlice, author, LedgerVerdict>>
    <2> DEFINE row == ClaimedRow(c, r)
    <2>1. /\ row \in ChunkType /\ row.attempts = chunk[c].attempts + 1
          /\ row.status = "running" /\ row.leaseId = r
        BY <1>0, ClaimedRowType
    <2>2. LedgerSlice' = [LedgerSlice EXCEPT ![c] = LedgerRow(row)]
        BY <1>2, LedgerUpdate DEF ClaimBackfillChunk
    <2>3. chunk[c].status \in {"queued", "running"}
        BY <1>2 DEF ClaimBackfillChunk, Claimable, Expired
    <2>4. chunk[c] \in ChunkType /\ chunk[c].attempts \in Nat /\ MaxAttempts \in Nat
        BY <1>0 DEF ChunkType
    <2> HIDE DEF row
    <2>5. CASE chunk[c].attempts < MaxAttempts
        <3>1. /\ LedgerRow(chunk[c]).admissions = chunk[c].attempts
              /\ LedgerRow(chunk[c]).phase = "open"
            BY <2>3, <2>4, <2>5, LedgerRowFields
        <3>2. LedgerRow(row) = Ledger!Row("open", r, chunk[c].attempts + 1)
            BY <2>1, <2>4, <2>5, LedgerRowFields
        <3>3. Ledger!Admit(c, r)
            BY <1>0, <1>2, <2>2, <2>5, <3>1, <3>2 DEF Ledger!Admit, Ledger!IsOpen
        <3> QED BY <3>3 DEF Ledger!Next
    <2>6. CASE ~(chunk[c].attempts < MaxAttempts)
        <3>1. LedgerRow(chunk[c]).admissions = MaxAttempts
            BY <2>4, <2>6, LedgerRowFields
        <3>2. LedgerRow(row) = Ledger!Row("forfeit", NoRun, MaxAttempts)
            BY <2>1, <2>4, <2>6, LedgerRowFields
        <3>3. LedgerRow(row) = Ledger!Unowned(c, "forfeit")
            BY <1>0, <3>1, <3>2 DEF Ledger!Unowned
        <3>4. CASE LedgerRow(chunk[c]).phase = "open"
            <4>1. Ledger!Forfeit(c)
                BY <1>0, <1>2, <2>2, <3>1, <3>3, <3>4 DEF Ledger!Forfeit, Ledger!IsOpen
            <4> QED BY <4>1 DEF Ledger!Next
        <3>5. CASE LedgerRow(chunk[c]).phase # "open"
            <4>1. /\ LedgerRow(chunk[c]).phase = "forfeit"
                  /\ LedgerRow(chunk[c]).owner = NoRun
                BY <2>3, <2>4, <3>5, LedgerRowFields
            <4>2. LedgerRow(chunk[c]) = LedgerRow(row)
                BY <2>4, <3>1, <3>2, <4>1, LedgerRowFields
            <4> QED BY <1>0, <1>2, <2>2, <4>2 DEF LedgerSlice
        <3> QED BY <3>4, <3>5
    <2> QED BY <2>5, <2>6
<1>10. ASSUME NEW c \in Chunks, NEW r \in Runs, Handles(r, "markExhausted", c),
              FailOverAttempted(c, r), UNCHANGED author
       PROVE  Ledger!Next
    <2>1. chunk[c] \in ChunkType /\ chunk[c].status = "running" /\ chunk[c].attempts > MaxAttempts
        BY <1>0, <1>10 DEF FailOverAttempted, LeasedWhileRunning, ClaimsRead, Handles
    <2>2. LedgerSlice[c].phase = "forfeit" /\ LedgerSlice[c].admissions = MaxAttempts
        BY <1>0, <2>1, LedgerRowFields
    <2>3. LedgerSlice' = [LedgerSlice EXCEPT ![c] = LedgerRow(Settled(chunk[c], "failed", TRUE))]
        BY <1>10, LedgerUpdate DEF FailOverAttempted
    <2>4. LedgerRow(Settled(chunk[c], "failed", TRUE)) = Ledger!Unowned(c, "dead")
        BY <1>0, LedgerRowSettled DEF Ledger!Unowned, ChunkStatus
    <2> QED BY <1>9, <1>10, <2>2, <2>3, <2>4
<1>3. ASSUME NEW c \in Chunks, NEW r \in Runs, NEW token \in Nat, NEW partial \in BOOLEAN,
             Handles(r, "complete", c), CompleteBackfillChunk(c, r, token, partial),
             author' = [author EXCEPT ![c] = r]
      PROVE  Ledger!Next
    <2>1. LedgerSlice' = [LedgerSlice EXCEPT ![c] = LedgerRow(Settled(chunk[c], "completed", partial))]
        BY <1>3, LedgerUpdate DEF CompleteBackfillChunk
    <2>2. LedgerRow(Settled(chunk[c], "completed", partial)) = Ledger!Unowned(c, "done")
        BY <1>0, LedgerRowSettled DEF Ledger!Unowned, ChunkStatus
    <2>5. /\ chunk[c] \in ChunkType /\ chunk[c].attempts \in Nat
          /\ chunk[c].status = "running" /\ chunk[c].leaseId = r
        BY <1>0, <1>3 DEF CompleteBackfillChunk, FencingGuard, ChunkType
    <2>6. chunk[c].attempts <= MaxAttempts
        BY <1>3, <2>5 DEF ClaimsRead, Handles, At, SlicePoints
    <2>7. LedgerRow(chunk[c]).phase = "open" /\ LedgerRow(chunk[c]).owner = r
        BY <2>5, <2>6, LedgerRowFields
    <2>3. Ledger!Owned(c) /\ LedgerSlice[c].owner = r
        BY <1>0, <2>7 DEF Ledger!Owned, Ledger!IsOpen
    <2>4. Ledger!Record(c)
        BY <1>0, <1>3, <2>1, <2>2, <2>3 DEF Ledger!Record
    <2> QED BY <2>4 DEF Ledger!Next
<1>4. ASSUME NEW c \in Chunks, NEW r \in Runs, NEW token \in Nat,
             FailBackfillChunk(c, r, token), UNCHANGED author
      PROVE  Ledger!Next
    <2>1. /\ chunk[c] \in ChunkType /\ chunk[c].attempts \in Nat /\ MaxAttempts \in Nat
          /\ chunk[c].status = "running" /\ chunk[c].leaseId # NoRun
        BY <1>0, <1>4 DEF FailBackfillChunk, FencingGuard, ChunkType
    <2>2. CASE Exhausted(c)
        <3>1. LedgerSlice' = [LedgerSlice EXCEPT ![c] = LedgerRow(Settled(chunk[c], "failed", TRUE))]
            BY <1>4, <2>2, LedgerUpdate DEF FailBackfillChunk
        <3>2. LedgerRow(Settled(chunk[c], "failed", TRUE)) = Ledger!Unowned(c, "dead")
            BY <1>0, LedgerRowSettled DEF Ledger!Unowned, ChunkStatus
        <3>3. /\ LedgerRow(chunk[c]).admissions = MaxAttempts
              /\ LedgerRow(chunk[c]).phase \in {"open", "forfeit"}
            BY <2>1, <2>2, LedgerRowFields DEF Exhausted
        <3> QED BY <1>0, <1>4, <1>9, <3>1, <3>2, <3>3 DEF Ledger!IsOpen
    <2>3. CASE ~Exhausted(c)
        <3>1. LedgerSlice' = [LedgerSlice EXCEPT ![c] = LedgerRow(Settled(chunk[c], "queued", TRUE))]
            BY <1>4, <2>3, LedgerUpdate DEF FailBackfillChunk
        <3>2. LedgerRow(Settled(chunk[c], "queued", TRUE)) = Ledger!Unowned(c, "open")
            <4>1. LedgerRow(Settled(chunk[c], "queued", TRUE)) =
                     Ledger!Row("open", NoRun, LedgerRow(chunk[c]).admissions)
                BY <1>0, LedgerRowSettled DEF ChunkStatus
            <4> QED BY <1>0, <4>1 DEF Ledger!Unowned
        <3>4. LedgerRow(chunk[c]).phase = "open" /\ LedgerRow(chunk[c]).owner # NoRun
            BY <2>1, <2>3, LedgerRowFields DEF Exhausted
        <3>3. Ledger!GiveBack(c)
            BY <1>0, <1>4, <3>1, <3>2, <3>4 DEF Ledger!GiveBack, Ledger!Owned, Ledger!IsOpen
        <3> QED BY <3>3 DEF Ledger!Next
    <2> QED BY <2>2, <2>3
<1>5. ASSUME NEW S \in SUBSET Chunks, UNCHANGED author,
             \A c \in S : chunk[c].status \in {"queued", "running"} /\ Exhausted(c),
             chunk' = [c \in Chunks |-> IF c \in S THEN Settled(chunk[c], "failed", TRUE)
                                        ELSE chunk[c]]
      PROVE  Ledger!Next
    <2>1. ASSUME NEW c \in S
          PROVE  LedgerSlice[c].phase \in {"open", "forfeit"} /\ LedgerSlice[c].admissions = MaxAttempts
        <3>1. chunk[c] \in ChunkType /\ LedgerSlice[c] = LedgerRow(chunk[c])
            BY <1>0
        <3> QED BY <1>5, <3>1, LedgerRowFields DEF Exhausted, ChunkType
    <2>2. \A c \in Chunks : LedgerRow(Settled(chunk[c], "failed", TRUE)) = Ledger!Unowned(c, "dead")
        BY <1>0, LedgerRowSettled DEF Ledger!Unowned, ChunkStatus
    <2>3. LedgerSlice' = [s \in Chunks |-> IF s \in S THEN Ledger!Unowned(s, "dead")
                                           ELSE LedgerSlice[s]]
        BY <1>5, <2>2 DEF LedgerSlice
    <2>4. Ledger!GiveUp(S)
        BY <1>0, <1>5, <2>1, <2>3 DEF Ledger!GiveUp
    <2> QED BY <2>4 DEF Ledger!Next
<1>6. CASE SweepExhaustedChunks /\ UNCHANGED author
    <2> DEFINE S == {c \in Chunks : Expired(c) /\ Exhausted(c)}
    <2>1. chunk' = [c \in Chunks |-> IF c \in S THEN Settled(chunk[c], "failed", TRUE)
                                     ELSE chunk[c]]
        BY <1>6 DEF SweepExhaustedChunks
    <2>2. S \in SUBSET Chunks /\ \A c \in S : chunk[c].status \in {"queued", "running"} /\ Exhausted(c)
        BY DEF Expired
    <2> HIDE DEF S
    <2> QED BY <1>5, <1>6, <2>1, <2>2
<1>7. CASE FailExhaustedQueuedChunks /\ UNCHANGED author
    <2> DEFINE S == {c \in Chunks : chunk[c].status = "queued" /\ Exhausted(c)}
    <2>1. chunk' = [c \in Chunks |-> IF c \in S THEN Settled(chunk[c], "failed", TRUE)
                                     ELSE chunk[c]]
        BY <1>7 DEF FailExhaustedQueuedChunks
    <2>2. S \in SUBSET Chunks /\ \A c \in S : chunk[c].status \in {"queued", "running"} /\ Exhausted(c)
        OBVIOUS
    <2> HIDE DEF S
    <2> QED BY <1>5, <1>7, <2>1, <2>2
<1>8. ASSUME NEW c \in Chunks, ExpireChunkLease(c), UNCHANGED author
      PROVE  UNCHANGED <<LedgerSlice, author, LedgerVerdict>>
    <2> DEFINE row == [chunk[c] EXCEPT !.live = FALSE]
    <2>1. /\ row \in ChunkType /\ row.status = chunk[c].status /\ row.leaseId = chunk[c].leaseId
          /\ row.attempts = chunk[c].attempts
        BY <1>0 DEF ChunkType
    <2>2. LedgerSlice' = [LedgerSlice EXCEPT ![c] = LedgerRow(row)]
        BY <1>8, LedgerUpdate DEF ExpireChunkLease
    <2> HIDE DEF row
    <2>3. LedgerRow(row) = LedgerRow(chunk[c])
        BY <1>0, <2>1 DEF LedgerRow
    <2> QED BY <1>0, <1>8, <2>2, <2>3 DEF LedgerSlice
<1> QED BY <1>1, <1>2, <1>3, <1>4, <1>6, <1>7, <1>8, <1>10 DEF SliceStep

(* A change of the job either leaves the verdict open or closes the        *)
(* ledger, as completed only when the listing named every slice.           *)
LEMMA JobStepSimulated ==
    ASSUME TypeOK, ListingsStayTrue, [Next]_vars, UNCHANGED <<chunk, author>>
    PROVE  [Ledger!Next]_<<LedgerSlice, author, LedgerVerdict>>
<1>0. /\ job \in JobType /\ job.status \in JobStatus
      /\ LedgerSlice' = LedgerSlice
      /\ \A c \in Chunks : chunk[c] \in ChunkType
    BY DEF TypeOK, JobType, LedgerSlice
<1>1. Ledger!Done = Completed
    <2>1. \A c \in Chunks : LedgerSlice[c].phase = "done" <=> chunk[c].status = "completed"
        BY <1>0, LedgerRowFields DEF LedgerSlice
    <2> QED BY <2>1 DEF Ledger!Done, Completed, WithStatus
<1>2. ASSUME NEW v \in JobTerminal, job.status \notin JobTerminal, job'.status = v,
             v = "completed" => Completed = Chunks, v = "partial" => Completed # {}
      PROVE  Ledger!Next
    <2>1. LedgerVerdict = "open" /\ LedgerVerdict' = v
        BY <1>2 DEF LedgerVerdict
    <2>2. Ledger!Close(v)
        BY <1>0, <1>1, <1>2, <2>1 DEF Ledger!Close
    <2> QED BY <2>2 DEF Ledger!Next, JobTerminal, Ledger!Verdicts
<1>3. ASSUME job.status \notin JobTerminal, job'.status \notin JobTerminal
      PROVE  UNCHANGED <<LedgerSlice, author, LedgerVerdict>>
    BY <1>0, <1>3 DEF LedgerVerdict
<1>4. CASE UNCHANGED job
    BY <1>0, <1>4 DEF LedgerVerdict
<1>5. ASSUME NEW r \in Runs, Finish(r), job' # job
      PROVE  Ledger!Next
    <2>1. /\ OwnsJob(r)
          /\ job' = Relinquished(JobOutcome(run[r].seen))
        BY <1>5 DEF Finish, CompleteImportJob, jobVars
    <2>2. JobOutcome(run[r].seen) \in JobTerminal
        BY DEF JobOutcome, JobTerminal
    <2>3. job'.status = JobOutcome(run[r].seen)
        BY <1>0, <2>1, <2>2, RelinquishedType DEF JobStatus
    <2>4. run[r].seen \subseteq Completed /\ Completed \subseteq Chunks
        BY DEF ListingsStayTrue, Completed, WithStatus
    <2>5. /\ JobOutcome(run[r].seen) = "completed" => Completed = Chunks
          /\ JobOutcome(run[r].seen) = "partial" => Completed # {}
        BY <2>4 DEF JobOutcome
    <2> QED BY <1>2, <2>1, <2>2, <2>3, <2>5 DEF OwnsJob, JobTerminal
<1>6. ASSUME NEW r \in Runs, FailJob(r), job' # job
      PROVE  [Ledger!Next]_<<LedgerSlice, author, LedgerVerdict>>
    <2>1. FailImportJob(r)
        BY <1>6 DEF FailJob, jobVars
    <2>2. job'.status \in {"queued", "failed"} /\ job.status \notin JobTerminal
        BY <1>0, <2>1, FailImportJobType DEF FailImportJob, OwnsJob, JobTerminal
    <2> QED BY <1>2, <1>3, <2>2 DEF JobTerminal
<1>7. ASSUME NEW r \in Runs, Claim(r)
      PROVE  job.status \notin JobTerminal /\ job'.status \notin JobTerminal
    BY <1>0, <1>7 DEF Claim, ClaimImportJob, JobClaimable, JobTerminal, JobType
<1>8. CASE Recover
    <2>1. Relinquished("queued").status = "queued"
        BY <1>0, RelinquishedType DEF JobStatus
    <2> QED BY <1>3, <1>8, <2>1 DEF Recover, RecoverExpiredJob, JobTerminal
<1>9. CASE JobLeaseExpires
    <2>1. job.status \notin JobTerminal /\ job'.status \notin JobTerminal
        BY <1>0, <1>9 DEF JobLeaseExpires, ExpireJobLease, JobTerminal, JobType
    <2> QED BY <1>3, <2>1
<1>10. \/ UNCHANGED job \/ Recover \/ JobLeaseExpires
       \/ \E r \in Runs : Claim(r) \/ Finish(r) \/ FailJob(r)
    BY DEF Next, Step, vars, jobVars, Start, Sweep, FailQueued, SelectCandidate, CheckCandidate,
           TakeChunk, ReadClaim, MarkExhausted, ContactProvider, ReportProgress, UpdateImportJobProgress, CompleteChunk,
           FailChunk, MirrorRead, MirrorWrite, Verdict, HeartbeatFails, StatementFails, Crash,
           ChunkLeaseExpires
<1> QED BY <1>3, <1>4, <1>5, <1>6, <1>7, <1>8, <1>9, <1>10

(* Every run of the worker, with any number of concurrent runs, is a       *)
(* behaviour of the ledger: one owner at a time, a bounded number of       *)
(* admissions, one recorded result per slice, by its last owner, and a     *)
(* verdict that is given once and tells the truth.                         *)
THEOREM WorkerImplementsLedger == Spec => ImplementsLedger
<1>3. Init => Ledger!Init
    <2> SUFFICES ASSUME Init PROVE Ledger!Init
        OBVIOUS
    <2>1. /\ author = [c \in Chunks |-> NoRun]
          /\ LedgerVerdict = "open"
        BY DEF Init, JobInit, LedgerVerdict, JobTerminal
    <2>2. ASSUME NEW c \in Chunks
          PROVE  LedgerRow(chunk[c]) = Ledger!Row("open", NoRun, 0)
        BY DEF Init, ChunkInit, LedgerRow, Ledger!Row
    <2> QED BY <2>1, <2>2 DEF Ledger!Init, LedgerSlice
<1>4. RowsInv /\ ListingsStayTrue /\ [Next]_vars
         => [Ledger!Next]_<<LedgerSlice, author, LedgerVerdict>>
    BY JobOrSlices, StepIsSliceStep, SliceStepSimulated, JobStepSimulated DEF RowsInv
<1> QED BY <1>3, <1>4, RowsInvariant, ListingsInvariant, PTL
        DEF Spec, ImplementsLedger, Ledger!Spec

-----------------------------------------------------------------------------
(* The contacts of a slice, with those that are due: the runs that have    *)
(* read their claim of it and have not called the provider yet.  Each run  *)
(* that has taken the slice used an attempt for it, and only one that      *)
(* read no more than the allowed attempts goes on to the call.             *)
Taken(c) == {r \in Runs : run[r].pc \in {"reread", "exec"} /\ run[r].cur = c}
Due(c) == {r \in Runs : At(r, "exec") /\ run[r].cur = c}

ContactsCounted ==
    \A c \in Chunks : /\ IsFiniteSet(Taken(c))
                      /\ contacts[c] + Cardinality(Taken(c)) <= chunk[c].attempts
                      /\ contacts[c] + Cardinality(Due(c)) <= MaxAttempts

LEMMA DueAreTaken ==
    ASSUME NEW c \in Chunks, IsFiniteSet(Taken(c))
    PROVE  /\ Due(c) \in SUBSET Taken(c) /\ IsFiniteSet(Due(c))
           /\ Cardinality(Due(c)) \in Nat /\ Cardinality(Taken(c)) \in Nat
           /\ Cardinality(Due(c)) <= Cardinality(Taken(c))
<1>1. Due(c) \in SUBSET Taken(c)
    BY DEF Due, Taken, At
<1> QED BY <1>1, FS_Subset, FS_CardinalityType

(* Only TakeChunk adds to the first, only ReadClaim to the second.         *)
LEMMA NothingNewDue ==
    ASSUME TypeOK, [Next]_vars, NEW c \in Chunks
    PROVE  /\ (\A r \in Runs : ~TakeChunk(r)) => Taken(c)' \in SUBSET Taken(c)
           /\ (\A r \in Runs : ~ReadClaim(r)) => Due(c)' \in SUBSET Due(c)
<1>1. \A q \in Runs : run'[q].pc \in {"reread", "exec"} /\ ~TakeChunk(q)
          => run[q].pc \in {"reread", "exec"} /\ run'[q].cur = run[q].cur
    BY TreatmentMoves DEF Moves, Holds, HeldPoints, SlicePoints, ReadClaim, At
<1>2. \A q \in Runs : run'[q].pc = "exec" /\ ~ReadClaim(q)
          => run[q].pc = "exec" /\ run'[q].cur = run[q].cur
    BY TreatmentMoves DEF Moves, Holds, HeldPoints, SlicePoints
<1> QED BY <1>1, <1>2 DEF Taken, Due, At

(* One contact is made, or none.                                           *)
LEMMA OneContact ==
    ASSUME TypeOK, [Next]_vars
    PROVE  \/ UNCHANGED contacts
           \/ \E r \in Runs : /\ ContactProvider(r) /\ run[r].cur \in Chunks
                              /\ contacts' = [contacts EXCEPT ![run[r].cur] = @ + 1]
                              /\ run'[r].pc = "report"
<1>1. ASSUME NEW r \in Runs, ContactProvider(r), ~UNCHANGED contacts
      PROVE  /\ contacts' = [contacts EXCEPT ![run[r].cur] = @ + 1]
             /\ run[r].cur \in Chunks /\ run'[r].pc = "report"
    <2>1. contacts' = [contacts EXCEPT ![run[r].cur] = @ + 1]
        BY <1>1 DEF ContactProvider
    <2>2. run[r].cur \in Chunks
        BY <1>1 DEF ContactProvider, At, TypeOK, Treating, SlicePoints
    <2>3. PICK o \in Outcomes : run' = [run EXCEPT ![r] = [@ EXCEPT !.pc = "report", !.outcome = o]]
        BY <1>1 DEF ContactProvider
    <2>4. [run[r] EXCEPT !.pc = "report", !.outcome = o].pc = "report"
        BY DEF TypeOK, RunType
    <2>5. run'[r].pc = "report"
        BY <2>3, <2>4 DEF TypeOK
    <2> QED BY <2>1, <2>2, <2>5
<1>2. UNCHANGED contacts \/ \E r \in Runs : ContactProvider(r)
    BY DEF Next, Step, vars, history, Claim, Start, Sweep, FailQueued, SelectCandidate, CheckCandidate,
           TakeChunk, ReadClaim, MarkExhausted, ReportProgress, CompleteChunk, FailChunk, MirrorRead,
           MirrorWrite, Verdict, Finish, FailJob, HeartbeatFails, StatementFails, Crash, Recover,
           JobLeaseExpires, ChunkLeaseExpires
<1> QED BY <1>1, <1>2

(* A claim uses one of the attempts for the run it adds.                   *)
LEMMA TakingCounts ==
    ASSUME TypeOK, ContactsCounted, [Next]_vars, NEW r \in Runs, TakeChunk(r), NEW d \in Chunks
    PROVE  /\ IsFiniteSet(Taken(d)')
           /\ contacts[d] + Cardinality(Taken(d)') <= chunk'[d].attempts
<1> DEFINE c == run[r].cur
<1>0. /\ run \in [Runs -> RunType] /\ run[r] \in RunType /\ run[r].pc = "take" /\ c \in Chunks
      /\ chunk \in [Chunks -> ChunkType] /\ chunk[c] \in ChunkType /\ chunk[d] \in ChunkType
    BY DEF TypeOK, TakeChunk, At, Treating, ClaimPoints
<1>1. /\ IsFiniteSet(Taken(d)) /\ Cardinality(Taken(d)) \in Nat
      /\ contacts[d] + Cardinality(Taken(d)) <= chunk[d].attempts
      /\ contacts[d] \in Nat /\ chunk[d].attempts \in Nat /\ chunk'[d].attempts \in Nat
      /\ chunk'[d].attempts >= chunk[d].attempts
    <2>1. chunk'[d].attempts \in Nat
        BY NextType DEF TypeOK, ChunkType
    <2>2. chunk'[d].attempts >= chunk[d].attempts
        BY StepIsSliceStep, AttemptsGrow
    <2> QED BY <1>0, <2>1, <2>2, FS_CardinalityType DEF ContactsCounted, TypeOK, ChunkType
<1>2. CASE Taken(d)' = Taken(d)
    BY <1>1, <1>2
<1>3. CASE Resume(r, "lastRead")
    <2>1. Blank("lastRead", run[r].leaseLost).pc = "lastRead"
        BY DEF Blank
    <2>2. run'[r].pc = "lastRead" /\ \A q \in Runs \ {r} : run'[q] = run[q]
        BY <1>0, <1>3, <2>1 DEF Resume
    <2>3. Taken(d)' = Taken(d)
        BY <1>0, <2>2 DEF Taken
    <2> QED BY <1>2, <2>3
<1>4. CASE ClaimBackfillChunk(c, r) /\ Goto(r, "reread")
    <2>1. run'[r].pc = "reread" /\ run'[r].cur = c /\ \A q \in Runs \ {r} : run'[q] = run[q]
        <3>1. /\ [run[r] EXCEPT !.pc = "reread"].pc = "reread"
              /\ [run[r] EXCEPT !.pc = "reread"].cur = c
            BY <1>0 DEF RunType
        <3>2. run' = [run EXCEPT ![r] = [run[r] EXCEPT !.pc = "reread"]]
            BY <1>4 DEF Goto
        <3> QED BY <1>0, <3>1, <3>2
    <2>2. CASE d # c
        <3>1. Taken(d)' = Taken(d)
            BY <1>0, <2>1, <2>2 DEF Taken
        <3> QED BY <1>2, <3>1
    <2>3. CASE d = c
        <3>1. Taken(d)' = Taken(d) \cup {r} /\ r \notin Taken(d)
            BY <1>0, <2>1, <2>3 DEF Taken
        <3>2. IsFiniteSet(Taken(d)') /\ Cardinality(Taken(d)') = Cardinality(Taken(d)) + 1
            BY <1>1, <3>1, FS_AddElement
        <3>3. chunk'[d].attempts = chunk[d].attempts + 1
            <4>1. chunk'[c] = ClaimedRow(c, r)
                BY <1>0, <1>4 DEF ClaimBackfillChunk
            <4>2. ClaimedRow(c, r).attempts = chunk[c].attempts + 1
                BY <1>0, ClaimedRowType
            <4> QED BY <2>3, <4>1, <4>2
        <3> QED BY <1>1, <3>2, <3>3
    <2> QED BY <2>2, <2>3
<1> QED BY <1>3, <1>4 DEF TakeChunk

(* The re-read lets a run go on only while the attempts used, which count  *)
(* it, are within the bound.                                               *)
LEMMA ReadingCounts ==
    ASSUME TypeOK, ContactsCounted, NEW r \in Runs, ReadClaim(r), NEW d \in Chunks
    PROVE  contacts[d] + Cardinality(Due(d)') <= MaxAttempts
<1> DEFINE c == run[r].cur
           token == chunk[c].fencingToken
<1>0. /\ run \in [Runs -> RunType] /\ run[r] \in RunType /\ run[r].pc = "reread" /\ c \in Chunks
      /\ contacts[d] \in Nat /\ chunk[d].attempts \in Nat
    BY DEF TypeOK, ReadClaim, At, Treating, ClaimPoints, ChunkType
<1>1. /\ IsFiniteSet(Taken(d)) /\ IsFiniteSet(Due(d)) /\ Due(d) \in SUBSET Taken(d)
      /\ Cardinality(Taken(d)) \in Nat /\ Cardinality(Due(d)) \in Nat
      /\ contacts[d] + Cardinality(Taken(d)) <= chunk[d].attempts
      /\ contacts[d] + Cardinality(Due(d)) <= MaxAttempts
    BY DueAreTaken DEF ContactsCounted
<1>2. CASE Due(d)' = Due(d)
    BY <1>1, <1>2
<1>3. CASE OverAttempted(c)
    <2>1. run' = [run EXCEPT ![r] = [run[r] EXCEPT !.pc = "markExhausted"]]
        BY <1>3 DEF ReadClaim, Goto
    <2>2. [run[r] EXCEPT !.pc = "markExhausted"].pc = "markExhausted"
        BY <1>0 DEF RunType
    <2>3. run'[r].pc = "markExhausted" /\ \A q \in Runs \ {r} : run'[q] = run[q]
        BY <1>0, <2>1, <2>2
    <2>4. Due(d)' = Due(d)
        BY <1>0, <2>3 DEF Due, At
    <2> QED BY <1>2, <2>4
<1>4. CASE ~OverAttempted(c)
    <2>1. run' = [run EXCEPT ![r] = [run[r] EXCEPT !.pc = "exec", !.token = token]]
        BY <1>4 DEF ReadClaim
    <2>2. /\ [run[r] EXCEPT !.pc = "exec", !.token = token].pc = "exec"
          /\ [run[r] EXCEPT !.pc = "exec", !.token = token].cur = c
        BY <1>0 DEF RunType
    <2>3. run'[r].pc = "exec" /\ run'[r].cur = c /\ \A q \in Runs \ {r} : run'[q] = run[q]
        BY <1>0, <2>1, <2>2
    <2>4. CASE d # c
        <3>1. Due(d)' = Due(d)
            BY <1>0, <2>3, <2>4 DEF Due, At
        <3> QED BY <1>2, <3>1
    <2>5. CASE d = c
        <3>1. Due(d)' = Due(d) \cup {r} /\ r \notin Due(d) /\ r \in Taken(d)
            BY <1>0, <2>3, <2>5 DEF Due, Taken, At
        <3>2. Cardinality(Due(d)') <= Cardinality(Taken(d)) /\ Cardinality(Due(d)') \in Nat
            <4>1. Due(d)' \in SUBSET Taken(d)
                BY <1>1, <3>1
            <4> QED BY <1>1, <4>1, FS_Subset, FS_CardinalityType
        <3>3. chunk[d].attempts <= MaxAttempts
            BY <1>0, <1>4, <2>5 DEF OverAttempted
        <3> QED BY <1>0, <1>1, <3>2, <3>3
    <2> QED BY <2>4, <2>5
<1> QED BY <1>3, <1>4

LEMMA CountingPreserved ==
    ASSUME TypeOK, ContactsCounted, [Next]_vars
    PROVE  ContactsCounted'
<1> SUFFICES ASSUME NEW d \in Chunks
             PROVE  /\ IsFiniteSet(Taken(d)')
                    /\ contacts'[d] + Cardinality(Taken(d)') <= chunk'[d].attempts
                    /\ contacts'[d] + Cardinality(Due(d)') <= MaxAttempts
    BY DEF ContactsCounted
<1>0. /\ contacts \in [Chunks -> Nat] /\ contacts[d] \in Nat
      /\ chunk[d].attempts \in Nat /\ chunk'[d].attempts \in Nat
      /\ chunk'[d].attempts >= chunk[d].attempts
    BY NextType, StepIsSliceStep, AttemptsGrow DEF TypeOK, ChunkType
<1>1. /\ IsFiniteSet(Taken(d)) /\ IsFiniteSet(Due(d))
      /\ Cardinality(Taken(d)) \in Nat /\ Cardinality(Due(d)) \in Nat
      /\ contacts[d] + Cardinality(Taken(d)) <= chunk[d].attempts
      /\ contacts[d] + Cardinality(Due(d)) <= MaxAttempts
    BY DueAreTaken DEF ContactsCounted
<1>2. ASSUME NEW r \in Runs, ContactProvider(r), run[r].cur = d,
             contacts'[d] = contacts[d] + 1, run'[r].pc = "report"
      PROVE  /\ IsFiniteSet(Taken(d)')
             /\ contacts'[d] + Cardinality(Taken(d)') <= chunk'[d].attempts
             /\ contacts'[d] + Cardinality(Due(d)') <= MaxAttempts
    <2>1. /\ r \in Taken(d) /\ r \in Due(d) /\ r \notin Taken(d)' /\ r \notin Due(d)'
          /\ \A q \in Runs : ~TakeChunk(q) /\ ~ReadClaim(q)
        <3>1. run[r].pc = "exec"
            BY <1>2 DEF ContactProvider, At
        <3>2. \A q \in Runs : ~TakeChunk(q) /\ ~ReadClaim(q)
            BY <1>0, <1>2 DEF TakeChunk, ReadClaim, history
        <3> QED BY <1>2, <3>1, <3>2 DEF Taken, Due, At
    <2>2. Taken(d)' \in SUBSET (Taken(d) \ {r}) /\ Due(d)' \in SUBSET (Due(d) \ {r})
        BY <2>1, NothingNewDue
    <2>3. /\ IsFiniteSet(Taken(d) \ {r}) /\ Cardinality(Taken(d) \ {r}) = Cardinality(Taken(d)) - 1
          /\ IsFiniteSet(Due(d) \ {r}) /\ Cardinality(Due(d) \ {r}) = Cardinality(Due(d)) - 1
        BY <1>1, <2>1, FS_RemoveElement
    <2>4. /\ IsFiniteSet(Taken(d)') /\ Cardinality(Taken(d)') \in Nat
          /\ Cardinality(Taken(d)') <= Cardinality(Taken(d)) - 1
        BY <2>2, <2>3, FS_Subset, FS_CardinalityType
    <2>5. /\ Cardinality(Due(d)') \in Nat /\ Cardinality(Due(d)') <= Cardinality(Due(d)) - 1
        BY <2>2, <2>3, FS_Subset, FS_CardinalityType
    <2> QED BY <1>0, <1>1, <1>2, <2>4, <2>5
<1>3. CASE contacts'[d] # contacts[d]
    <2>1. PICK r \in Runs : /\ ContactProvider(r) /\ run[r].cur \in Chunks
                            /\ contacts' = [contacts EXCEPT ![run[r].cur] = @ + 1]
                            /\ run'[r].pc = "report"
        BY <1>3, OneContact
    <2>2. run[r].cur = d /\ contacts'[d] = contacts[d] + 1
        BY <1>0, <1>3, <2>1
    <2> QED BY <1>2, <2>1, <2>2
<1>4. CASE contacts'[d] = contacts[d]
    <2>1. /\ IsFiniteSet(Taken(d)')
          /\ contacts[d] + Cardinality(Taken(d)') <= chunk'[d].attempts
        <3>1. CASE \E r \in Runs : TakeChunk(r)
            BY <3>1, TakingCounts
        <3>2. CASE \A r \in Runs : ~TakeChunk(r)
            <4>1. Taken(d)' \in SUBSET Taken(d)
                BY <3>2, NothingNewDue
            <4>2. /\ IsFiniteSet(Taken(d)') /\ Cardinality(Taken(d)') \in Nat
                  /\ Cardinality(Taken(d)') <= Cardinality(Taken(d))
                BY <1>1, <4>1, FS_Subset, FS_CardinalityType
            <4> QED BY <1>0, <1>1, <4>2
        <3> QED BY <3>1, <3>2
    <2>2. contacts[d] + Cardinality(Due(d)') <= MaxAttempts
        <3>1. CASE \E r \in Runs : ReadClaim(r)
            BY <3>1, ReadingCounts
        <3>2. CASE \A r \in Runs : ~ReadClaim(r)
            <4>1. Due(d)' \in SUBSET Due(d)
                BY <3>2, NothingNewDue
            <4>2. Cardinality(Due(d)') \in Nat /\ Cardinality(Due(d)') <= Cardinality(Due(d))
                BY <1>1, <4>1, FS_Subset, FS_CardinalityType
            <4> QED BY <1>0, <1>1, <4>2
        <3> QED BY <3>1, <3>2
    <2> QED BY <1>4, <2>1, <2>2
<1> QED BY <1>3, <1>4

(* No slice is contacted more often than it has attempts, for any number   *)
(* of runs that race for it (claimBackfillChunk).                          *)
THEOREM ContactsStayBounded == Spec => []ContactsBounded
<1>1. Init => ContactsCounted
    <2> SUFFICES ASSUME Init, NEW c \in Chunks
                 PROVE  /\ IsFiniteSet(Taken(c))
                        /\ contacts[c] + Cardinality(Taken(c)) <= chunk[c].attempts
                        /\ contacts[c] + Cardinality(Due(c)) <= MaxAttempts
        BY DEF ContactsCounted
    <2>1. Blank("unclaimed", FALSE).pc = "unclaimed"
        BY DEF Blank
    <2>2. Taken(c) = {} /\ Due(c) = {}
        BY <2>1 DEF Init, Taken, Due, At
    <2>3. contacts[c] = 0 /\ chunk[c].attempts = 0
        BY DEF Init, ChunkInit
    <2> QED BY <2>2, <2>3, FS_EmptySet
<1>2. TypeOK /\ ContactsCounted /\ [Next]_vars => ContactsCounted'
    BY CountingPreserved
<1>3. TypeOK /\ ContactsCounted => ContactsBounded
    <2> SUFFICES ASSUME TypeOK, ContactsCounted, NEW c \in Chunks PROVE contacts[c] <= MaxAttempts
        BY DEF ContactsBounded
    <2>1. /\ contacts[c] \in Nat /\ Cardinality(Due(c)) \in Nat
          /\ contacts[c] + Cardinality(Due(c)) <= MaxAttempts
        BY DueAreTaken DEF TypeOK, ContactsCounted
    <2> QED BY <2>1
<1> QED BY <1>1, <1>2, <1>3, TypeInvariant, PTL DEF Spec
=============================================================================
