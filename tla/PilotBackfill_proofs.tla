------------------------ MODULE PilotBackfill_proofs --------------------------
(* Theorems about PilotBackfill, for any number of executions, slices and    *)
(* requests of the operator.                                                 *)
EXTENDS PilotBackfill, TLAPS

USE NoRunAssumption, ChunksAssumption, MaxAttemptsAssumption, PilotAssumption

-----------------------------------------------------------------------------
(* The kinds of values, as far as the proofs need them.                      *)
JobKind == [status : JobStatus \cup Paused \cup Cancelled \cup {"none"},
            leaseId : Runs \cup {NoRun}, live : BOOLEAN, retryCount : {0}]
SliceKind == [status : ChunkStatus \cup {"cancelled"}, leaseId : Runs \cup {NoRun}, live : BOOLEAN,
              fencingToken : Nat, attempts : Nat, lastError : BOOLEAN]

PilotJobOK == job \in JobKind
SlicesOK == chunk \in [Chunks -> SliceKind]
ExecsOK == exec \in [Runs -> ExecType]
OperatorsOK == /\ operator \in [Operators -> OperatorType]
               /\ \A o \in Operators : operator[o].pc # "idle" => operator[o].seen \notin PilotTerminal

(* The inductive invariant: what an operator has read is not a terminal      *)
(* status; nobody is late while the job runs; an execution about to write    *)
(* the verdict knows every slice; one that has given the job back does not   *)
(* hold it.                                                                  *)
AllSettled == \A c \in Chunks : chunk[c].status \in {"completed", "failed"}
Holds(r) == job.status = "running" /\ job.leaseId = r

LateOK == /\ late \subseteq Runs
          /\ job.status = "running" => late = {}
          /\ NoContactAfterStop
FinishOK == \A r \in Runs : ExecAt(r, "finish") => AllSettled
EndOK == \A r \in Runs : exec[r].pc \in {"dropLease", "done"} => ~Holds(r)

PilotInv == /\ PilotJobOK /\ SlicesOK /\ ExecsOK /\ OperatorsOK
            /\ LateOK /\ FinishOK /\ EndOK /\ VerdictCoversAllSlices

LEMMA PilotInvInit == PilotInit => PilotInv
<1> SUFFICES ASSUME PilotInit PROVE PilotInv
    OBVIOUS
<1>1. PilotJobOK /\ SlicesOK
    BY DEF PilotInit, JobInit, ChunkInit, PilotJobOK, SlicesOK, JobKind, SliceKind, JobStatus, ChunkStatus
<1>2. \A r \in Runs : exec[r] = [pc |-> "idle", cur |-> NoSlice]
    BY DEF PilotInit, Fresh
<1>3. ExecsOK
    BY DEF PilotInit, Fresh, ExecsOK, ExecType
<1>4. OperatorsOK
    BY DEF PilotInit, NoRequest, OperatorsOK, OperatorType
<1>5. LateOK /\ FinishOK /\ EndOK
    BY <1>2 DEF PilotInit, LateOK, NoContactAfterStop, FinishOK, EndOK, ExecAt
<1>6. VerdictCoversAllSlices
    BY DEF PilotInit, JobInit, JobTerminal, VerdictCoversAllSlices
<1> QED BY <1>1, <1>3, <1>4, <1>5, <1>6 DEF PilotInv

-----------------------------------------------------------------------------
(* Rows.  A column is written and the others keep their values.              *)
LEMMA PutSliceStatus ==
    ASSUME NEW row \in SliceKind, NEW v \in ChunkStatus \cup {"cancelled"}
    PROVE  /\ [row EXCEPT !.status = v] \in SliceKind /\ [row EXCEPT !.status = v].status = v
           /\ [row EXCEPT !.status = v].attempts = row.attempts
BY DEF SliceKind

LEMMA PutSliceLease ==
    ASSUME NEW row \in SliceKind, NEW v \in Runs \cup {NoRun}
    PROVE  /\ [row EXCEPT !.leaseId = v] \in SliceKind /\ [row EXCEPT !.leaseId = v].status = row.status
           /\ [row EXCEPT !.leaseId = v].leaseId = v
           /\ [row EXCEPT !.leaseId = v].attempts = row.attempts
BY DEF SliceKind

LEMMA PutSliceLive ==
    ASSUME NEW row \in SliceKind, NEW v \in BOOLEAN
    PROVE  /\ [row EXCEPT !.live = v] \in SliceKind /\ [row EXCEPT !.live = v].status = row.status
           /\ [row EXCEPT !.live = v].leaseId = row.leaseId
           /\ [row EXCEPT !.live = v].attempts = row.attempts
BY DEF SliceKind

LEMMA PutSliceError ==
    ASSUME NEW row \in SliceKind, NEW v \in BOOLEAN
    PROVE  /\ [row EXCEPT !.lastError = v] \in SliceKind /\ [row EXCEPT !.lastError = v].status = row.status
           /\ [row EXCEPT !.lastError = v].leaseId = row.leaseId
           /\ [row EXCEPT !.lastError = v].attempts = row.attempts
BY DEF SliceKind

LEMMA SettledRow ==
    ASSUME NEW row \in SliceKind, NEW status \in ChunkStatus \cup {"cancelled"}, NEW err \in BOOLEAN
    PROVE  /\ Settled(row, status, err) \in SliceKind /\ Settled(row, status, err).status = status
           /\ Settled(row, status, err).leaseId = NoRun
           /\ Settled(row, status, err).attempts = row.attempts
<1> DEFINE a == [row EXCEPT !.status = status]
           b == [a EXCEPT !.leaseId = NoRun]
           c == [b EXCEPT !.live = FALSE]
           d == [c EXCEPT !.lastError = err]
<1>1. Settled(row, status, err) = d
    BY Zenon DEF Settled
<1>2. a \in SliceKind /\ a.status = status /\ a.attempts = row.attempts
    BY PutSliceStatus
<1> HIDE DEF a
<1>3. b \in SliceKind /\ b.status = status /\ b.leaseId = NoRun /\ b.attempts = row.attempts
    BY <1>2, PutSliceLease
<1> HIDE DEF b
<1>4. c \in SliceKind /\ c.status = status /\ c.leaseId = NoRun /\ c.attempts = row.attempts
    BY <1>3, PutSliceLive
<1> HIDE DEF c
<1>5. d \in SliceKind /\ d.status = status /\ d.leaseId = NoRun /\ d.attempts = row.attempts
    BY <1>4, PutSliceError
<1> HIDE DEF d
<1> QED BY <1>1, <1>5

LEMMA JobColumns ==
    ASSUME NEW row \in JobKind
    PROVE  /\ \A v \in JobStatus \cup Paused \cup Cancelled \cup {"none"} :
                /\ [row EXCEPT !.status = v] \in JobKind /\ [row EXCEPT !.status = v].status = v
                /\ [row EXCEPT !.status = v].leaseId = row.leaseId
           /\ \A v \in Runs \cup {NoRun} :
                /\ [row EXCEPT !.leaseId = v] \in JobKind /\ [row EXCEPT !.leaseId = v].leaseId = v
                /\ [row EXCEPT !.leaseId = v].status = row.status
           /\ \A v \in BOOLEAN :
                /\ [row EXCEPT !.live = v] \in JobKind /\ [row EXCEPT !.live = v].leaseId = row.leaseId
                /\ [row EXCEPT !.live = v].status = row.status
BY DEF JobKind

LEMMA LeaseWritten ==
    ASSUME PilotJobOK, NEW status \in JobStatus \cup Paused \cup Cancelled \cup {"none"},
           NEW lease \in Runs \cup {NoRun}, NEW live \in BOOLEAN
    PROVE  LET row == [job EXCEPT !.status = status, !.leaseId = lease, !.live = live]
           IN  row \in JobKind /\ row.status = status /\ row.leaseId = lease
<1> DEFINE a == [job EXCEPT !.status = status]
           b == [a EXCEPT !.leaseId = lease]
           c == [b EXCEPT !.live = live]
<1>1. [job EXCEPT !.status = status, !.leaseId = lease, !.live = live] = c
    BY Zenon
<1>2. a \in JobKind /\ a.status = status
    BY JobColumns DEF PilotJobOK
<1> HIDE DEF a
<1>3. b \in JobKind /\ b.status = status /\ b.leaseId = lease
    BY <1>2, JobColumns
<1> HIDE DEF b
<1>4. c \in JobKind /\ c.status = status /\ c.leaseId = lease
    BY <1>3, JobColumns
<1> HIDE DEF c
<1> QED BY <1>1, <1>4

LEMMA RelinquishedRow ==
    ASSUME PilotJobOK, NEW status \in JobStatus \cup Paused \cup Cancelled \cup {"none"}
    PROVE  /\ Relinquished(status) \in JobKind /\ Relinquished(status).status = status
           /\ Relinquished(status).leaseId = NoRun
BY LeaseWritten, Zenon DEF Relinquished

-----------------------------------------------------------------------------
(* Slices that have a verdict keep it.                                       *)
Kept == /\ SlicesOK'
        /\ \A c \in Chunks : chunk[c].status \in {"completed", "failed"}
                               => chunk'[c].status = chunk[c].status

LEMMA KeptIfSettled ==
    ASSUME SlicesOK, NEW S \in SUBSET Chunks, NEW f,
           \A c \in S : /\ chunk[c].status \notin {"completed", "failed"}
                        /\ f[c] \in SliceKind,
           chunk' = [c \in Chunks |-> IF c \in S THEN f[c] ELSE chunk[c]]
    PROVE  Kept
BY DEF Kept, SlicesOK

LEMMA RowKept ==
    ASSUME SlicesOK, NEW c \in Chunks, NEW row \in SliceKind,
           chunk[c].status \notin {"completed", "failed"}, chunk' = [chunk EXCEPT ![c] = row]
    PROVE  Kept
BY DEF Kept, SlicesOK

LEMMA NoRowWritten ==
    ASSUME SlicesOK, UNCHANGED chunk
    PROVE  Kept
BY DEF Kept, SlicesOK

LEMMA ClaimKept ==
    ASSUME SlicesOK, NEW c \in Chunks, NEW r \in Runs, ClaimBackfillChunk(c, r)
    PROVE  Kept
<1>1. chunk[c] \in SliceKind
    BY DEF SlicesOK
<1>2. /\ chunk[c].fencingToken + 1 \in Nat /\ chunk[c].attempts + 1 \in Nat
      /\ chunk[c].lastError \in BOOLEAN
    BY <1>1 DEF SliceKind
<1>3. ClaimedRow(c, r) \in SliceKind
    BY <1>2 DEF ClaimedRow, SliceKind, ChunkStatus
<1> QED BY <1>3, RowKept DEF ClaimBackfillChunk, Claimable, Expired

LEMMA SettledKept ==
    ASSUME SlicesOK, NEW c \in Chunks, NEW status \in ChunkStatus \cup {"cancelled"},
           NEW err \in BOOLEAN, chunk[c].status \notin {"completed", "failed"},
           chunk' = [chunk EXCEPT ![c] = Settled(chunk[c], status, err)]
    PROVE  Kept
<1>1. Settled(chunk[c], status, err) \in SliceKind
    BY SettledRow DEF SlicesOK
<1> QED BY <1>1, RowKept

LEMMA ManyKept ==
    ASSUME SlicesOK, NEW S \in SUBSET Chunks, NEW status \in ChunkStatus \cup {"cancelled"},
           NEW err \in [Chunks -> BOOLEAN],
           \A c \in S : chunk[c].status \notin {"completed", "failed"},
           chunk' = [c \in Chunks |-> IF c \in S THEN Settled(chunk[c], status, err[c]) ELSE chunk[c]]
    PROVE  Kept
<1> DEFINE f == [c \in Chunks |-> Settled(chunk[c], status, err[c])]
<1>1. ASSUME NEW c \in Chunks PROVE f[c] \in SliceKind
    BY SettledRow DEF SlicesOK
<1>2. chunk' = [c \in Chunks |-> IF c \in S THEN f[c] ELSE chunk[c]]
    OBVIOUS
<1> HIDE DEF f
<1> QED BY <1>1, <1>2, KeptIfSettled

LEMMA SweepsKeep ==
    ASSUME SlicesOK, SweepExhaustedChunks \/ FailExhaustedQueuedChunks
    PROVE  Kept
<1> DEFINE err == [c \in Chunks |-> TRUE]
<1>1. PICK S \in SUBSET Chunks :
        /\ \A c \in S : chunk[c].status \in {"queued", "running"}
        /\ chunk' = [c \in Chunks |-> IF c \in S THEN Settled(chunk[c], "failed", TRUE) ELSE chunk[c]]
    <2>1. CASE SweepExhaustedChunks
        <3> WITNESS {c \in Chunks : Expired(c) /\ Exhausted(c)} \in SUBSET Chunks
        <3> QED BY <2>1 DEF SweepExhaustedChunks, Expired
    <2>2. CASE FailExhaustedQueuedChunks
        <3> WITNESS {c \in Chunks : chunk[c].status = "queued" /\ Exhausted(c)} \in SUBSET Chunks
        <3> QED BY <2>2 DEF FailExhaustedQueuedChunks
    <2> QED BY <2>1, <2>2
<1>2. chunk' = [c \in Chunks |-> IF c \in S THEN Settled(chunk[c], "failed", err[c]) ELSE chunk[c]]
    BY <1>1
<1>3. err \in [Chunks -> BOOLEAN] /\ "failed" \in ChunkStatus \cup {"cancelled"}
    BY DEF ChunkStatus
<1> HIDE DEF err
<1> QED BY <1>1, <1>2, <1>3, ManyKept, ZenonT(30)

LEMMA CancelKeeps ==
    ASSUME SlicesOK,
           chunk' = [c \in Chunks |-> IF chunk[c].status = "queued"
                                      THEN Settled(chunk[c], "cancelled", chunk[c].lastError) ELSE chunk[c]]
    PROVE  Kept
<1> DEFINE err == [c \in Chunks |-> chunk[c].lastError]
           S == {c \in Chunks : chunk[c].status = "queued"}
<1>1. chunk' = [c \in Chunks |-> IF c \in S THEN Settled(chunk[c], "cancelled", err[c]) ELSE chunk[c]]
    OBVIOUS
<1>2. err \in [Chunks -> BOOLEAN]
    BY DEF SlicesOK, SliceKind
<1>3. S \in SUBSET Chunks /\ \A c \in S : chunk[c].status \notin {"completed", "failed"}
    OBVIOUS
<1>4. "cancelled" \in ChunkStatus \cup {"cancelled"}
    OBVIOUS
<1> HIDE DEF err, S
<1> QED BY <1>1, <1>2, <1>3, <1>4, ManyKept, ZenonT(30)

-----------------------------------------------------------------------------
(* One execution moves to a point of its program.                            *)
Moves(r, points) == /\ exec' \in [Runs -> ExecType] /\ exec'[r].pc \in points
                    /\ \A q \in Runs \ {r} : exec'[q] = exec[q]

Points == {"idle", "done", "aborted"} \cup ExecRunning

LEMMA ProceedMoves ==
    ASSUME ExecsOK, NEW r \in Runs, NEW point \in Points, Proceed(r, point)
    PROVE  Moves(r, {point})
BY DEF ExecsOK, ExecType, Points, Proceed, Moves

LEMMA LeaveMoves ==
    ASSUME ExecsOK, NEW r \in Runs, NEW point \in Points, Leave(r, point)
    PROVE  Moves(r, {point})
<1>1. Fresh(point) \in ExecType /\ Fresh(point).pc = point
    BY DEF Fresh, ExecType, Points
<1> QED BY <1>1 DEF ExecsOK, Leave, Moves

LEMMA TakesMoves ==
    ASSUME ExecsOK, NEW r \in Runs, NEW c \in Chunks, Takes(r, c)
    PROVE  Moves(r, {"verify"})
<1> DEFINE a == [exec EXCEPT ![r].pc = "verify"]
           b == [a EXCEPT ![r].cur = c]
<1>1. exec' = b
    BY Zenon DEF Takes
<1>2. /\ a \in [Runs -> ExecType] /\ a[r].pc = "verify" /\ \A q \in Runs \ {r} : a[q] = exec[q]
    BY DEF ExecsOK, ExecType, ExecRunning, ExecLoop
<1> HIDE DEF a
<1>3. /\ b \in [Runs -> ExecType] /\ b[r].pc = "verify" /\ \A q \in Runs \ {r} : b[q] = a[q]
    BY <1>2 DEF ExecType
<1> HIDE DEF b
<1> QED BY <1>1, <1>2, <1>3 DEF Moves

(* A step of an execution that writes at most slices preserves the invariant *)
(* if what it knows at its next point is true.                               *)
LEMMA QuietRun ==
    ASSUME PilotInv, NEW r \in Runs, NEW points, Moves(r, points), Kept,
           UNCHANGED <<job, operator>>,
           late' \subseteq Runs, job.status = "running" => late' = {},
           late' \subseteq late \cup {r},
           exec'[r].pc \in ExecSlice => r \notin late',
           exec'[r].pc = "finish" => AllSettled,
           exec'[r].pc \in {"dropLease", "done"} => exec[r].pc = exec'[r].pc \/ ~Holds(r)
    PROVE  PilotInv'
<1>0. /\ PilotJobOK /\ SlicesOK /\ ExecsOK /\ OperatorsOK
      /\ LateOK /\ FinishOK /\ EndOK /\ VerdictCoversAllSlices
    BY DEF PilotInv
<1>1. PilotJobOK' /\ SlicesOK' /\ ExecsOK' /\ OperatorsOK'
    BY <1>0 DEF PilotJobOK, Kept, Moves, ExecsOK, OperatorsOK
<1>2. AllSettled => AllSettled'
    BY DEF AllSettled, Kept
<1>3. LateOK'
    BY <1>0 DEF LateOK, NoContactAfterStop, Moves
<1>4. FinishOK'
    BY <1>0, <1>2 DEF FinishOK, ExecAt, Moves
<1>5. EndOK'
    BY <1>0 DEF EndOK, Holds, Moves
<1>6. VerdictCoversAllSlices'
    BY <1>0, <1>2 DEF VerdictCoversAllSlices, AllSettled
<1> QED BY <1>1, <1>3, <1>4, <1>5, <1>6 DEF PilotInv

LEMMA StillRun ==
    ASSUME PilotInv, NEW r \in Runs, NEW points, Moves(r, points), Kept,
           UNCHANGED <<job, operator, late>>,
           exec'[r].pc \in ExecSlice => exec[r].pc \in ExecSlice \/ job.status = "running",
           exec'[r].pc = "finish" => AllSettled,
           exec'[r].pc \in {"dropLease", "done"} => ~Holds(r)
    PROVE  PilotInv'
<1>1. late \subseteq Runs /\ (job.status = "running" => late = {})
      /\ (exec[r].pc \in ExecSlice => r \notin late)
    BY DEF PilotInv, LateOK, NoContactAfterStop
<1> QED BY <1>1, QuietRun

-----------------------------------------------------------------------------
(* The status of the job is final once it is terminal.                       *)
FinalKept == job.status \in PilotTerminal => job'.status = job.status

LEMMA ExecStep ==
    ASSUME PilotInv, NEW r \in Runs,
           \/ SweepPilot(r) \/ LoopTop(r) \/ TakeSlice(r) \/ Verify(r) \/ Contact(r)
           \/ ReportSlice(r) \/ SettleSlice(r) \/ Drain(r) \/ WrapUp(r)
           \/ PilotStatementFails(r) \/ PilotCrash(r)
    PROVE  PilotInv' /\ UNCHANGED job
<1>0. SlicesOK /\ ExecsOK /\ LateOK
    BY DEF PilotInv
<1> USE DEF Points, ExecRunning, ExecLoop, ExecSlice, ExecTail
<1>1. CASE SweepPilot(r)
    <2>1. Kept /\ UNCHANGED <<job, operator, late>>
        BY <1>0, <1>1, SweepsKeep DEF SweepPilot
    <2>2. Moves(r, {"sweepQueued", "loop"})
        BY <1>0, <1>1, ProceedMoves DEF SweepPilot, Moves
    <2> QED BY <2>1, <2>2, StillRun DEF Moves
<1>2. CASE LoopTop(r)
    <2>1. Kept /\ UNCHANGED <<job, operator, late>>
        BY <1>0, <1>2, NoRowWritten DEF LoopTop, rows
    <2>2. Moves(r, {"aborted", "take", "wrapUp"})
        BY <1>0, <1>2, ProceedMoves, LeaveMoves DEF LoopTop, Moves
    <2> QED BY <2>1, <2>2, StillRun DEF Moves
<1>3. CASE TakeSlice(r)
    <2>1. CASE UNCHANGED <<chunk, late>> /\ (Proceed(r, "wrapUp") \/ Proceed(r, "sweepQueued"))
        <3>1. Kept /\ UNCHANGED <<job, operator, late>>
            BY <1>0, <1>3, <2>1, NoRowWritten DEF TakeSlice
        <3>2. Moves(r, {"wrapUp", "sweepQueued"})
            BY <1>0, <2>1, ProceedMoves DEF Moves
        <3> QED BY <3>1, <3>2, StillRun DEF Moves
    <2>2. CASE /\ \E c \in Chunks : ClaimBackfillChunk(c, r) /\ Takes(r, c)
               /\ late' = IF job.status = "running" THEN late \ {r} ELSE late \cup {r}
        <3>1. Kept /\ UNCHANGED <<job, operator>>
            BY <1>0, <1>3, <2>2, ClaimKept DEF TakeSlice
        <3>2. Moves(r, {"verify"})
            BY <1>0, <2>2, TakesMoves
        <3>3. /\ late' \subseteq Runs /\ late' \subseteq late \cup {r}
              /\ job.status = "running" => late' = {}
            BY <1>0, <2>2 DEF LateOK
        <3> QED BY <3>1, <3>2, <3>3, QuietRun DEF Moves
    <2> QED BY <1>3, <2>1, <2>2 DEF TakeSlice
<1>4. CASE Verify(r)
    <2>1. CASE job.status = "running" /\ Proceed(r, "contact") /\ UNCHANGED chunk
        <3>1. Kept /\ UNCHANGED <<job, operator, late>> /\ Moves(r, {"contact"})
            BY <1>0, <1>4, <2>1, NoRowWritten, ProceedMoves DEF Verify
        <3> QED BY <2>1, <3>1, StillRun DEF Moves
    <2>2. CASE ReleaseSlice(r)
        <3> DEFINE c == exec[r].cur
        <3>1. UNCHANGED <<job, operator, late>> /\ Moves(r, {"wrapUp"})
            BY <1>0, <1>4, <2>2, LeaveMoves DEF Verify, ReleaseSlice
        <3>2. Kept
            <4>1. CASE chunk[c].status = "running" /\ chunk[c].leaseId = r /\ c \in Chunks
                <5>1. chunk' = [chunk EXCEPT ![c] = Settled(chunk[c], "queued", chunk[c].lastError)]
                    BY <2>2, <4>1 DEF ReleaseSlice
                <5>2. chunk[c].lastError \in BOOLEAN /\ "queued" \in ChunkStatus \cup {"cancelled"}
                    BY <1>0, <4>1 DEF SlicesOK, SliceKind, ChunkStatus
                <5> HIDE DEF c
                <5> QED BY <1>0, <4>1, <5>1, <5>2, SettledKept
            <4>2. CASE UNCHANGED chunk
                BY <1>0, <4>2, NoRowWritten
            <4>3. c \notin Chunks => UNCHANGED chunk
                BY <1>0, <2>2 DEF ReleaseSlice, SlicesOK
            <4> QED BY <2>2, <4>1, <4>2, <4>3 DEF ReleaseSlice
        <3> QED BY <3>1, <3>2, StillRun DEF Moves
    <2> QED BY <1>4, <2>1, <2>2 DEF Verify
<1>5. CASE Contact(r)
    <2>1. Kept /\ UNCHANGED <<job, operator, late>> /\ exec[r].pc \in ExecSlice
        BY <1>0, <1>5, NoRowWritten DEF Contact, rows, ExecAt
    <2>2. Moves(r, {"reportDone", "reportError"})
        BY <1>0, <1>5, ProceedMoves DEF Contact, Moves
    <2> QED BY <2>1, <2>2, StillRun DEF Moves
<1>6. CASE ReportSlice(r)
    <2>1. Kept /\ UNCHANGED <<job, operator, late>> /\ exec[r].pc \in ExecSlice
        BY <1>0, <1>6, NoRowWritten DEF ReportSlice, Reports, ExecAt, UpdateImportJobProgress
    <2>2. Moves(r, {"complete", "failChunk", "aborted"})
        BY <1>0, <1>6, ProceedMoves, LeaveMoves DEF ReportSlice, Moves
    <2> QED BY <2>1, <2>2, StillRun DEF Moves
<1>7. CASE SettleSlice(r)
    <2> DEFINE c == exec[r].cur
    <2>1. UNCHANGED <<job, operator, late>> /\ Moves(r, {"drain"})
        BY <1>0, <1>7, LeaveMoves DEF SettleSlice
    <2>2. CASE UNCHANGED chunk
        BY <1>0, <2>1, <2>2, NoRowWritten, StillRun DEF Moves
    <2>3. CASE \E status \in ChunkStatus, err \in BOOLEAN :
                  /\ chunk[c].status = "running"
                  /\ chunk' = [chunk EXCEPT ![c] = Settled(chunk[c], status, err)]
        <3>1. Kept
            BY <1>0, <2>3, NoRowWritten, SettledKept, ZenonT(30) DEF SlicesOK
        <3> QED BY <2>1, <3>1, StillRun DEF Moves
    <2>4. CompleteBackfillChunk(c, r, chunk[c].fencingToken, FALSE)
            => \E status \in ChunkStatus, err \in BOOLEAN :
                  /\ chunk[c].status = "running"
                  /\ chunk' = [chunk EXCEPT ![c] = Settled(chunk[c], status, err)]
        BY DEF CompleteBackfillChunk, FencingGuard, ChunkStatus
    <2>5. FailBackfillChunk(c, r, chunk[c].fencingToken)
            => \E status \in ChunkStatus, err \in BOOLEAN :
                  /\ chunk[c].status = "running"
                  /\ chunk' = [chunk EXCEPT ![c] = Settled(chunk[c], status, err)]
        BY DEF FailBackfillChunk, FencingGuard, ChunkStatus
    <2> QED BY <1>7, <2>2, <2>3, <2>4, <2>5 DEF SettleSlice
<1>8. CASE Drain(r)
    <2>1. Kept /\ UNCHANGED <<job, operator, late>>
        BY <1>0, <1>8, NoRowWritten DEF Drain, rows
    <2>2. Moves(r, {"settlePause", "loop"})
        BY <1>0, <1>8, ProceedMoves DEF Drain, Moves
    <2> QED BY <2>1, <2>2, StillRun DEF Moves
<1>9. CASE WrapUp(r)
    <2>1. Kept /\ UNCHANGED <<job, operator, late>>
        BY <1>0, <1>9, NoRowWritten DEF WrapUp, rows
    <2>2. Moves(r, {IF Whole THEN "finish" ELSE "settle"})
        BY <1>0, <1>9, ProceedMoves DEF WrapUp
    <2>3. Whole => AllSettled
        BY <1>0 DEF Whole, WithStatus, AllSettled, SlicesOK, SliceKind, ChunkStatus
    <2> QED BY <2>1, <2>2, <2>3, StillRun DEF Moves
<1>10. CASE PilotStatementFails(r)
    <2>1. Kept /\ UNCHANGED <<job, operator, late>>
        BY <1>0, <1>10, NoRowWritten DEF PilotStatementFails, rows
    <2>2. Moves(r, {"failChunk", "settle", "aborted"})
        BY <1>0, <1>10, ProceedMoves, LeaveMoves DEF PilotStatementFails, Moves
    <2>3. exec'[r].pc = "failChunk" => exec[r].pc \in ExecSlice
        <3>1. Proceed(r, "settle") => exec'[r].pc = "settle"
            BY <1>0, ProceedMoves DEF Moves
        <3>2. Leave(r, "aborted") => exec'[r].pc = "aborted"
            BY <1>0, LeaveMoves DEF Moves
        <3> QED BY <1>10, <3>1, <3>2 DEF PilotStatementFails
    <2> QED BY <2>1, <2>2, <2>3, StillRun DEF Moves
<1>11. CASE PilotCrash(r)
    <2>1. Kept /\ UNCHANGED <<job, operator, late>>
        BY <1>0, <1>11, NoRowWritten DEF PilotCrash, rows
    <2>2. Moves(r, {"aborted"})
        BY <1>0, <1>11, LeaveMoves DEF PilotCrash
    <2> QED BY <2>1, <2>2, StillRun DEF Moves
<1> QED BY <1>1, <1>2, <1>3, <1>4, <1>5, <1>6, <1>7, <1>8, <1>9, <1>10, <1>11

(* A write of the job that does not start it, by an execution or by others:  *)
(* the invariant asks of the new row that it has a kind of its own, that a   *)
(* terminal status covers the slices, and that the executions which gave the *)
(* job back still do not hold it.                                            *)
LEMMA JobWritten ==
    ASSUME PilotInv, job' \in JobKind, job'.status = "running" => job.status = "running",
           job'.status = "running" => job'.leaseId = job.leaseId,
           job'.status \in JobTerminal => job.status \in JobTerminal \/ AllSettled,
           Kept, ExecsOK', OperatorsOK', UNCHANGED late,
           \A q \in Runs : \/ exec'[q] = exec[q]
                           \/ /\ exec'[q].pc \notin ExecSlice \cup {"finish"}
                              /\ exec'[q].pc \in {"dropLease", "done"} =>
                                     ~(job'.status = "running" /\ job'.leaseId = q)
    PROVE  PilotInv'
<1>0. /\ PilotJobOK /\ SlicesOK /\ ExecsOK /\ OperatorsOK
      /\ LateOK /\ FinishOK /\ EndOK /\ VerdictCoversAllSlices
    BY DEF PilotInv
<1>1. PilotJobOK' /\ SlicesOK'
    BY DEF PilotJobOK, Kept
<1>2. AllSettled => AllSettled'
    BY DEF AllSettled, Kept
<1>3. LateOK'
    BY <1>0 DEF LateOK, NoContactAfterStop
<1>4. FinishOK'
    BY <1>0, <1>2 DEF FinishOK, ExecAt
<1>5. EndOK'
    BY <1>0 DEF EndOK, Holds
<1>6. VerdictCoversAllSlices'
    BY <1>0, <1>2 DEF VerdictCoversAllSlices, AllSettled
<1> QED BY <1>1, <1>3, <1>4, <1>5, <1>6 DEF PilotInv

LEMMA ClaimStep ==
    ASSUME PilotInv, NEW r \in Runs, ClaimParent(r)
    PROVE  PilotInv' /\ FinalKept
<1>0. /\ PilotJobOK /\ SlicesOK /\ ExecsOK /\ OperatorsOK
      /\ LateOK /\ FinishOK /\ EndOK /\ VerdictCoversAllSlices
    BY DEF PilotInv
<1>1. /\ job' = [job EXCEPT !.status = "running", !.leaseId = r, !.live = TRUE]
      /\ Proceed(r, "sweep") /\ late' = {} /\ UNCHANGED <<chunk, operator>>
      /\ ExecAt(r, "idle") /\ job.status \in {"queued", "running"}
    BY DEF ClaimParent, ClaimImportJob, JobClaimable
<1>2. job' \in JobKind /\ job'.status = "running" /\ job'.leaseId = r
    <2>1. "running" \in JobStatus \cup Paused \cup Cancelled \cup {"none"} /\ r \in Runs \cup {NoRun}
        BY DEF JobStatus
    <2> QED BY <1>0, <1>1, <2>1, LeaseWritten, Zenon
<1>3. Moves(r, {"sweep"})
    BY <1>0, <1>1, ProceedMoves DEF Points, ExecRunning
<1>4. PilotJobOK' /\ SlicesOK' /\ ExecsOK' /\ OperatorsOK'
    BY <1>0, <1>1, <1>2, <1>3 DEF PilotJobOK, SlicesOK, ExecsOK, OperatorsOK, Moves
<1>5. LateOK'
    BY <1>1 DEF LateOK, NoContactAfterStop
<1>6. FinishOK'
    BY <1>0, <1>1, <1>3 DEF FinishOK, ExecAt, Moves, AllSettled
<1>7. EndOK'
    BY <1>2, <1>3 DEF EndOK, Holds, Moves
<1>8. VerdictCoversAllSlices' /\ FinalKept
    BY <1>1, <1>2 DEF VerdictCoversAllSlices, FinalKept, JobTerminal, PilotTerminal, Cancelled
<1> QED BY <1>4, <1>5, <1>6, <1>7, <1>8 DEF PilotInv

LEMMA OwnerStep ==
    ASSUME PilotInv, NEW r \in Runs,
           SettlePause(r) \/ FinishPilot(r) \/ SettleParentLease(r) \/ DropParentLease(r)
    PROVE  PilotInv' /\ FinalKept
<1>0. /\ PilotJobOK /\ SlicesOK /\ ExecsOK /\ OperatorsOK
      /\ LateOK /\ FinishOK /\ EndOK /\ VerdictCoversAllSlices
    BY DEF PilotInv
<1>1. Kept /\ OperatorsOK' /\ UNCHANGED late
    BY <1>0, NoRowWritten DEF SettlePause, FinishPilot, SettleParentLease, DropParentLease, OperatorsOK
<1>2. job.status \in JobStatus \cup Paused \cup Cancelled \cup {"none"}
    BY <1>0 DEF PilotJobOK, JobKind
<1> USE DEF Points, ExecRunning, ExecLoop, ExecSlice, ExecTail
<1>3. CASE SettlePause(r)
    <2>1. Moves(r, {"wrapUp", "loop"})
        BY <1>0, <1>3, ProceedMoves DEF SettlePause, Moves
    <2>2. CASE UNCHANGED job
        <3>1. job' \in JobKind
            BY <1>0, <2>2 DEF PilotJobOK
        <3> QED BY <1>1, <2>1, <2>2, <3>1, JobWritten DEF Moves, ExecsOK, FinalKept
    <2>3. CASE job.status = "pause_requested" /\ job' = [job EXCEPT !.status = "paused"]
        <3>1. "paused" \in Paused
            BY DEF Paused
        <3>2. job' \in JobKind /\ job'.status = "paused"
            BY <1>0, <2>3, <3>1, JobColumns DEF PilotJobOK
        <3>3. FinalKept
            BY <2>3 DEF FinalKept, PilotTerminal, JobTerminal, Cancelled
        <3> QED BY <1>1, <2>1, <3>2, <3>3, JobWritten DEF Moves, ExecsOK, JobTerminal
    <2> QED BY <1>3, <2>2, <2>3 DEF SettlePause
<1>4. CASE FinishPilot(r)
    <2>1. CASE UNCHANGED job /\ Proceed(r, "settle")
        <3>1. job' \in JobKind /\ Moves(r, {"settle"})
            BY <1>0, <2>1, ProceedMoves DEF PilotJobOK
        <3> QED BY <1>1, <2>1, <3>1, JobWritten DEF Moves, ExecsOK, FinalKept
    <2>2. CASE CompleteImportJob(r, PilotOutcome, {}) /\ Leave(r, "done")
        <3>1. Moves(r, {"done"}) /\ AllSettled
            BY <1>0, <1>4, <2>2, LeaveMoves DEF FinishPilot, FinishOK
        <3>2. PilotOutcome \in JobTerminal
            BY DEF PilotOutcome, JobTerminal
        <3>3. job' = Relinquished(PilotOutcome) /\ job.status = "running"
            BY <2>2 DEF CompleteImportJob, OwnsJob
        <3>4. job' \in JobKind /\ job'.status = PilotOutcome
            BY <1>0, <3>2, <3>3, RelinquishedRow DEF JobStatus
        <3>5. job'.status # "running" /\ FinalKept
            BY <3>2, <3>3, <3>4 DEF JobTerminal, PilotTerminal, Cancelled, FinalKept
        <3> QED BY <1>1, <3>1, <3>4, <3>5, JobWritten DEF Moves, ExecsOK
    <2> QED BY <1>4, <2>1, <2>2 DEF FinishPilot
<1>5. CASE SettleParentLease(r)
    <2>1. CASE GiveBack(r)
        <3>1. job' = Relinquished("queued") /\ Moves(r, {"done"}) /\ job.status = "running"
            BY <1>0, <1>5, <2>1, LeaveMoves DEF SettleParentLease, GiveBack
        <3>2. job' \in JobKind /\ job'.status = "queued"
            BY <1>0, <3>1, RelinquishedRow DEF JobStatus
        <3>3. FinalKept
            BY <3>1 DEF FinalKept, PilotTerminal, JobTerminal, Cancelled
        <3> QED BY <1>1, <3>1, <3>2, <3>3, JobWritten DEF Moves, ExecsOK, JobTerminal
    <2>2. CASE ~GiveBack(r)
        <3>1. UNCHANGED job /\ Moves(r, {"dropLease"}) /\ job' \in JobKind
            BY <1>0, <1>5, <2>2, ProceedMoves DEF SettleParentLease, PilotJobOK
        <3> QED BY <1>1, <2>2, <3>1, JobWritten DEF Moves, ExecsOK, GiveBack, FinalKept
    <2> QED BY <2>1, <2>2
<1>6. CASE DropParentLease(r)
    <2>1. Moves(r, {"done"}) /\ ~Holds(r)
        BY <1>0, <1>6, LeaveMoves DEF DropParentLease, EndOK, ExecAt
    <2>2. CASE UNCHANGED job
        <3>1. job' \in JobKind
            BY <1>0, <2>2 DEF PilotJobOK
        <3> QED BY <1>1, <2>1, <2>2, <3>1, JobWritten DEF Moves, ExecsOK, Holds, FinalKept
    <2>3. CASE job.status \in Paused \cup Cancelled /\ job' = Relinquished(job.status)
        <3>1. job' \in JobKind /\ job'.status = job.status
            BY <1>0, <1>2, <2>3, RelinquishedRow
        <3>2. job.status # "running"
            BY <2>3 DEF Paused, Cancelled
        <3> QED BY <1>1, <2>1, <3>1, <3>2, JobWritten DEF Moves, ExecsOK, FinalKept
    <2> QED BY <1>6, <2>2, <2>3 DEF DropParentLease
<1> QED BY <1>3, <1>4, <1>5, <1>6

LEMMA LeasesStep ==
    ASSUME PilotInv, PilotLeases
    PROVE  PilotInv' /\ FinalKept
<1>0. /\ PilotJobOK /\ SlicesOK /\ ExecsOK /\ OperatorsOK /\ UNCHANGED <<exec, operator, late>>
    BY DEF PilotInv, PilotLeases
<1>1. ExecsOK' /\ OperatorsOK'
    BY <1>0 DEF ExecsOK, OperatorsOK
<1>2. CASE RecoverExpiredJob /\ UNCHANGED chunk
    <2>1. job.status = "running" /\ job' = Relinquished("queued") /\ Kept
        BY <1>0, <1>2, NoRowWritten DEF RecoverExpiredJob
    <2>2. job' \in JobKind /\ job'.status = "queued"
        BY <1>0, <2>1, RelinquishedRow DEF JobStatus
    <2> QED BY <1>0, <1>1, <2>1, <2>2, JobWritten DEF JobTerminal, PilotTerminal, Cancelled, FinalKept
<1>3. CASE ExpireJobLease /\ UNCHANGED chunk
    <2>1. job' = [job EXCEPT !.live = FALSE] /\ Kept
        BY <1>0, <1>3, NoRowWritten DEF ExpireJobLease
    <2>2. job' \in JobKind /\ job'.status = job.status /\ job'.leaseId = job.leaseId
        BY <1>0, <2>1, JobColumns DEF PilotJobOK
    <2> QED BY <1>0, <1>1, <2>1, <2>2, JobWritten DEF FinalKept
<1>4. CASE \E c \in Chunks : ExpireChunkLease(c) /\ UNCHANGED <<job, results>>
    <2>1. PICK c \in Chunks : ExpireChunkLease(c) /\ UNCHANGED job
        BY <1>4
    <2>2. [chunk[c] EXCEPT !.live = FALSE] \in SliceKind
        BY <1>0, PutSliceLive DEF SlicesOK
    <2>3. chunk' = [chunk EXCEPT ![c] = [chunk[c] EXCEPT !.live = FALSE]]
        BY <1>0, <2>1 DEF ExpireChunkLease, SlicesOK
    <2>4. Kept
        BY <1>0, <2>1, <2>2, <2>3, RowKept DEF ExpireChunkLease
    <2>5. job' \in JobKind
        BY <1>0, <2>1 DEF PilotJobOK
    <2> QED BY <1>0, <1>1, <2>1, <2>4, <2>5, JobWritten DEF FinalKept
<1> QED BY <1>2, <1>3, <1>4 DEF PilotLeases

(* Requests of the operator.                                                 *)
LEMMA OperatorStep ==
    ASSUME PilotInv, NEW o \in Operators,
           \/ RequestOfOperator(o) \/ ListSlices(o)
           \/ CancelQueuedSlices(o) \/ WriteStatus(o) \/ RequestDies(o)
    PROVE  PilotInv' /\ FinalKept
<1>0. /\ PilotJobOK /\ SlicesOK /\ ExecsOK /\ OperatorsOK /\ UNCHANGED <<exec, late>> /\ ExecsOK'
    BY DEF PilotInv, RequestOfOperator, ListSlices, CancelQueuedSlices, WriteStatus, RequestDies,
       ExecsOK
<1>1. CASE WriteStatus(o)
    <2>1. OperatorsOK' /\ Kept
        BY <1>0, <1>1, NoRowWritten DEF WriteStatus, Answers, OperatorsOK, NoRequest, OperatorType
    <2>2. CASE UNCHANGED job
        <3>1. job' \in JobKind
            BY <1>0, <2>2 DEF PilotJobOK
        <3> QED BY <1>0, <2>1, <2>2, <3>1, JobWritten DEF FinalKept
    <2>3. CASE /\ Unmoved(o)
               /\ job' = [job EXCEPT !.status =
                              IF operator[o].pc = "resumeWrite" THEN "queued" ELSE operator[o].next]
        <3> DEFINE status == IF operator[o].pc = "resumeWrite" THEN "queued" ELSE operator[o].next
        <3>1. /\ status \in {"queued", "none"} \cup Paused \cup Cancelled
              /\ operator[o].seen \notin PilotTerminal
            BY <1>0, <1>1 DEF OperatorsOK, OperatorType, WriteStatus
        <3>2. FinalKept
            BY <2>3, <3>1 DEF Unmoved, FinalKept
        <3>3. job' = [job EXCEPT !.status = status]
            BY <2>3
        <3> HIDE DEF status
        <3>4. job' \in JobKind /\ job'.status = status
            BY <1>0, <3>1, <3>3, JobColumns DEF PilotJobOK, JobStatus
        <3>5. status # "running" /\ status \notin JobTerminal
            BY <3>1 DEF Paused, Cancelled, JobTerminal
        <3> QED BY <1>0, <2>1, <3>2, <3>4, <3>5, JobWritten
    <2> QED BY <1>1, <2>2, <2>3 DEF WriteStatus
<1>2. ASSUME OperatorsOK', Kept, UNCHANGED job
      PROVE  PilotInv' /\ FinalKept
    <2>1. job' \in JobKind
        BY <1>0, <1>2 DEF PilotJobOK
    <2> QED BY <1>0, <1>2, <2>1, JobWritten DEF FinalKept
<1>3. CASE RequestOfOperator(o)
    <2>1. job.status \in JobStatus \cup Paused \cup Cancelled \cup {"none"}
        BY <1>0 DEF PilotJobOK, JobKind
    <2>2. PICK point \in {"pauseList", "cancelQueued", "resumeWrite"} :
            /\ job.status \notin PilotTerminal
            /\ operator' = [operator EXCEPT ![o].pc = point, ![o].seen = job.status]
        BY <1>3 DEF RequestOfOperator, PilotTerminal, Paused, Cancelled, JobTerminal
    <2>3. OperatorsOK'
        BY <1>0, <2>1, <2>2, ZenonT(30) DEF OperatorsOK, OperatorType, PilotTerminal
    <2> QED BY <1>0, <1>2, <1>3, <2>3, NoRowWritten DEF RequestOfOperator, rows
<1>4. CASE ListSlices(o)
    <2>1. OperatorsOK'
        BY <1>0, <1>4 DEF ListSlices, OperatorsOK, OperatorType, Paused, Cancelled
    <2> QED BY <1>0, <1>2, <1>4, <2>1, NoRowWritten DEF ListSlices, rows
<1>5. CASE CancelQueuedSlices(o)
    <2>1. OperatorsOK'
        BY <1>0, <1>5 DEF CancelQueuedSlices, Asks, OperatorsOK, OperatorType
    <2> QED BY <1>0, <1>2, <1>5, <2>1, CancelKeeps DEF CancelQueuedSlices
<1>6. CASE RequestDies(o)
    <2>1. OperatorsOK'
        BY <1>0, <1>6 DEF RequestDies, Answers, OperatorsOK, NoRequest, OperatorType
    <2> QED BY <1>0, <1>2, <1>6, <2>1, NoRowWritten DEF RequestDies, rows
<1> QED BY <1>1, <1>3, <1>4, <1>5, <1>6

LEMMA PilotStep == PilotInv /\ PilotNext => PilotInv' /\ FinalKept
<1> SUFFICES ASSUME PilotInv, PilotNext PROVE PilotInv' /\ FinalKept
    OBVIOUS
<1>1. UNCHANGED job => FinalKept
    BY DEF FinalKept
<1> QED BY <1>1, ExecStep, ClaimStep, OwnerStep, LeasesStep, OperatorStep DEF PilotNext

LEMMA PilotAlways == PilotSpec => []PilotInv
<1>1. PilotInv /\ UNCHANGED pilotVars => PilotInv'
    BY DEF pilotVars, PilotInv, PilotJobOK, SlicesOK, ExecsOK, OperatorsOK, LateOK, NoContactAfterStop,
       FinishOK, ExecAt, AllSettled, EndOK, Holds, VerdictCoversAllSlices
<1> QED BY <1>1, PilotInvInit, PilotStep, PTL DEF PilotSpec

(* A slice claimed after the job had stopped never reaches the provider.     *)
THEOREM StopReachesWorkers == PilotSpec => []NoContactAfterStop
<1>1. PilotInv => NoContactAfterStop
    BY DEF PilotInv, LateOK
<1> QED BY <1>1, PilotAlways, PTL

(* A verdict of an execution speaks for every slice, however many there are. *)
THEOREM VerdictsAreWhole == PilotSpec => []VerdictCoversAllSlices
<1>1. PilotInv => VerdictCoversAllSlices
    BY DEF PilotInv
<1> QED BY <1>1, PilotAlways, PTL

(* An execution that ended in order has given the job back.                  *)
THEOREM JobsAreGivenBack == PilotSpec => []EndedExecutionFreesJob
<1>1. PilotInv => EndedExecutionFreesJob
    BY DEF PilotInv, EndOK, Holds, EndedExecutionFreesJob, ExecAt
<1> QED BY <1>1, PilotAlways, PTL

(* Whatever the operator and the executions read before, a verdict is final. *)
THEOREM OneVerdict == PilotSpec => PilotVerdictIsFinal
<1>1. PilotSpec => [][FinalKept]_pilotVars
    BY PilotStep, PilotAlways, PTL DEF PilotSpec
<1> QED BY <1>1 DEF FinalKept, PilotVerdictIsFinal
-----------------------------------------------------------------------------
(* The promise of PilotLedger.  Beyond PilotInv the refinement needs that a  *)
(* slice is admitted no more often than allowed and is running exactly while *)
(* somebody owns it; that an operator about to write has read what his write *)
(* says; and that an execution which treats a slice has one.                 *)
SliceRowOK(c) == /\ chunk[c].attempts <= MaxAttempts
                 /\ chunk[c].status = "running" <=> chunk[c].leaseId # NoRun
OfferOK(o) == /\ operator[o].pc = "pauseWrite" => operator[o].next \in Paused
              /\ operator[o].pc = "cancelWrite" =>
                     /\ operator[o].next \in Cancelled
                     /\ operator[o].next = "partial_cancelled" => Completed # {}
HasSlice(r) == exec[r].pc \in ExecSlice \cup {"verify"} => exec[r].cur \in Chunks

PledgeRows == \A c \in Chunks : SliceRowOK(c)
PledgeOffers == \A o \in Operators : OfferOK(o)
PledgeSlices == \A r \in Runs : HasSlice(r)
PledgeInv == /\ PilotInv /\ job.status # "none"
             /\ PledgeRows /\ PledgeOffers /\ PledgeSlices

(* What a step does to a slice.                                              *)
Same(c) == /\ chunk'[c].status = chunk[c].status /\ chunk'[c].leaseId = chunk[c].leaseId
           /\ chunk'[c].attempts = chunk[c].attempts
Freed(c, status) == /\ chunk'[c].status = status /\ chunk'[c].leaseId = NoRun
                    /\ chunk'[c].attempts = chunk[c].attempts
Given(c, r) == /\ chunk'[c].status = "running" /\ chunk'[c].leaseId = r
               /\ chunk'[c].attempts = chunk[c].attempts + 1
RestSame(S) == \A c \in Chunks \ S : Same(c)
IsPending(c) == chunk[c].status \in {"queued", "running"}

Admits == \E c \in Chunks, r \in Runs :
              IsPending(c) /\ chunk[c].attempts < MaxAttempts /\ Given(c, r) /\ RestSame({c})
Leaves == \E c \in Chunks, status \in {"completed", "queued"} :
              chunk[c].status = "running" /\ Freed(c, status) /\ RestSame({c})
GivesUp == \E S \in SUBSET Chunks :
              /\ \A c \in S : IsPending(c) /\ chunk[c].attempts = MaxAttempts /\ Freed(c, "failed")
              /\ RestSame(S)
Drops == \E S \in SUBSET Chunks :
              /\ \A c \in S : chunk[c].status = "queued" /\ Freed(c, "cancelled")
              /\ RestSame(S)
SlicesMove == Admits \/ Leaves \/ GivesUp \/ Drops \/ RestSame({})

LEMMA OneFreed ==
    ASSUME SlicesOK, NEW c \in Chunks, NEW status \in ChunkStatus \cup {"cancelled"},
           NEW err \in BOOLEAN, chunk' = [chunk EXCEPT ![c] = Settled(chunk[c], status, err)]
    PROVE  Freed(c, status) /\ RestSame({c})
<1>1. chunk \in [Chunks -> SliceKind] /\ chunk[c] \in SliceKind
    BY DEF SlicesOK
<1>2. /\ Settled(chunk[c], status, err).status = status
      /\ Settled(chunk[c], status, err).leaseId = NoRun
      /\ Settled(chunk[c], status, err).attempts = chunk[c].attempts
    BY <1>1, SettledRow
<1>3. chunk'[c] = Settled(chunk[c], status, err) /\ \A d \in Chunks \ {c} : chunk'[d] = chunk[d]
    BY <1>1
<1> QED BY <1>2, <1>3 DEF Freed, RestSame, Same

LEMMA ManyFreed ==
    ASSUME SlicesOK, NEW S \in SUBSET Chunks, NEW status \in ChunkStatus \cup {"cancelled"},
           NEW err \in [Chunks -> BOOLEAN],
           chunk' = [c \in Chunks |-> IF c \in S THEN Settled(chunk[c], status, err[c]) ELSE chunk[c]]
    PROVE  (\A c \in S : Freed(c, status)) /\ RestSame(S)
<1>1. ASSUME NEW c \in S PROVE Freed(c, status)
    <2>1. chunk[c] \in SliceKind /\ err[c] \in BOOLEAN /\ c \in Chunks
        BY DEF SlicesOK
    <2>2. /\ Settled(chunk[c], status, err[c]).status = status
          /\ Settled(chunk[c], status, err[c]).leaseId = NoRun
          /\ Settled(chunk[c], status, err[c]).attempts = chunk[c].attempts
        BY <2>1, SettledRow
    <2>3. chunk'[c] = Settled(chunk[c], status, err[c])
        BY <2>1
    <2> QED BY <2>2, <2>3 DEF Freed
<1>2. RestSame(S)
    BY DEF RestSame, Same
<1> QED BY <1>1, <1>2

LEMMA NoSliceMoves ==
    ASSUME UNCHANGED chunk
    PROVE  SlicesMove
BY DEF SlicesMove, RestSame, Same

(* Every action that writes slices.                                          *)
LEMMA SweepsGiveUp ==
    ASSUME SlicesOK, PledgeRows, SweepExhaustedChunks \/ FailExhaustedQueuedChunks
    PROVE  SlicesMove
<1> DEFINE err == [c \in Chunks |-> TRUE]
<1>1. PICK S \in SUBSET Chunks :
        /\ \A c \in S : IsPending(c) /\ chunk[c].attempts >= MaxAttempts
        /\ chunk' = [c \in Chunks |-> IF c \in S THEN Settled(chunk[c], "failed", TRUE) ELSE chunk[c]]
    <2>1. CASE SweepExhaustedChunks
        <3> WITNESS {c \in Chunks : Expired(c) /\ Exhausted(c)} \in SUBSET Chunks
        <3> QED BY <2>1 DEF SweepExhaustedChunks, Expired, Exhausted, IsPending
    <2>2. CASE FailExhaustedQueuedChunks
        <3> WITNESS {c \in Chunks : chunk[c].status = "queued" /\ Exhausted(c)} \in SUBSET Chunks
        <3> QED BY <2>2 DEF FailExhaustedQueuedChunks, Exhausted, IsPending
    <2> QED BY <2>1, <2>2
<1>2. chunk' = [c \in Chunks |-> IF c \in S THEN Settled(chunk[c], "failed", err[c]) ELSE chunk[c]]
    BY <1>1
<1>3. err \in [Chunks -> BOOLEAN] /\ "failed" \in ChunkStatus \cup {"cancelled"}
    BY DEF ChunkStatus
<1> HIDE DEF err
<1>4. (\A c \in S : Freed(c, "failed")) /\ RestSame(S)
    BY <1>2, <1>3, ManyFreed
<1>5. \A c \in S : chunk[c].attempts = MaxAttempts
    BY <1>1 DEF PledgeRows, SliceRowOK, SlicesOK, SliceKind
<1> QED BY <1>1, <1>4, <1>5 DEF GivesUp, SlicesMove

LEMMA ClaimAdmits ==
    ASSUME SlicesOK, NEW c \in Chunks, NEW r \in Runs, ClaimBackfillChunk(c, r), ~Exhausted(c)
    PROVE  SlicesMove
<1>1. chunk[c].attempts \in Nat
    BY DEF SlicesOK, SliceKind
<1>2. chunk[c].attempts < MaxAttempts
    BY <1>1 DEF Exhausted
<1>3. ClaimedRow(c, r) = [status |-> "running", leaseId |-> r, live |-> TRUE,
              fencingToken |-> chunk[c].fencingToken + 1, attempts |-> chunk[c].attempts + 1,
              lastError |-> chunk[c].lastError]
    BY DEF ClaimedRow
<1>4. chunk'[c] = ClaimedRow(c, r) /\ \A d \in Chunks \ {c} : chunk'[d] = chunk[d]
    BY DEF ClaimBackfillChunk, SlicesOK
<1>5. Given(c, r) /\ RestSame({c})
    BY <1>3, <1>4 DEF Given, RestSame, Same
<1>6. IsPending(c)
    BY DEF ClaimBackfillChunk, Claimable, Expired, IsPending
<1> QED BY <1>2, <1>5, <1>6 DEF Admits, SlicesMove

LEMMA ReleaseLeaves ==
    ASSUME SlicesOK, NEW r \in Runs, ReleaseSlice(r)
    PROVE  SlicesMove
<1> DEFINE c == exec[r].cur
<1>1. CASE chunk[c].status = "running" /\ chunk[c].leaseId = r /\ c \in Chunks
    <2>1. chunk' = [chunk EXCEPT ![c] = Settled(chunk[c], "queued", chunk[c].lastError)]
        BY <1>1 DEF ReleaseSlice
    <2>2. chunk[c].lastError \in BOOLEAN /\ "queued" \in ChunkStatus \cup {"cancelled"}
        BY <1>1 DEF SlicesOK, SliceKind, ChunkStatus
    <2> HIDE DEF c
    <2>3. Freed(c, "queued") /\ RestSame({c})
        BY <1>1, <2>1, <2>2, OneFreed
    <2> QED BY <1>1, <2>3 DEF Leaves, SlicesMove
<1>2. c \notin Chunks => UNCHANGED chunk
    BY DEF ReleaseSlice, SlicesOK
<1>3. ~(chunk[c].status = "running" /\ chunk[c].leaseId = r) => UNCHANGED chunk
    BY DEF ReleaseSlice
<1> QED BY <1>1, <1>2, <1>3, NoSliceMoves

LEMMA SettleLeaves ==
    ASSUME SlicesOK, PledgeRows, NEW r \in Runs, SettleSlice(r)
    PROVE  SlicesMove
<1> DEFINE c == exec[r].cur
<1>1. CASE c \notin Chunks
    <2>1. \A row : [chunk EXCEPT ![c] = row] = chunk
        BY <1>1 DEF SlicesOK
    <2>2. UNCHANGED chunk
        BY <2>1, Zenon DEF SettleSlice, CompleteBackfillChunk, FailBackfillChunk
    <2> QED BY <2>2, NoSliceMoves
<1>2. ASSUME c \in Chunks, FencingGuard(c, r, chunk[c].fencingToken),
             NEW status \in {"completed", "queued"}, NEW err \in BOOLEAN,
             chunk' = [chunk EXCEPT ![c] = Settled(chunk[c], status, err)]
      PROVE  SlicesMove
    <2>1. chunk[c].status = "running" /\ status \in ChunkStatus \cup {"cancelled"}
        BY <1>2 DEF FencingGuard, ChunkStatus
    <2> HIDE DEF c
    <2>2. Freed(c, status) /\ RestSame({c})
        BY <1>2, <2>1, OneFreed
    <2> QED BY <1>2, <2>1, <2>2 DEF Leaves, SlicesMove
<1>3. CASE c \in Chunks /\ CompleteBackfillChunk(c, r, chunk[c].fencingToken, FALSE)
    BY <1>2, <1>3 DEF CompleteBackfillChunk
<1>4. CASE c \in Chunks /\ FailBackfillChunk(c, r, chunk[c].fencingToken)
    <2>1. CASE ~Exhausted(c)
        BY <1>2, <1>4, <2>1 DEF FailBackfillChunk
    <2>2. CASE Exhausted(c)
        <3>1. /\ chunk[c].status = "running" /\ "failed" \in ChunkStatus \cup {"cancelled"}
              /\ chunk' = [chunk EXCEPT ![c] = Settled(chunk[c], "failed", TRUE)]
            BY <1>4, <2>2 DEF FailBackfillChunk, FencingGuard, ChunkStatus
        <3> HIDE DEF c
        <3>2. chunk[c].attempts = MaxAttempts
            BY <1>4, <2>2 DEF Exhausted, PledgeRows, SliceRowOK, SlicesOK, SliceKind
        <3>3. Freed(c, "failed") /\ RestSame({c})
            BY <1>4, <3>1, OneFreed
        <3>4. GivesUp
            <4>1. {c} \in SUBSET Chunks /\ \A d \in {c} : IsPending(d) /\ chunk[d].attempts = MaxAttempts
                                                        /\ Freed(d, "failed")
                BY <1>4, <3>1, <3>2, <3>3 DEF IsPending
            <4> QED BY <3>3, <4>1 DEF GivesUp
        <3> QED BY <3>4 DEF SlicesMove
    <2> QED BY <2>1, <2>2
<1> QED BY <1>1, <1>3, <1>4, NoSliceMoves DEF SettleSlice

LEMMA CancelDrops ==
    ASSUME SlicesOK, NEW o \in Operators, CancelQueuedSlices(o)
    PROVE  SlicesMove
<1> DEFINE err == [c \in Chunks |-> chunk[c].lastError]
           S == {c \in Chunks : chunk[c].status = "queued"}
<1>1. chunk' = [c \in Chunks |-> IF c \in S THEN Settled(chunk[c], "cancelled", err[c]) ELSE chunk[c]]
    BY DEF CancelQueuedSlices
<1>2. err \in [Chunks -> BOOLEAN]
    BY DEF SlicesOK, SliceKind
<1>3. S \in SUBSET Chunks /\ (\A c \in S : chunk[c].status = "queued")
      /\ "cancelled" \in ChunkStatus \cup {"cancelled"}
    OBVIOUS
<1> HIDE DEF err, S
<1>4. (\A c \in S : Freed(c, "cancelled")) /\ RestSame(S)
    BY <1>1, <1>2, <1>3, ManyFreed
<1> QED BY <1>3, <1>4 DEF Drops, SlicesMove

LEMMA ExpiryMovesNothing ==
    ASSUME SlicesOK, PilotLeases
    PROVE  SlicesMove
<1>1. CASE UNCHANGED chunk
    BY <1>1, NoSliceMoves
<1>2. CASE \E c \in Chunks : ExpireChunkLease(c)
    <2>1. PICK c \in Chunks : ExpireChunkLease(c)
        BY <1>2
    <2>2. chunk'[c] = [chunk[c] EXCEPT !.live = FALSE] /\ \A d \in Chunks \ {c} : chunk'[d] = chunk[d]
        BY <2>1 DEF ExpireChunkLease, SlicesOK
    <2>3. Same(c)
        BY <2>2, PutSliceLive DEF Same, SlicesOK
    <2>4. RestSame({})
        BY <2>2, <2>3 DEF RestSame, Same
    <2> QED BY <2>4 DEF SlicesMove
<1> QED BY <1>1, <1>2 DEF PilotLeases

LEMMA SliceActions ==
    ASSUME SlicesOK, PledgeRows, PilotNext
    PROVE  SlicesMove
<1>1. CASE UNCHANGED chunk
    BY <1>1, NoSliceMoves
<1>2. ASSUME NEW r \in Runs, SweepPilot(r) \/ TakeSlice(r) \/ Verify(r) \/ SettleSlice(r)
      PROVE  SlicesMove
    <2>1. SweepPilot(r) => SweepExhaustedChunks \/ FailExhaustedQueuedChunks
        BY DEF SweepPilot
    <2>2. TakeSlice(r) => \/ UNCHANGED chunk
                          \/ \E c \in Chunks : ClaimBackfillChunk(c, r) /\ ~Exhausted(c)
        BY DEF TakeSlice
    <2>3. Verify(r) => UNCHANGED chunk \/ ReleaseSlice(r)
        BY DEF Verify
    <2> QED BY <1>1, <1>2, <2>1, <2>2, <2>3, SweepsGiveUp, ClaimAdmits, ReleaseLeaves, SettleLeaves
<1>3. ASSUME NEW r \in Runs,
             \/ ClaimParent(r) \/ LoopTop(r) \/ Contact(r) \/ ReportSlice(r) \/ Drain(r)
             \/ SettlePause(r) \/ WrapUp(r) \/ FinishPilot(r) \/ SettleParentLease(r)
             \/ DropParentLease(r) \/ PilotStatementFails(r) \/ PilotCrash(r)
      PROVE  UNCHANGED chunk
    BY <1>3 DEF ClaimParent, LoopTop, Contact, ReportSlice, Drain, SettlePause, WrapUp, FinishPilot,
       SettleParentLease, DropParentLease, PilotStatementFails, PilotCrash, rows
<1>4. ASSUME NEW o \in Operators,
             RequestOfOperator(o) \/ ListSlices(o) \/ WriteStatus(o) \/ RequestDies(o)
      PROVE  UNCHANGED chunk
    BY <1>4 DEF RequestOfOperator, ListSlices, WriteStatus, RequestDies, rows
<1> QED BY <1>1, <1>2, <1>3, <1>4, ExpiryMovesNothing, CancelDrops DEF PilotNext

(* The counts and owners stay in step, and what is completed stays so.       *)
LEMMA MoveKeepsRows ==
    ASSUME SlicesOK, PledgeRows, SlicesMove
    PROVE  PledgeRows' /\ (Completed # {} => Completed' # {})
<1>0. \A c \in Chunks : chunk[c].attempts \in Nat
    BY DEF SlicesOK, SliceKind
<1>1. ASSUME NEW c \in Chunks, Same(c)
      PROVE  SliceRowOK(c)' /\ (chunk[c].status = "completed" => chunk'[c].status = "completed")
    BY <1>1 DEF Same, PledgeRows, SliceRowOK
<1>2. ASSUME NEW c \in Chunks, NEW status, Freed(c, status), IsPending(c), status # "running"
      PROVE  SliceRowOK(c)' /\ (chunk[c].status = "completed" => chunk'[c].status = "completed")
    BY <1>2 DEF Freed, PledgeRows, SliceRowOK, IsPending
<1>3. ASSUME NEW c \in Chunks, NEW r \in Runs, Given(c, r), IsPending(c), chunk[c].attempts < MaxAttempts
      PROVE  SliceRowOK(c)' /\ (chunk[c].status = "completed" => chunk'[c].status = "completed")
    BY <1>0, <1>3 DEF Given, PledgeRows, SliceRowOK, IsPending
<1>4. ASSUME NEW c \in Chunks
      PROVE  SliceRowOK(c)' /\ (chunk[c].status = "completed" => chunk'[c].status = "completed")
    <2>1. CASE Admits
        BY <1>1, <1>3, <2>1 DEF Admits, RestSame
    <2>2. CASE Leaves
        BY <1>1, <1>2, <2>2 DEF Leaves, RestSame, IsPending
    <2>3. CASE GivesUp
        BY <1>1, <1>2, <2>3 DEF GivesUp, RestSame
    <2>4. CASE Drops
        BY <1>1, <1>2, <2>4 DEF Drops, RestSame, IsPending
    <2>5. CASE RestSame({})
        BY <1>1, <2>5 DEF RestSame
    <2> QED BY <2>1, <2>2, <2>3, <2>4, <2>5 DEF SlicesMove
<1> QED BY <1>4 DEF PledgeRows, Completed, WithStatus

LEMMA ProceedKeepsSlices ==
    ASSUME ExecsOK, PledgeSlices, NEW r \in Runs, NEW point,
           point \in ExecSlice \cup {"verify"} => exec[r].pc \in ExecSlice \cup {"verify"},
           Proceed(r, point)
    PROVE  PledgeSlices'
<1>1. /\ exec'[r].pc = point /\ exec'[r].cur = exec[r].cur
      /\ \A q \in Runs \ {r} : exec'[q] = exec[q]
    BY DEF Proceed, ExecsOK, ExecType
<1> QED BY <1>1 DEF PledgeSlices, HasSlice

LEMMA LeaveKeepsSlices ==
    ASSUME ExecsOK, PledgeSlices, NEW r \in Runs, NEW how,
           how \notin ExecSlice \cup {"verify"}, Leave(r, how)
    PROVE  PledgeSlices'
<1>1. exec'[r].pc = how /\ \A q \in Runs \ {r} : exec'[q] = exec[q]
    BY DEF Leave, Fresh, ExecsOK, ExecType
<1> QED BY <1>1 DEF PledgeSlices, HasSlice

LEMMA ExecutionsHaveSlices ==
    ASSUME ExecsOK, PledgeSlices, PilotNext
    PROVE  PledgeSlices'
<1>1. CASE UNCHANGED exec
    BY <1>1 DEF PledgeSlices, HasSlice
<1>2. ASSUME NEW r \in Runs, TakeSlice(r)
      PROVE  PledgeSlices'
    <2>1. CASE Proceed(r, "wrapUp") \/ Proceed(r, "sweepQueued")
        BY <2>1, ProceedKeepsSlices DEF ExecSlice
    <2>2. CASE \E c \in Chunks : Takes(r, c)
        <3>1. PICK c \in Chunks : Takes(r, c)
            BY <2>2
        <3> DEFINE a == [exec EXCEPT ![r].pc = "verify"]
        <3>2. exec' = [a EXCEPT ![r].cur = c]
            BY <3>1, Zenon DEF Takes
        <3>3. /\ a \in [Runs -> [pc : {"idle", "done", "aborted"} \cup ExecRunning,
                                 cur : Chunks \cup {NoSlice}]]
              /\ \A q \in Runs \ {r} : a[q] = exec[q]
            BY DEF ExecsOK, ExecType, ExecRunning, ExecLoop
        <3> HIDE DEF a
        <3>4. exec'[r].cur = c /\ \A q \in Runs \ {r} : exec'[q] = exec[q]
            BY <3>2, <3>3
        <3> QED BY <3>4 DEF PledgeSlices, HasSlice
    <2> QED BY <1>2, <2>1, <2>2 DEF TakeSlice
<1> USE DEF ExecSlice
<1>3. ASSUME NEW r \in Runs,
             ClaimParent(r) \/ SweepPilot(r) \/ LoopTop(r) \/ Verify(r)
      PROVE  PledgeSlices'
    BY <1>3, ProceedKeepsSlices, LeaveKeepsSlices
       DEF ClaimParent, SweepPilot, LoopTop, Verify, ReleaseSlice, ExecAt
<1>4. ASSUME NEW r \in Runs,
             Contact(r) \/ ReportSlice(r) \/ SettleSlice(r)
      PROVE  PledgeSlices'
    BY <1>4, ProceedKeepsSlices, LeaveKeepsSlices
       DEF Contact, ReportSlice, Reports, SettleSlice, ExecAt
<1>5. ASSUME NEW r \in Runs,
             \/ Drain(r) \/ SettlePause(r) \/ WrapUp(r) \/ FinishPilot(r)
             \/ SettleParentLease(r) \/ DropParentLease(r)
      PROVE  PledgeSlices'
    BY <1>5, ProceedKeepsSlices, LeaveKeepsSlices
       DEF Drain, SettlePause, WrapUp, FinishPilot, SettleParentLease, DropParentLease
<1>6. ASSUME NEW r \in Runs, PilotStatementFails(r) \/ PilotCrash(r)
      PROVE  PledgeSlices'
    BY <1>6, ProceedKeepsSlices, LeaveKeepsSlices DEF PilotStatementFails, PilotCrash
<1>7. ASSUME NEW o \in Operators,
             \/ RequestOfOperator(o) \/ ListSlices(o)
             \/ CancelQueuedSlices(o) \/ WriteStatus(o) \/ RequestDies(o)
      PROVE  UNCHANGED exec
    BY <1>7 DEF RequestOfOperator, ListSlices, CancelQueuedSlices, WriteStatus, RequestDies
<1>8. PilotLeases => UNCHANGED exec
    BY DEF PilotLeases
<1> QED BY <1>1, <1>2, <1>3, <1>4, <1>5, <1>6, <1>7, <1>8 DEF PilotNext

(* What an operator is about to write is what he has read the slices to say. *)
LEMMA OffersStand ==
    ASSUME OperatorsOK, PledgeOffers, PilotNext, Completed # {} => Completed' # {}
    PROVE  PledgeOffers'
<1>1. CASE UNCHANGED operator
    BY <1>1 DEF PledgeOffers, OfferOK
<1>2. ASSUME NEW r \in Runs,
        \/ ClaimParent(r) \/ SweepPilot(r)
        \/ LoopTop(r) \/ TakeSlice(r) \/ Verify(r)
        \/ Contact(r) \/ ReportSlice(r) \/ SettleSlice(r) \/ Drain(r) \/ SettlePause(r)
        \/ WrapUp(r) \/ FinishPilot(r) \/ SettleParentLease(r) \/ DropParentLease(r)
        \/ PilotStatementFails(r) \/ PilotCrash(r)
      PROVE  UNCHANGED operator
    BY <1>2 DEF ClaimParent, SweepPilot, LoopTop, TakeSlice, Verify, Contact, ReportSlice, SettleSlice,
       Drain, SettlePause, WrapUp, FinishPilot, SettleParentLease, DropParentLease,
       PilotStatementFails, PilotCrash
<1>3. PilotLeases => UNCHANGED operator
    BY DEF PilotLeases
<1>4. ASSUME NEW o \in Operators,
             \/ RequestOfOperator(o) \/ ListSlices(o)
             \/ CancelQueuedSlices(o) \/ WriteStatus(o) \/ RequestDies(o)
      PROVE  OfferOK(o)' /\ \A p \in Operators \ {o} : operator'[p] = operator[p]
    <2>1. operator \in [Operators -> OperatorType]
        BY DEF OperatorsOK
    <2>2. CASE Answers(o)
        BY <2>1, <2>2 DEF Answers, NoRequest, OfferOK
    <2>3. CASE RequestOfOperator(o) \/ CancelQueuedSlices(o)
        <3>1. /\ operator'[o].pc \in {"pauseList", "cancelQueued", "resumeWrite", "cancelList"}
              /\ \A p \in Operators \ {o} : operator'[p] = operator[p]
            BY <2>1, <2>3 DEF RequestOfOperator, CancelQueuedSlices, Asks, OperatorType
        <3> QED BY <3>1 DEF OfferOK
    <2>4. CASE ListSlices(o)
        <3>1. Completed' = Completed
            BY <2>4 DEF ListSlices, rows, Completed, WithStatus
        <3>2. \A p \in Operators \ {o} : operator'[p] = operator[p]
            BY <2>1, <2>4 DEF ListSlices
        <3>3. \/ operator'[o].pc = "pauseWrite" /\ operator'[o].next \in {"pause_requested", "paused"}
              \/ /\ operator'[o].pc = "cancelWrite"
                 /\ operator'[o].next = IF Completed # {} THEN "partial_cancelled" ELSE "cancelled"
            BY <2>1, <2>4 DEF ListSlices, OperatorType
        <3> QED BY <3>1, <3>2, <3>3 DEF OfferOK, Paused, Cancelled
    <2> QED BY <1>4, <2>2, <2>3, <2>4 DEF WriteStatus, RequestDies
<1> QED BY <1>1, <1>2, <1>3, <1>4 DEF PilotNext, PledgeOffers, OfferOK

-----------------------------------------------------------------------------
(* What a step does to the verdict.                                          *)
VerdictStays == PromisedVerdict' = PromisedVerdict
Closes == /\ PromisedVerdict = "open" /\ AllSettled /\ UNCHANGED chunk
          /\ PromisedVerdict' = PilotOutcome
Cancels == /\ PromisedVerdict = "open" /\ UNCHANGED chunk
           /\ \E v \in Cancelled : /\ v = "partial_cancelled" => Completed # {}
                                   /\ PromisedVerdict' = v
VerdictMoves == VerdictStays \/ Closes \/ Cancels

LEMMA FinishCloses ==
    ASSUME PledgeInv, NEW r \in Runs, FinishPilot(r)
    PROVE  job'.status # "none" /\ VerdictMoves
<1>1. CASE UNCHANGED job
    BY <1>1 DEF PledgeInv, VerdictMoves, VerdictStays, PromisedVerdict
<1>2. CASE CompleteImportJob(r, PilotOutcome, {})
    <2>1. PilotOutcome \in JobTerminal /\ PilotJobOK /\ AllSettled
        BY DEF PilotOutcome, JobTerminal, PledgeInv, PilotInv, FinishOK, FinishPilot
    <2>2. job.status = "running" /\ job' = Relinquished(PilotOutcome)
        BY <1>2 DEF CompleteImportJob, OwnsJob
    <2>3. job'.status = PilotOutcome
        BY <2>1, <2>2, RelinquishedRow DEF JobStatus
    <2>4. PromisedVerdict = "open" /\ PromisedVerdict' = PilotOutcome /\ PilotOutcome # "none"
        BY <2>1, <2>2, <2>3 DEF PromisedVerdict, PilotTerminal, JobTerminal, Cancelled
    <2> QED BY <2>1, <2>3, <2>4 DEF VerdictMoves, Closes, FinishPilot
<1> QED BY <1>1, <1>2 DEF FinishPilot

LEMMA WriteCancels ==
    ASSUME PledgeInv, NEW o \in Operators, WriteStatus(o)
    PROVE  job'.status # "none" /\ VerdictMoves
<1>1. CASE UNCHANGED job
    BY <1>1 DEF PledgeInv, VerdictMoves, VerdictStays, PromisedVerdict
<1>2. ASSUME job.status \notin PilotTerminal,
             NEW status \in {"queued"} \cup Paused \cup Cancelled,
             status = "partial_cancelled" => Completed # {},
             job' = [job EXCEPT !.status = status]
      PROVE  job'.status # "none" /\ VerdictMoves
    <2>1. job \in JobKind /\ status \in JobStatus \cup Paused \cup Cancelled \cup {"none"}
        BY <1>2 DEF PledgeInv, PilotInv, PilotJobOK, JobStatus
    <2>2. job'.status = status
        BY <1>2, <2>1, JobColumns
    <2>3. PromisedVerdict = "open"
        BY <1>2 DEF PromisedVerdict
    <2>4. CASE status \in Cancelled
        <3>1. PromisedVerdict' = status
            BY <2>2, <2>4 DEF PromisedVerdict, PilotTerminal
        <3>2. Cancels
            BY <1>2, <2>3, <2>4, <3>1 DEF Cancels, WriteStatus
        <3> QED BY <2>2, <2>4, <3>2 DEF VerdictMoves, Cancelled
    <2>5. CASE status \notin Cancelled
        <3>1. PromisedVerdict' = "open"
            BY <1>2, <2>2, <2>5 DEF PromisedVerdict, PilotTerminal, JobTerminal, Cancelled, Paused
        <3> QED BY <1>2, <2>2, <2>3, <3>1 DEF VerdictMoves, VerdictStays, Paused, Cancelled
    <2> QED BY <2>4, <2>5
<1>3. CASE /\ Unmoved(o)
           /\ job' = [job EXCEPT !.status =
                          IF operator[o].pc = "resumeWrite" THEN "queued" ELSE operator[o].next]
    <2> DEFINE status == IF operator[o].pc = "resumeWrite" THEN "queued" ELSE operator[o].next
    <2>1. job.status \notin PilotTerminal
        BY <1>3 DEF PledgeInv, PilotInv, OperatorsOK, Unmoved, WriteStatus
    <2>2. /\ status \in {"queued"} \cup Paused \cup Cancelled
          /\ status = "partial_cancelled" => Completed # {}
        BY DEF PledgeInv, PledgeOffers, OfferOK, WriteStatus, Paused, Cancelled
    <2>3. job' = [job EXCEPT !.status = status]
        BY <1>3
    <2> HIDE DEF status
    <2> QED BY <1>2, <2>1, <2>2, <2>3
<1> QED BY <1>1, <1>3 DEF WriteStatus

LEMMA VerdictActions ==
    ASSUME PledgeInv, PilotNext
    PROVE  job'.status # "none" /\ VerdictMoves
<1>0. job \in JobKind /\ PilotJobOK /\ job.status # "none"
    BY DEF PledgeInv, PilotInv, PilotJobOK
<1>1. ASSUME UNCHANGED job PROVE job'.status # "none" /\ VerdictMoves
    BY <1>0, <1>1 DEF VerdictMoves, VerdictStays, PromisedVerdict
<1>2. ASSUME job.status \notin PilotTerminal, job'.status \in {"queued", "running", "paused"}
      PROVE  job'.status # "none" /\ VerdictMoves
    <2>1. PromisedVerdict = "open" /\ PromisedVerdict' = "open"
        BY <1>2 DEF PromisedVerdict, PilotTerminal, JobTerminal, Cancelled
    <2> QED BY <1>2, <2>1 DEF VerdictMoves, VerdictStays
<1>3. ASSUME job'.status = job.status PROVE job'.status # "none" /\ VerdictMoves
    BY <1>0, <1>3 DEF VerdictMoves, VerdictStays, PromisedVerdict
<1> USE DEF PilotTerminal, JobTerminal, Cancelled
<1>4. ASSUME NEW r \in Runs, ClaimParent(r) PROVE job'.status # "none" /\ VerdictMoves
    <2>1. job'.status = "running"
        BY <1>0, <1>4, LeaseWritten DEF ClaimParent, ClaimImportJob, JobStatus
    <2> QED BY <1>2, <1>4, <2>1 DEF ClaimParent, ClaimImportJob, JobClaimable
<1>5. ASSUME NEW r \in Runs, SettlePause(r) PROVE job'.status # "none" /\ VerdictMoves
    <2>1. CASE job.status = "pause_requested" /\ job' = [job EXCEPT !.status = "paused"]
        <3>1. job'.status = "paused"
            BY <1>0, <2>1, JobColumns DEF Paused
        <3> QED BY <1>2, <2>1, <3>1
    <2> QED BY <1>1, <1>5, <2>1 DEF SettlePause
<1>6. ASSUME NEW r \in Runs, SettleParentLease(r) PROVE job'.status # "none" /\ VerdictMoves
    <2>1. CASE GiveBack(r) /\ job' = Relinquished("queued")
        <3>1. job'.status = "queued"
            BY <1>0, <2>1, RelinquishedRow DEF JobStatus
        <3> QED BY <1>2, <2>1, <3>1 DEF GiveBack
    <2> QED BY <1>1, <1>6, <2>1 DEF SettleParentLease
<1>7. ASSUME NEW r \in Runs, DropParentLease(r) PROVE job'.status # "none" /\ VerdictMoves
    <2>1. CASE job' = Relinquished(job.status)
        <3>1. job'.status = job.status
            BY <1>0, <2>1, RelinquishedRow DEF JobKind
        <3> QED BY <1>3, <3>1
    <2> QED BY <1>1, <1>7, <2>1 DEF DropParentLease
<1>8. ASSUME PilotLeases PROVE job'.status # "none" /\ VerdictMoves
    <2>1. CASE RecoverExpiredJob
        <3>1. job.status = "running" /\ job'.status = "queued"
            BY <1>0, <2>1, RelinquishedRow DEF RecoverExpiredJob, JobStatus
        <3> QED BY <1>2, <3>1
    <2>2. CASE ExpireJobLease
        <3>1. job'.status = job.status
            BY <1>0, <2>2, JobColumns DEF ExpireJobLease
        <3> QED BY <1>3, <3>1
    <2> QED BY <1>1, <1>8, <2>1, <2>2 DEF PilotLeases
<1>9. ASSUME NEW r \in Runs,
             \/ SweepPilot(r) \/ LoopTop(r) \/ TakeSlice(r) \/ Verify(r) \/ Contact(r)
             \/ ReportSlice(r) \/ SettleSlice(r) \/ Drain(r) \/ WrapUp(r)
             \/ PilotStatementFails(r) \/ PilotCrash(r)
      PROVE  UNCHANGED job
    BY <1>9 DEF SweepPilot, LoopTop, TakeSlice, Verify, Contact, ReportSlice, UpdateImportJobProgress,
       SettleSlice, Drain, WrapUp, PilotStatementFails, PilotCrash, rows
<1>10. ASSUME NEW o \in Operators,
             RequestOfOperator(o) \/ ListSlices(o) \/ CancelQueuedSlices(o) \/ RequestDies(o)
      PROVE  UNCHANGED job
    BY <1>10 DEF RequestOfOperator, ListSlices, CancelQueuedSlices, RequestDies, rows
<1> QED BY <1>1, <1>4, <1>5, <1>6, <1>7, <1>8, <1>9, <1>10, FinishCloses, WriteCancels DEF PilotNext

LEMMA PledgeInit == PilotInit => PledgeInv
<1> SUFFICES ASSUME PilotInit PROVE PledgeInv
    OBVIOUS
<1>1. job.status # "none"
    BY DEF PilotInit, JobInit
<1>2. PledgeRows
    BY DEF PilotInit, ChunkInit, PledgeRows, SliceRowOK
<1>3. PledgeOffers
    BY DEF PilotInit, NoRequest, PledgeOffers, OfferOK
<1>4. PledgeSlices
    BY DEF PilotInit, Fresh, PledgeSlices, HasSlice, ExecSlice
<1> QED BY <1>1, <1>2, <1>3, <1>4, PilotInvInit DEF PledgeInv

LEMMA PledgeStep == PledgeInv /\ PilotNext => PledgeInv' /\ SlicesMove /\ VerdictMoves
<1> SUFFICES ASSUME PledgeInv, PilotNext PROVE PledgeInv' /\ SlicesMove /\ VerdictMoves
    OBVIOUS
<1>1. /\ SlicesOK /\ ExecsOK /\ OperatorsOK /\ PilotInv
      /\ PledgeRows /\ PledgeOffers /\ PledgeSlices
    BY DEF PledgeInv, PilotInv
<1>2. PilotInv'
    BY <1>1, PilotStep
<1>3. SlicesMove
    BY <1>1, SliceActions
<1>4. PledgeRows' /\ PledgeOffers' /\ PledgeSlices'
    BY <1>1, <1>3, MoveKeepsRows, OffersStand, ExecutionsHaveSlices
<1>5. job'.status # "none" /\ VerdictMoves
    BY VerdictActions
<1> QED BY <1>2, <1>3, <1>4, <1>5 DEF PledgeInv

LEMMA PledgeAlways == PilotSpec => []PledgeInv
<1>1. PledgeInv /\ UNCHANGED pilotVars => PledgeInv'
    BY DEF pilotVars, PledgeInv, PledgeRows, SliceRowOK, PledgeOffers, OfferOK, PledgeSlices, HasSlice,
       Completed, WithStatus, PilotInv, PilotJobOK, SlicesOK, ExecsOK, OperatorsOK, LateOK,
       NoContactAfterStop, FinishOK, ExecAt, AllSettled, EndOK, Holds, VerdictCoversAllSlices
<1> QED BY <1>1, PledgeInit, PledgeStep, PTL DEF PilotSpec

(* The rows and locals of a pilot keep their kinds, and no slice is admitted *)
(* more often than allowed.                                                  *)
THEOREM PilotTyped == PilotSpec => []PilotTypeOK
<1>1. PledgeInv => PilotTypeOK
    <2> SUFFICES ASSUME PledgeInv PROVE PilotTypeOK
        OBVIOUS
    <2>0. /\ PilotJobOK /\ SlicesOK /\ ExecsOK /\ OperatorsOK /\ LateOK
          /\ PledgeRows /\ PledgeSlices /\ job.status # "none"
        BY DEF PledgeInv, PilotInv
    <2>1. job \in [status : JobStatus \cup Paused \cup Cancelled,
                   leaseId : Runs \cup {NoRun}, live : BOOLEAN, retryCount : {0}]
        BY <2>0 DEF PilotJobOK, JobKind
    <2>2. chunk \in [Chunks -> [status : ChunkStatus \cup {"cancelled"},
                                leaseId : Runs \cup {NoRun}, live : BOOLEAN,
                                fencingToken : Nat, attempts : 0 .. MaxAttempts,
                                lastError : BOOLEAN]]
        <3>1. ASSUME NEW c \in Chunks
              PROVE  chunk[c] \in [status : ChunkStatus \cup {"cancelled"},
                                   leaseId : Runs \cup {NoRun}, live : BOOLEAN,
                                   fencingToken : Nat, attempts : 0 .. MaxAttempts,
                                   lastError : BOOLEAN]
            <4>1. chunk[c] \in SliceKind /\ chunk[c].attempts \in 0 .. MaxAttempts
                BY <2>0 DEF SlicesOK, SliceKind, PledgeRows, SliceRowOK
            <4> QED BY <4>1 DEF SliceKind
        <3> QED BY <2>0, <3>1 DEF SlicesOK
    <2>3. /\ \A r \in Runs : exec[r].pc \in ExecSlice \cup {"verify"} => exec[r].cur \in Chunks
          /\ exec \in [Runs -> ExecType] /\ operator \in [Operators -> OperatorType]
          /\ late \subseteq Runs
        BY <2>0 DEF PledgeSlices, HasSlice, ExecsOK, OperatorsOK, LateOK
    <2> QED BY <2>1, <2>2, <2>3 DEF PilotTypeOK
<1> QED BY <1>1, PledgeAlways, PTL

-----------------------------------------------------------------------------
(* The steps of the promise.                                                 *)
LEMMA PhaseOf ==
    /\ PromisedPhase("queued") = "open" /\ PromisedPhase("running") = "open"
    /\ PromisedPhase("completed") = "done" /\ PromisedPhase("failed") = "dead"
    /\ PromisedPhase("cancelled") = "dropped"
BY DEF PromisedPhase

LEMMA ViewOf ==
    ASSUME NEW c \in Chunks
    PROVE  /\ PromisedSlice[c] = Promise!Row(PromisedPhase(chunk[c].status), chunk[c].leaseId,
                                             chunk[c].attempts)
           /\ PromisedSlice'[c] = Promise!Row(PromisedPhase(chunk'[c].status), chunk'[c].leaseId,
                                              chunk'[c].attempts)
           /\ PromisedSlice[c].phase = PromisedPhase(chunk[c].status)
           /\ PromisedSlice[c].owner = chunk[c].leaseId
           /\ PromisedSlice[c].admissions = chunk[c].attempts
BY DEF PromisedSlice, Promise!Row, PromisedPhase

LEMMA SameView ==
    ASSUME NEW c \in Chunks, Same(c)
    PROVE  PromisedSlice'[c] = PromisedSlice[c]
BY ViewOf DEF Same

LEMMA FreedView ==
    ASSUME NEW c \in Chunks, NEW status, Freed(c, status)
    PROVE  PromisedSlice'[c] = Promise!Unowned(c, PromisedPhase(status))
BY ViewOf DEF Freed, Promise!Unowned

(* One slice written, or a set of them.                                      *)
LEMMA ViewWritten ==
    ASSUME NEW c \in Chunks, NEW row, PromisedSlice'[c] = row, RestSame({c})
    PROVE  PromisedSlice' = [PromisedSlice EXCEPT ![c] = row]
<1>1. \A d \in Chunks \ {c} : PromisedSlice'[d] = PromisedSlice[d]
    BY SameView DEF RestSame
<1>2. /\ PromisedSlice = [d \in Chunks |-> PromisedSlice[d]]
      /\ PromisedSlice' = [d \in Chunks |-> PromisedSlice'[d]]
    BY DEF PromisedSlice
<1> QED BY <1>1, <1>2

LEMMA ViewsWritten ==
    ASSUME NEW S \in SUBSET Chunks, NEW status, \A c \in S : Freed(c, status), RestSame(S)
    PROVE  Promise!AllUnowned(S, PromisedPhase(status))
<1>1. \A c \in Chunks \ S : PromisedSlice'[c] = PromisedSlice[c]
    BY SameView DEF RestSame
<1>2. \A c \in S : PromisedSlice'[c] = Promise!Unowned(c, PromisedPhase(status))
    BY FreedView
<1>3. PromisedSlice' = [c \in Chunks |-> PromisedSlice'[c]]
    BY DEF PromisedSlice
<1> QED BY <1>1, <1>2, <1>3 DEF Promise!AllUnowned

LEMMA SliceStepsPromised ==
    ASSUME SlicesOK, PledgeRows, SlicesMove, VerdictStays
    PROVE  [Promise!Next]_<<PromisedSlice, PromisedVerdict>>
<1>0. UNCHANGED PromisedVerdict
    BY DEF VerdictStays
<1>1. ASSUME NEW c \in Chunks, IsPending(c) PROVE Promise!IsOpen(c)
    BY <1>1, ViewOf, PhaseOf DEF IsPending, Promise!IsOpen, Promise!InPhase
<1>2. CASE Admits
    <2>1. PICK c \in Chunks, r \in Runs :
            IsPending(c) /\ chunk[c].attempts < MaxAttempts /\ Given(c, r) /\ RestSame({c})
        BY <1>2 DEF Admits
    <2>2. PromisedSlice'[c] = Promise!Row("open", r, PromisedSlice[c].admissions + 1)
        BY <2>1, ViewOf, PhaseOf DEF Given
    <2>3. PromisedSlice[c].admissions < MaxAttempts
        BY <2>1, ViewOf
    <2>4. PromisedSlice' = [PromisedSlice EXCEPT ![c] =
                                Promise!Row("open", r, PromisedSlice[c].admissions + 1)]
        BY <2>1, <2>2, ViewWritten
    <2>5. Promise!Admit(c, r)
        BY <1>0, <1>1, <2>1, <2>3, <2>4 DEF Promise!Admit
    <2> QED BY <2>5 DEF Promise!Next
<1>3. CASE Leaves
    <2>1. PICK c \in Chunks, status \in {"completed", "queued"} :
            chunk[c].status = "running" /\ Freed(c, status) /\ RestSame({c})
        BY <1>3 DEF Leaves
    <2>2. chunk[c].leaseId # NoRun
        BY <2>1 DEF PledgeRows, SliceRowOK
    <2>3. Promise!Owned(c)
        BY <1>1, <2>1, <2>2, ViewOf DEF IsPending, Promise!Owned
    <2>4. PromisedSlice' = [PromisedSlice EXCEPT ![c] = Promise!Unowned(c, PromisedPhase(status))]
        BY <2>1, FreedView, ViewWritten
    <2>5. PromisedPhase(status) \in {"done", "open"}
        BY <2>1, PhaseOf
    <2>6. Promise!Leave(c)
        BY <1>0, <2>3, <2>4, <2>5 DEF Promise!Leave
    <2> QED BY <2>6 DEF Promise!Next
<1>4. CASE GivesUp
    <2>1. PICK S \in SUBSET Chunks :
            /\ \A c \in S : IsPending(c) /\ chunk[c].attempts = MaxAttempts /\ Freed(c, "failed")
            /\ RestSame(S)
        BY <1>4 DEF GivesUp
    <2>2. Promise!AllUnowned(S, "dead")
        BY <2>1, ViewsWritten, PhaseOf
    <2>3. \A c \in S : Promise!IsOpen(c) /\ PromisedSlice[c].admissions = MaxAttempts
        BY <1>1, <2>1, ViewOf
    <2>4. Promise!GiveUp(S)
        BY <1>0, <2>2, <2>3 DEF Promise!GiveUp
    <2> QED BY <2>4 DEF Promise!Next
<1>5. CASE Drops
    <2>1. PICK S \in SUBSET Chunks :
            (\A c \in S : chunk[c].status = "queued" /\ Freed(c, "cancelled")) /\ RestSame(S)
        BY <1>5 DEF Drops
    <2>2. Promise!AllUnowned(S, "dropped")
        BY <2>1, ViewsWritten, PhaseOf
    <2>3. \A c \in S : Promise!IsOpen(c) /\ ~Promise!Owned(c)
        BY <1>1, <2>1, ViewOf DEF IsPending, PledgeRows, SliceRowOK, Promise!Owned
    <2>4. Promise!Drop(S)
        BY <1>0, <2>2, <2>3 DEF Promise!Drop
    <2> QED BY <2>4 DEF Promise!Next
<1>6. CASE RestSame({})
    <2>1. \A c \in Chunks : PromisedSlice'[c] = PromisedSlice[c]
        BY <1>6, SameView DEF RestSame
    <2>2. PromisedSlice' = PromisedSlice
        BY <2>1 DEF PromisedSlice
    <2> QED BY <1>0, <2>2
<1> QED BY <1>2, <1>3, <1>4, <1>5, <1>6 DEF SlicesMove

LEMMA VerdictStepsPromised ==
    ASSUME SlicesOK, Closes \/ Cancels
    PROVE  Promise!Next
<1>1. UNCHANGED PromisedSlice
    BY DEF Closes, Cancels, PromisedSlice, PromisedPhase
<1>2. Promise!Done = Completed
    <2>1. \A c \in Chunks : PromisedPhase(chunk[c].status) = "done" <=> chunk[c].status = "completed"
        BY PhaseOf DEF SlicesOK, SliceKind, ChunkStatus
    <2> QED BY <2>1, ViewOf, ZenonT(30) DEF Promise!Done, Promise!InPhase, Completed, WithStatus
<1>3. CASE Closes
    <2>1. Promise!InPhase("open") \cup Promise!InPhase("dropped") = {}
        BY <1>3, ViewOf, PhaseOf DEF Closes, AllSettled, Promise!InPhase
    <2>2. Promise!Outcome = PilotOutcome
        BY <1>2 DEF Promise!Outcome, PilotOutcome
    <2>3. Promise!Close
        BY <1>1, <1>3, <2>1, <2>2 DEF Closes, Promise!Close
    <2> QED BY <2>3 DEF Promise!Next
<1>4. CASE Cancels
    <2>1. PICK v \in {"cancelled", "partial_cancelled"} :
            /\ v = "partial_cancelled" => Completed # {}
            /\ PromisedVerdict' = v
        BY <1>4 DEF Cancels, Cancelled
    <2>2. Promise!Cancel(v)
        BY <1>1, <1>2, <1>4, <2>1 DEF Cancels, Promise!Cancel
    <2> QED BY <2>2 DEF Promise!Next
<1> QED BY <1>3, <1>4

(* The lifecycle implements the promise: every step of an execution, of a    *)
(* lease or of the operator is a step of PilotLedger, or changes nothing     *)
(* that it speaks of.                                                        *)
THEOREM PilotKeepsPromise == PilotSpec => ImplementsPilotLedger
<1>1. PilotInit => Promise!Init
    <2> SUFFICES ASSUME PilotInit PROVE Promise!Init
        OBVIOUS
    <2>1. \A c \in Chunks : PromisedSlice[c] = Promise!Row("open", NoRun, 0)
        BY ViewOf, PhaseOf DEF PilotInit, ChunkInit
    <2>2. PromisedSlice = [c \in Chunks |-> Promise!Row("open", NoRun, 0)]
        BY <2>1 DEF PromisedSlice
    <2>3. PromisedVerdict = "open"
        BY DEF PilotInit, JobInit, PromisedVerdict, PilotTerminal, JobTerminal, Cancelled
    <2> QED BY <2>2, <2>3 DEF Promise!Init
<1>2. PledgeInv /\ [PilotNext]_pilotVars => [Promise!Next]_<<PromisedSlice, PromisedVerdict>>
    <2>1. ASSUME PledgeInv, PilotNext
          PROVE  [Promise!Next]_<<PromisedSlice, PromisedVerdict>>
        <3>1. SlicesOK /\ PledgeRows /\ SlicesMove /\ VerdictMoves
            BY <2>1, PledgeStep DEF PledgeInv, PilotInv
        <3> QED BY <3>1, SliceStepsPromised, VerdictStepsPromised DEF VerdictMoves
    <2>2. UNCHANGED pilotVars => UNCHANGED <<PromisedSlice, PromisedVerdict>>
        BY DEF pilotVars, PromisedSlice, PromisedPhase, PromisedVerdict
    <2> QED BY <2>1, <2>2
<1> QED BY <1>1, <1>2, PledgeAlways, PTL DEF PilotSpec, ImplementsPilotLedger, Promise!Spec
=============================================================================
