---------------------------- MODULE BackfillChunks ----------------------------
(***************************************************************************)
(* The relational slices of a checkpointed backfill                        *)
(* (WarehouseBackfillChunk) and the statements of                          *)
(* src/lib/warehouse-backfill-chunks.ts that change them.  As in           *)
(* ImportJob, a lease id is the run that drew it and `live` stands for     *)
(* leaseExpiresAt >= now.                                                  *)
(***************************************************************************)
EXTENDS ImportRows

CONSTANT MaxAttempts   \* CHECKPOINTED_CHUNK_MAX_ATTEMPTS

ASSUME MaxAttemptsAssumption == MaxAttempts \in Nat \ {0}

VARIABLE chunk   \* the row of every slice

ChunkStatus == {"queued", "running", "completed", "failed"}

ChunkType == [status : ChunkStatus, leaseId : Runs \cup {NoRun}, live : BOOLEAN,
              fencingToken : Nat, attempts : Nat, lastError : BOOLEAN]

(* materializeChunksForJobTx, in the transaction that creates the parent.  *)
ChunkInit ==
    chunk = [c \in Chunks |-> [status |-> "queued", leaseId |-> NoRun, live |-> FALSE,
                               fencingToken |-> 0, attempts |-> 0, lastError |-> FALSE]]

WithStatus(status) == {c \in Chunks : chunk[c].status = status}
Completed == WithStatus("completed")

Expired(c) == chunk[c].status = "running" /\ ~chunk[c].live
ExhaustedEarly(c) == chunk[c].attempts + 1 >= MaxAttempts
Exhausted(c) == chunk[c].attempts >= MaxAttempts

(* claimGuard                                                              *)
ClaimableUnlessHeld(c) == ~(chunk[c].status = "running" /\ chunk[c].live)
ClaimableWhileHeld(c) == chunk[c].status \in {"queued", "running"}
Claimable(c) == chunk[c].status = "queued" \/ Expired(c)

(* The candidate of claimNextBackfillChunk: lowest ordinal first.          *)
IsCandidate(c) == Claimable(c) /\ \A d \in Chunks : Claimable(d) => c <= d

(* fencingGuard: no expiry test, an expired but unclaimed owner passes.    *)
FencingGuardStatusOnly(c, r, token) == chunk[c].status = "running"
FencingGuard(c, r, token) == /\ chunk[c].status = "running"
                             /\ chunk[c].leaseId = r
                             /\ chunk[c].fencingToken = token

(* A row that no worker holds any more.                                    *)
Settled(row, status, err) == [row EXCEPT !.status = status, !.leaseId = NoRun,
                                         !.live = FALSE, !.lastError = err]

(* claimBackfillChunk: the guarded update, which tests no attempts; then   *)
(* what the re-read decides, whoever holds the row by then; then the       *)
(* update of a claim beyond the last attempt, fenced by its lease alone.   *)
(* Outside a transaction each of the three commits by itself.              *)
ClaimedRow(c, r) ==
    [status |-> "running", leaseId |-> r, live |-> TRUE,
     fencingToken |-> chunk[c].fencingToken + 1,
     attempts |-> chunk[c].attempts + 1, lastError |-> chunk[c].lastError]
ClaimBackfillChunk(c, r) ==
    /\ Claimable(c)
    /\ chunk' = [chunk EXCEPT ![c] = ClaimedRow(c, r)]

OverAttemptedUnchecked(c) == FALSE
OverAttempted(c) == chunk[c].attempts > MaxAttempts

FailOverAttempted(c, r) ==
    /\ chunk[c].leaseId = r
    /\ chunk' = [chunk EXCEPT ![c] = Settled(@, "failed", TRUE)]

(* completeBackfillChunk: `partial` is the presence of a partialError.     *)
CompleteBackfillChunk(c, r, token, partial) ==
    /\ FencingGuard(c, r, token)
    /\ chunk' = [chunk EXCEPT ![c] = Settled(@, "completed", partial)]

(* failBackfillChunk: back to the queue while attempts remain.             *)
FailBackfillChunk(c, r, token) ==
    /\ FencingGuard(c, r, token)
    /\ chunk' = [chunk EXCEPT ![c] = Settled(@, IF Exhausted(c) THEN "failed" ELSE "queued", TRUE)]

(* sweepExhaustedChunks and failExhaustedQueuedChunks.  Their row by row   *)
(* updates repeat the status guard and attempts never decrease, so the     *)
(* loop over the rows is one step.                                         *)
SweepExhaustedChunks ==
    chunk' = [c \in Chunks |-> IF Expired(c) /\ Exhausted(c)
                               THEN Settled(chunk[c], "failed", TRUE) ELSE chunk[c]]
FailExhaustedQueuedChunks ==
    chunk' = [c \in Chunks |-> IF chunk[c].status = "queued" /\ Exhausted(c)
                               THEN Settled(chunk[c], "failed", TRUE) ELSE chunk[c]]

(* Time passes: the holder has not renewed the slice for 60 s.             *)
ExpireChunkLease(c) ==
    /\ chunk[c].status = "running" /\ chunk[c].live
    /\ chunk' = [chunk EXCEPT ![c].live = FALSE]

(* aggregateChunkStates: the parent status that the slices imply.  (Slices *)
(* are cancelled only by the operator of an extended pilot.)               *)
PartialChunks == {c \in Completed : chunk[c].lastError}
AggregateStatus ==
    LET some(status) == WithStatus(status) # {}
    IN  IF Chunks = {} THEN "queued"
        ELSE IF some("running") \/ (some("completed") /\ some("queued")) THEN "running"
        ELSE IF Completed = Chunks /\ PartialChunks = {} THEN "completed"
        ELSE IF some("completed") /\ (some("failed") \/ PartialChunks # {}) THEN "partial"
        ELSE IF some("failed") /\ ~some("queued") THEN "failed"
        ELSE "queued"
=============================================================================
