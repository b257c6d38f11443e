------------------------------- MODULE MetaSync -------------------------------
(***************************************************************************)
(* Syncing one Meta Ads connection: every execution of syncConnectionData, *)
(* from the claim of the connection lease over the fenced ingestion of     *)
(* each ad account to the outcome it records on the connection.  Manual    *)
(* syncs, the refresh cron, imports and OAuth backfills all run it, so     *)
(* several workers may be at it, one of them long past its lease.          *)
(***************************************************************************)
EXTENDS SyncLocks

CONSTANTS Accounts,   \* the selected ad accounts
          Rows,       \* the metric rows of an account: (entity, date, breakdown)
          Conn        \* the scope of the connection itself

ASSUME ScopesAssumption == Scopes = Accounts \cup {Conn} /\ Conn \notin Accounts

VARIABLES
    worker,  \* the local state of each worker
    stamp,   \* CampaignMetric.fencingToken of each row: whose data it holds
    conn,    \* the Connection row: status and last recorded outcome
    owed     \* history: rows a worker fetched and has not written itself

vars == <<lock, worker, stamp, conn, owed>>

Outcomes == {"success", "partial", "failed"}
AccountPoints == {"fetch", "chunk", "bulk", "bulkWrite", "recheck", "rows", "fallback",
                  "release", "abandon"}
OutcomePoints == {"assert", "write"}
Active == AccountPoints \cup OutcomePoints \cup {"accounts", "revoke", "unlock"}

WorkerType ==
    [pc : Active \cup {"idle", "ended"},
     token : [Scopes -> Nat],             \* the fence each claim returned
     left : SUBSET Accounts,              \* accounts the loop has yet to visit
     acct : Scopes,                       \* the account being synced, else Conn
     todo : SUBSET Rows,                  \* fetched rows of later chunks
     batch : SUBSET Rows,                 \* rows of this chunk no lease test stands for
     asserted : SUBSET Rows,              \* rows whose lease test passed, not yet written
     bad : BOOLEAN,                       \* a row of this account could not be written
     revoked : BOOLEAN,                   \* the provider revoked the authorization
     ok : SUBSET Accounts,                \* children of the result that are ok
     failed : SUBSET Accounts,            \* children of the result that are not
     outcome : Outcomes \cup {"none", "thrown"}]   \* what is to be recorded

TypeOK ==
    /\ lock \in [Scopes -> LockType]
    /\ worker \in [Workers -> WorkerType]
    /\ \A w \in Workers : worker[w].pc \in AccountPoints => worker[w].acct \in Accounts
    /\ stamp \in [Accounts -> [Rows -> Nat]]
    /\ conn \in [status : {"connected", "disconnected"}, outcome : Outcomes \cup {"none"},
                 writer : Workers \cup {NoWorker}]
    /\ owed \in [Workers -> SUBSET (Accounts \X Rows)]

Idle == [pc |-> "idle", token |-> [s \in Scopes |-> 0], left |-> {}, acct |-> Conn, todo |-> {},
         batch |-> {}, asserted |-> {}, bad |-> FALSE, revoked |-> FALSE, ok |-> {},
         failed |-> {}, outcome |-> "none"]

Init ==
    /\ LockInit
    /\ worker = [w \in Workers |-> Idle]
    /\ stamp = [a \in Accounts |-> [r \in Rows |-> 0]]
    /\ conn = [status |-> "connected", outcome |-> "none", writer |-> NoWorker]
    /\ owed = [w \in Workers |-> {}]

At(w, point) == worker[w].pc = point
Become(w, state) == worker' = [worker EXCEPT ![w] = state]
Goto(w, point) == Become(w, [worker[w] EXCEPT !.pc = point])
Record(w, outcome) ==
    Become(w, [Idle EXCEPT !.pc = "assert", !.token = worker[w].token, !.outcome = outcome])
End(w) == Become(w, [Idle EXCEPT !.pc = "ended", !.token = worker[w].token])

(* Back to the head of the account loop with the locals of the body gone.  *)
NextTurn(w, failed) ==
    Become(w, [worker[w] EXCEPT !.pc = IF worker[w].revoked THEN "revoke" ELSE "accounts",
                                !.acct = Conn, !.todo = {}, !.batch = {}, !.asserted = {},
                                !.bad = FALSE, !.failed = @ \cup failed])

-----------------------------------------------------------------------------
(* syncConnectionData: a refusal is not an outcome of the connection.  A   *)
(* busy advisory lock refuses too.                                         *)
AcquireConnection(w) ==
    /\ At(w, "idle")
    /\ \/ /\ ClaimLock(Conn, w)
          /\ Become(w, [worker[w] EXCEPT !.pc = "accounts", !.left = Accounts,
                                         !.token = [@ EXCEPT ![Conn] = lock[Conn].fence + 1]])
       \/ End(w) /\ UNCHANGED lock
    /\ UNCHANGED <<stamp, conn, owed>>

(* One turn of the account loop: skip an account in bad health, claim its  *)
(* lock, or note the refusal.                                              *)
NextAccount(w) ==
    /\ At(w, "accounts")
    /\ \E a \in worker[w].left :
          LET rest == [worker[w] EXCEPT !.left = @ \ {a}]
          IN  \/ Become(w, [rest EXCEPT !.ok = @ \cup {a}]) /\ UNCHANGED lock
              \/ Become(w, [rest EXCEPT !.failed = @ \cup {a}]) /\ UNCHANGED lock
              \/ /\ ClaimLock(a, w)
                 /\ Become(w, [rest EXCEPT !.pc = "fetch", !.acct = a,
                                           !.token = [@ EXCEPT ![a] = lock[a].fence + 1]])
    /\ UNCHANGED <<stamp, conn, owed>>

(* summarizeSyncOutcome over the children, at the end of the loop.         *)
SummarizeAnyOk(w) ==
    /\ At(w, "accounts") /\ worker[w].left = {}
    /\ Record(w, IF worker[w].ok # {} THEN "success" ELSE "failed")
    /\ UNCHANGED <<lock, stamp, conn, owed>>
Summarize(w) ==
    /\ At(w, "accounts") /\ worker[w].left = {}
    /\ Record(w, IF worker[w].failed = {} THEN "success"
                 ELSE IF worker[w].ok # {} THEN "partial" ELSE "failed")
    /\ UNCHANGED <<lock, stamp, conn, owed>>

(* getInsights: rows, none, a failure or a revoked authorization.          *)
Fetch(w) ==
    /\ At(w, "fetch")
    /\ \/ \E rows \in SUBSET Rows :
             /\ Become(w, [worker[w] EXCEPT !.pc = "chunk", !.todo = rows])
             /\ owed' = [owed EXCEPT ![w] = @ \cup ({worker[w].acct} \X rows)]
       \/ /\ \E revoked \in BOOLEAN :
                Become(w, [worker[w] EXCEPT !.pc = "abandon", !.revoked = revoked])
          /\ UNCHANGED owed
    /\ UNCHANGED <<lock, stamp, conn>>

-----------------------------------------------------------------------------
(* ingestMetaRows, chunk by chunk.  The heartbeat comes first; rows that   *)
(* cannot be parsed are counted as failed; WAREHOUSE_BULK_UPSERT selects   *)
(* the path.                                                               *)
StartChunk(w) ==
    /\ At(w, "chunk") /\ worker[w].todo # {}
    /\ \/ /\ HeartbeatLock(worker[w].acct, w)
          /\ \E rows \in SUBSET worker[w].todo \ {{}}, path \in {"rows", "bulk"} :
                \E valid \in SUBSET rows :
                    Become(w, [worker[w] EXCEPT !.pc = path, !.todo = @ \ rows,
                                  !.batch = valid, !.bad = @ \/ valid # rows])
       \/ ~Holds(worker[w].acct, w) /\ Goto(w, "abandon") /\ UNCHANGED lock
    /\ UNCHANGED <<stamp, conn, owed>>

Written(w, rows) ==
    LET a == worker[w].acct
    IN  /\ stamp' = [stamp EXCEPT ![a] = [r \in Rows |-> IF r \in rows THEN worker[w].token[a]
                                                         ELSE @[r]]]
        /\ owed' = [owed EXCEPT ![w] = @ \ ({a} \X rows)]

(* buildMetaBulkUpsert.  The lease_ok clause reads the lock row in the     *)
(* snapshot of the statement and locks nothing: the rows are written when  *)
(* the statement has got their row locks, whoever owns the lease by then.  *)
(* Without a lease nothing is written and the row count sends the worker   *)
(* to a second look; an error of the statement falls back to the rows.     *)
LeaseOk(w) == Owns(worker[w].acct, w, worker[w].token[worker[w].acct])
BeginBulk(w) ==
    /\ At(w, "bulk")
    /\ \/ worker[w].batch = {} /\ Goto(w, "chunk")
       \/ LeaseOk(w) /\ Become(w, [worker[w] EXCEPT !.pc = "bulkWrite", !.batch = {},
                                                    !.asserted = worker[w].batch])
       \/ ~LeaseOk(w) /\ worker[w].batch # {} /\ Goto(w, "recheck")
    /\ UNCHANGED <<lock, stamp, conn, owed>>

WriteBulk(w) ==
    /\ At(w, "bulkWrite")
    /\ \/ /\ Written(w, worker[w].asserted)
          /\ Become(w, [worker[w] EXCEPT !.pc = "chunk", !.asserted = {}])
       \/ /\ Become(w, [worker[w] EXCEPT !.pc = "fallback", !.batch = worker[w].asserted,
                                         !.asserted = {}])
          /\ UNCHANGED <<stamp, owed>>
    /\ UNCHANGED <<lock, conn>>

RecheckTrustsTheCount(w) ==
    /\ At(w, "recheck")
    /\ Become(w, [worker[w] EXCEPT !.pc = "chunk", !.batch = {}])
    /\ UNCHANGED <<lock, stamp, conn, owed>>
Recheck(w) ==
    /\ At(w, "recheck")
    /\ Goto(w, IF LeaseOk(w) THEN "fallback" ELSE "abandon")
    /\ UNCHANGED <<lock, stamp, conn, owed>>

(* upsertMetaMetric: the assertion and the upsert are two statements.  The *)
(* rows of a chunk are written concurrently, those of a fallback in turn.  *)
AssertRow(w) ==
    /\ \/ At(w, "rows")
       \/ At(w, "fallback") /\ worker[w].asserted = {}
    /\ \E r \in worker[w].batch :
          Become(w, [worker[w] EXCEPT !.batch = @ \ {r},
                        !.asserted = IF LeaseOk(w) THEN @ \cup {r} ELSE @,
                        !.bad = @ \/ ~LeaseOk(w)])
    /\ UNCHANGED <<lock, stamp, conn, owed>>

UpsertRow(w) ==
    /\ At(w, "rows") \/ At(w, "fallback")
    /\ \E r \in worker[w].asserted :
          \/ /\ Become(w, [worker[w] EXCEPT !.asserted = @ \ {r}])
             /\ Written(w, {r})
          \/ /\ Become(w, [worker[w] EXCEPT !.asserted = @ \ {r}, !.bad = TRUE])
             /\ UNCHANGED <<stamp, owed>>
    /\ UNCHANGED <<lock, conn>>

EndChunk(w) ==
    /\ worker[w].pc \in {"rows", "fallback"}
    /\ worker[w].batch = {} /\ worker[w].asserted = {}
    /\ Goto(w, "chunk")
    /\ UNCHANGED <<lock, stamp, conn, owed>>

(* The account is done: its child is ok when no row failed.                *)
EndAccount(w) ==
    /\ At(w, "chunk") /\ worker[w].todo = {}
    /\ Become(w, [worker[w] EXCEPT !.pc = "release",
                     !.ok = IF worker[w].bad THEN @ ELSE @ \cup {worker[w].acct},
                     !.failed = IF worker[w].bad THEN @ \cup {worker[w].acct} ELSE @])
    /\ UNCHANGED <<lock, stamp, conn, owed>>

ReleaseAccount(w) ==
    /\ At(w, "release")
    /\ ReleaseLock(worker[w].acct, w)
    /\ NextTurn(w, {})
    /\ UNCHANGED <<stamp, conn, owed>>

(* The catch block of the account loop.                                    *)
Abandon(w) ==
    /\ At(w, "abandon")
    /\ ReleaseLock(worker[w].acct, w)
    /\ NextTurn(w, {worker[w].acct})
    /\ UNCHANGED <<stamp, conn, owed>>

(* handleMetaRevocation, by connection id alone; then the loop is left.    *)
Revoke(w) ==
    /\ At(w, "revoke")
    /\ conn' = [conn EXCEPT !.status = "disconnected"]
    /\ Become(w, [worker[w] EXCEPT !.pc = "accounts", !.left = {}, !.revoked = FALSE])
    /\ UNCHANGED <<lock, stamp, owed>>

-----------------------------------------------------------------------------
(* persistConnectionSyncOutcome: assert the connection lease, then update  *)
(* the connection unless it was disconnected.                              *)
AssertOutcome(w) ==
    /\ At(w, "assert")
    /\ Goto(w, IF Owns(Conn, w, worker[w].token[Conn]) THEN "write" ELSE "unlock")
    /\ UNCHANGED <<lock, stamp, conn, owed>>

Recorded(w) == IF worker[w].outcome = "thrown" THEN "failed" ELSE worker[w].outcome
PersistOutcomeAsThrown(w) ==
    /\ At(w, "write")
    /\ conn' = IF conn.status = "disconnected" THEN conn
               ELSE [conn EXCEPT !.outcome = worker[w].outcome, !.writer = w]
    /\ Goto(w, "unlock")
    /\ UNCHANGED <<lock, stamp, owed>>
PersistOutcomeById(w) ==
    /\ At(w, "write")
    /\ conn' = [status |-> IF Recorded(w) = "success" THEN "connected" ELSE conn.status,
                outcome |-> Recorded(w), writer |-> w]
    /\ Goto(w, "unlock")
    /\ UNCHANGED <<lock, stamp, owed>>
PersistOutcome(w) ==
    /\ At(w, "write")
    /\ conn' = IF conn.status = "disconnected" THEN conn
               ELSE [conn EXCEPT !.outcome = Recorded(w), !.writer = w]
    /\ Goto(w, "unlock")
    /\ UNCHANGED <<lock, stamp, owed>>

ReleaseConnection(w) ==
    /\ At(w, "unlock")
    /\ ReleaseLock(Conn, w)
    /\ End(w)
    /\ UNCHANGED <<stamp, conn, owed>>

-----------------------------------------------------------------------------
(* A statement or call throws.  Inside the account loop its catch block    *)
(* takes over, outside it the catch block of syncConnectionDataInner, which*)
(* records a failure and logs it when even that fails.                     *)
StatementFails(w) ==
    /\ \/ worker[w].pc \in {"chunk", "recheck", "release"} /\ Goto(w, "abandon")
       \/ worker[w].pc \in {"accounts", "abandon"} /\ Record(w, "thrown")
       \/ At(w, "accounts") /\ worker[w].left = Accounts /\ Record(w, "failed")
       \/ At(w, "revoke") /\ Become(w, [worker[w] EXCEPT !.pc = "accounts", !.left = {},
                                                         !.revoked = FALSE])
       \/ At(w, "assert") /\ Goto(w, "unlock")
       \/ At(w, "write") /\ IF worker[w].outcome = "thrown" THEN Goto(w, "unlock")
                            ELSE Record(w, "thrown")
    /\ UNCHANGED <<lock, stamp, conn, owed>>

Crash(w) ==
    /\ worker[w].pc \in Active
    /\ End(w)
    /\ UNCHANGED <<lock, stamp, conn, owed>>

(* Around the workers: time, the force option, the user.                   *)
LeaseExpires(s) == ExpireLock(s) /\ UNCHANGED <<worker, stamp, conn, owed>>
ForceSync == ForceUnlock /\ UNCHANGED <<worker, stamp, conn, owed>>
Disconnect ==
    /\ conn.status = "connected"
    /\ conn' = [conn EXCEPT !.status = "disconnected", !.outcome = "none", !.writer = NoWorker]
    /\ UNCHANGED <<lock, worker, stamp, owed>>

Reconnect ==
    /\ conn' = [status |-> "connected", outcome |-> "none", writer |-> NoWorker]
    /\ UNCHANGED <<lock, worker, stamp, owed>>

Step(w) ==
    \/ NextAccount(w) \/ Summarize(w) \/ Fetch(w) \/ StartChunk(w)
    \/ BeginBulk(w) \/ WriteBulk(w) \/ Recheck(w) \/ AssertRow(w) \/ UpsertRow(w) \/ EndChunk(w)
    \/ EndAccount(w) \/ ReleaseAccount(w) \/ Abandon(w) \/ Revoke(w)
    \/ AssertOutcome(w) \/ PersistOutcome(w) \/ ReleaseConnection(w)

Next ==
    \/ \E w \in Workers : AcquireConnection(w) \/ Step(w) \/ StatementFails(w) \/ Crash(w)
    \/ \E s \in Scopes : LeaseExpires(s)
    \/ ForceSync \/ Disconnect \/ Reconnect

Spec == Init /\ [][Next]_vars

(* A live process keeps executing and time passes: a lease that nobody     *)
(* renews does expire.                                                     *)
FairSpec == /\ Spec
            /\ \A w \in Workers : WF_vars(Step(w))
            /\ \A s \in Scopes : WF_vars(LeaseExpires(s))
-----------------------------------------------------------------------------
(* Safety.                                                                 *)

(* No two workers ever get the same fencing token of a scope, whatever     *)
(* thefts, releases and forced unlocks lie between their claims.           *)
TokensUnique ==
    \A v, w \in Workers, s \in Scopes :
        v # w /\ worker[v].token[s] = worker[w].token[s] => worker[v].token[s] = 0

(* A connection is recorded as synced with success only by a worker that   *)
(* has itself written every row that it fetched: a bulk statement whose    *)
(* fence stopped it, a fallback or a lost lease never counts as written.   *)
SuccessMeansWritten == conn.outcome = "success" => owed[conn.writer] = {}

(* A row goes back to the data of an older claim only by a write whose     *)
(* lease test (the assertion of the row, the snapshot of the bulk          *)
(* statement) passed before its lease was lost.  A worker whose test comes *)
(* after the loss overwrites nothing, on either path and on the fallback   *)
(* from one to the other.                                                  *)
RegressionOnlyInTheGap ==
    [][\A a \in Accounts, r \in Rows : stamp'[a][r] < stamp[a][r] =>
          \E w \in Workers : r \in worker[w].asserted /\ ~LeaseOk(w)]_vars

(* No worker reconnects a connection that was disconnected meanwhile.      *)
WorkersDoNotReconnect ==
    [][worker' # worker /\ conn.status = "disconnected" => conn'.status = "disconnected"]_vars

-----------------------------------------------------------------------------
(* Liveness, under FairSpec.                                               *)

(* A scope whose holder is gone does not stay locked.                      *)
Orphaned(s) == \E w \in Workers : Holds(s, w) /\ At(w, "ended")
OrphansAreFreed == \A s \in Scopes : Orphaned(s) ~> Free(s)

-----------------------------------------------------------------------------
(* What the comments say and the code does not do.                         *)

(* meta-sync-lock.ts:206 "A zombie worker with a stale                     *)
(* leaseId/fencingToken is rejected before it can write."  The assertion   *)
(* and the upsert of upsertMetaMetric are two statements; the clause of    *)
(* the bulk statement (warehouse-bulk-upsert.ts:450 "a stolen/expired      *)
(* lease yields zero writes by construction") holds of its snapshot only.  *)
ZombieNeverWrites == [][\A a \in Accounts, r \in Rows : stamp'[a][r] >= stamp[a][r]]_vars

(* sync-connection.ts:304 "`lastSyncAt` is the last fully successful       *)
(* requested sync, never a partial attempt": no account was left out.  One *)
(* that is skipped for its health counts as ok.                            *)
SuccessLeavesNoAccountOut ==
    conn.outcome = "success" => \A a \in Accounts : worker[conn.writer].token[a] > 0
=============================================================================
