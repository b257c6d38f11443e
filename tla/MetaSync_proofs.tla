--------------------------- MODULE MetaSync_proofs ----------------------------
(* Theorems about MetaSync, for any number of workers, accounts and rows.    *)
EXTENDS MetaSync, TLAPS

USE NoWorkerAssumption, ScopesAssumption

-----------------------------------------------------------------------------
(* The inductive invariant.  No fence in use is ahead of the row it came     *)
(* from; and every row that a worker owes is accounted for: its account has  *)
(* failed, or it is in the hands of the worker, or it made the account bad.  *)
Gathering == {"idle", "accounts", "revoke", "fetch", "release"}
Testing == {"bulk", "recheck", "rows", "fallback"}
Writing == {"bulkWrite", "rows", "fallback"}

InHand(me, r) == me.bad \/ r \in me.todo \/ r \in me.batch \/ r \in me.asserted

Accounted(me, debts) ==
    /\ me.asserted # {} => me.pc \in Writing
    /\ me.batch # {} => me.pc \in Testing \cup {"abandon"}
    /\ me.pc \in Gathering =>
          \A a \in Accounts, r \in Rows : <<a, r>> \in debts => a \in me.failed
    /\ me.pc \in Testing \cup Writing \cup {"chunk"} =>
          \A a \in Accounts, r \in Rows : <<a, r>> \in debts =>
             a \in me.failed \/ (a = me.acct /\ InHand(me, r))
    /\ me.pc = "abandon" =>
          \A a \in Accounts, r \in Rows : <<a, r>> \in debts => a \in me.failed \/ a = me.acct
    /\ me.pc \in OutcomePoints /\ me.outcome = "success" => debts = {}

TokensBelow == \A w \in Workers, s \in Scopes : worker[w].token[s] <= lock[s].fence
StampsBelow == \A a \in Accounts, r \in Rows : stamp[a][r] <= lock[a].fence
DebtsKnown == \A w \in Workers : Accounted(worker[w], owed[w])
SuccessSettled ==
    conn.outcome = "success" =>
        /\ conn.writer \in Workers
        /\ owed[conn.writer] = {}
        /\ worker[conn.writer].pc \in {"unlock", "ended"}

SyncInv == /\ TypeOK /\ TokensUnique /\ TokensBelow /\ StampsBelow
           /\ DebtsKnown /\ SuccessSettled

LEMMA SyncInvInit == Init => SyncInv
<1> SUFFICES ASSUME Init PROVE SyncInv
    OBVIOUS
<1>1. lock \in [Scopes -> LockType]
    BY DEF Init, LockInit, Absent, LockType
<1>2. Idle \in WorkerType
    BY DEF Idle, WorkerType
<1>3. \A w \in Workers : worker[w] = Idle /\ owed[w] = {}
    BY DEF Init
<1>4. /\ Idle.pc = "idle" /\ Idle.batch = {} /\ Idle.asserted = {}
      /\ \A s \in Scopes : Idle.token[s] = 0
    BY DEF Idle
<1>5. TypeOK
    BY <1>1, <1>2, <1>3, <1>4 DEF Init, TypeOK, AccountPoints
<1>6. TokensUnique
    BY <1>3, <1>4 DEF TokensUnique
<1>7. \A s \in Scopes : lock[s].fence = 0
    BY DEF Init, LockInit, Absent
<1>8. TokensBelow /\ StampsBelow
    BY <1>3, <1>4, <1>7 DEF TokensBelow, StampsBelow, Init
<1>9. DebtsKnown
    BY <1>3, <1>4 DEF DebtsKnown, Accounted, OutcomePoints, Testing, Writing
<1>10. SuccessSettled
    BY DEF Init, SuccessSettled
<1> QED BY <1>5, <1>6, <1>8, <1>9, <1>10 DEF SyncInv

-----------------------------------------------------------------------------
(* The locks: whatever is done to them, no fence goes back.                  *)
LocksGrow == /\ lock' \in [Scopes -> LockType]
             /\ \A s \in Scopes : lock[s].fence <= lock'[s].fence

LEMMA LocksStand == ASSUME TypeOK, UNCHANGED lock PROVE LocksGrow
BY DEF TypeOK, LocksGrow, LockType

LEMMA ClaimGrows ==
    ASSUME TypeOK, NEW s \in Scopes, NEW w \in Workers, ClaimLock(s, w)
    PROVE  LocksGrow /\ lock'[s].fence = lock[s].fence + 1
<1>1. lock \in [Scopes -> LockType] /\ \A t \in Scopes : lock[t].fence \in Nat
    BY DEF TypeOK, LockType
<1>2. [status |-> "running", leaseId |-> w, fence |-> lock[s].fence + 1, live |-> TRUE] \in LockType
    BY <1>1 DEF LockType
<1> QED BY <1>1, <1>2 DEF ClaimLock, LocksGrow

LEMMA HeartbeatGrows ==
    ASSUME TypeOK, NEW s \in Scopes, NEW w \in Workers, HeartbeatLock(s, w)
    PROVE  LocksGrow
<1>1. lock \in [Scopes -> LockType] /\ \A t \in Scopes : lock[t].fence \in Nat
    BY DEF TypeOK, LockType
<1>2. [lock[s] EXCEPT !.live = TRUE] \in LockType /\ [lock[s] EXCEPT !.live = TRUE].fence = lock[s].fence
    BY <1>1 DEF LockType
<1> QED BY <1>1, <1>2 DEF HeartbeatLock, LocksGrow

LEMMA Freed ==
    ASSUME NEW row \in LockType
    PROVE  /\ [row EXCEPT !.status = "released", !.live = FALSE] \in LockType
           /\ [row EXCEPT !.status = "released", !.live = FALSE].fence = row.fence
BY DEF LockType

LEMMA ReleaseGrows ==
    ASSUME TypeOK, NEW s \in Scopes, NEW w \in Workers, ReleaseLock(s, w)
    PROVE  LocksGrow
<1>1. lock \in [Scopes -> LockType] /\ \A t \in Scopes : lock[t].fence \in Nat
    BY DEF TypeOK, LockType
<1>2. lock[s] \in LockType
    BY <1>1
<1> DEFINE freed == [lock[s] EXCEPT !.status = "released", !.live = FALSE]
<1>3. freed \in LockType /\ freed.fence = lock[s].fence
    BY <1>2, Freed
<1>4. lock' = [lock EXCEPT ![s] = freed] \/ UNCHANGED lock
    BY DEF ReleaseLock
<1> HIDE DEF freed
<1> QED BY <1>1, <1>3, <1>4 DEF LocksGrow

LEMMA ForceGrows == ASSUME TypeOK, ForceUnlock PROVE LocksGrow
<1>1. lock \in [Scopes -> LockType] /\ \A t \in Scopes : lock[t].fence \in Nat
    BY DEF TypeOK, LockType
<1> DEFINE freed(s) == [lock[s] EXCEPT !.status = "released", !.live = FALSE]
<1>2. \A s \in Scopes : freed(s) \in LockType /\ freed(s).fence = lock[s].fence
    BY <1>1, Freed
<1>3. /\ DOMAIN lock' = Scopes /\ lock' = [s \in Scopes |-> lock'[s]]
      /\ \A s \in Scopes : lock'[s] = lock[s] \/ lock'[s] = freed(s)
    BY DEF ForceUnlock
<1> HIDE DEF freed
<1> QED BY <1>1, <1>2, <1>3 DEF LocksGrow

LEMMA ExpiryGrows == ASSUME TypeOK, NEW s \in Scopes, ExpireLock(s) PROVE LocksGrow
<1>1. lock \in [Scopes -> LockType] /\ \A t \in Scopes : lock[t].fence \in Nat
    BY DEF TypeOK, LockType
<1>2. [lock[s] EXCEPT !.live = FALSE] \in LockType /\ [lock[s] EXCEPT !.live = FALSE].fence = lock[s].fence
    BY <1>1 DEF LockType
<1> QED BY <1>1, <1>2 DEF ExpireLock, LocksGrow

-----------------------------------------------------------------------------
(* What a step of worker w, after which it is in `state`, must respect for   *)
(* the invariant to hold.                                                    *)
GoodState(w, state, debts) ==
    /\ state \in WorkerType
    /\ state.pc \in AccountPoints => state.acct \in Accounts
    /\ debts \in SUBSET (Accounts \X Rows)
    /\ Accounted(state, debts)

GoodTokens(w, state) ==
    \A s \in Scopes : \/ state.token[s] = worker[w].token[s]
                      \/ state.token[s] = lock[s].fence + 1 /\ lock'[s].fence = lock[s].fence + 1

GoodStamps(w) ==
    /\ stamp' \in [Accounts -> [Rows -> Nat]]
    /\ \A a \in Accounts, r \in Rows : \/ stamp'[a][r] = stamp[a][r]
                                       \/ stamp'[a][r] = worker[w].token[a]

GoodConn(w, state, debts) ==
    /\ conn' \in [status : {"connected", "disconnected"}, outcome : Outcomes \cup {"none"},
                  writer : Workers \cup {NoWorker}]
    /\ conn'.outcome = "success" =>
          \/ /\ conn.outcome = "success" /\ conn'.writer = conn.writer
             /\ conn.writer # w \/ (state.pc \in {"unlock", "ended"} /\ debts \subseteq owed[w])
          \/ conn'.writer = w /\ state.pc \in {"unlock", "ended"} /\ debts = {}

LEMMA WorkerStep ==
    ASSUME SyncInv, NEW w \in Workers, NEW state, NEW debts,
           Become(w, state), owed' = [owed EXCEPT ![w] = debts], LocksGrow,
           GoodState(w, state, debts), GoodTokens(w, state), GoodStamps(w),
           GoodConn(w, state, debts)
    PROVE  SyncInv'
<1> USE DEF SyncInv
<1>1. /\ worker' \in [Workers -> WorkerType] /\ worker'[w] = state
      /\ \A v \in Workers \ {w} : worker'[v] = worker[v]
    BY DEF TypeOK, Become, GoodState
<1>2. /\ owed' \in [Workers -> SUBSET (Accounts \X Rows)] /\ owed'[w] = debts
      /\ \A v \in Workers \ {w} : owed'[v] = owed[v]
    BY DEF TypeOK, GoodState
<1>3. TypeOK'
    <2>1. \A v \in Workers : worker'[v].pc \in AccountPoints => worker'[v].acct \in Accounts
        BY <1>1 DEF TypeOK, GoodState
    <2> QED BY <1>1, <1>2, <2>1 DEF TypeOK, LocksGrow, GoodStamps, GoodConn
<1>4. \A v \in Workers, s \in Scopes :
          worker[v].token[s] \in Nat /\ worker'[v].token[s] \in Nat
          /\ lock[s].fence \in Nat /\ lock'[s].fence \in Nat
    <2>1. \A v \in Workers : worker[v] \in WorkerType /\ worker'[v] \in WorkerType
        BY <1>1 DEF TypeOK
    <2>2. \A s \in Scopes : lock[s] \in LockType /\ lock'[s] \in LockType
        BY DEF TypeOK, LocksGrow
    <2> QED BY <2>1, <2>2 DEF WorkerType, LockType
<1>5. TokensBelow'
    BY <1>1, <1>4 DEF TokensBelow, LocksGrow, GoodTokens
<1>6. TokensUnique'
    <2> SUFFICES ASSUME NEW u \in Workers, NEW v \in Workers, NEW s \in Scopes, u # v,
                        worker'[u].token[s] = worker'[v].token[s]
                 PROVE  worker'[u].token[s] = 0
        BY DEF TokensUnique
    <2>1. \A x \in Workers : worker[x].token[s] <= lock[s].fence
        BY DEF TokensBelow
    <2>2. u # w \/ v # w
        OBVIOUS
    <2> QED BY <1>1, <1>4, <2>1, <2>2 DEF TokensUnique, GoodTokens
<1>7. StampsBelow'
    <2> SUFFICES ASSUME NEW a \in Accounts, NEW r \in Rows PROVE stamp'[a][r] <= lock'[a].fence
        BY DEF StampsBelow
    <2>1. stamp[a][r] \in Nat /\ stamp'[a][r] \in Nat /\ stamp[a][r] <= lock[a].fence
        BY <1>3 DEF TypeOK, StampsBelow
    <2>2. worker[w].token[a] <= lock[a].fence /\ lock[a].fence <= lock'[a].fence
        BY DEF TokensBelow, LocksGrow
    <2> QED BY <1>4, <2>1, <2>2 DEF GoodStamps
<1>8. DebtsKnown'
    BY <1>1, <1>2 DEF DebtsKnown, GoodState
<1>9. SuccessSettled'
    <2> SUFFICES ASSUME conn'.outcome = "success"
                 PROVE  /\ conn'.writer \in Workers
                        /\ owed'[conn'.writer] = {}
                        /\ worker'[conn'.writer].pc \in {"unlock", "ended"}
        BY DEF SuccessSettled
    <2>1. CASE conn'.writer = w /\ state.pc \in {"unlock", "ended"} /\ debts = {}
        BY <1>1, <1>2, <2>1
    <2>2. CASE /\ conn.outcome = "success" /\ conn'.writer = conn.writer
               /\ conn.writer # w \/ (state.pc \in {"unlock", "ended"} /\ debts \subseteq owed[w])
        BY <1>1, <1>2, <2>2 DEF SuccessSettled
    <2> QED BY <2>1, <2>2 DEF GoodConn
<1> QED BY <1>3, <1>5, <1>6, <1>7, <1>8, <1>9

(* A step that changes only the worker and perhaps the locks.                *)
LEMMA LocalStep ==
    ASSUME SyncInv, NEW w \in Workers, NEW state,
           Become(w, state), LocksGrow, UNCHANGED <<stamp, conn, owed>>,
           GoodState(w, state, owed[w]), state.token = worker[w].token,
           worker[w].pc \notin {"unlock", "ended"} \/ state.pc \in {"unlock", "ended"}
    PROVE  SyncInv'
<1> USE DEF SyncInv
<1>1. owed' = [owed EXCEPT ![w] = owed[w]]
    BY DEF TypeOK
<1>2. GoodTokens(w, state)
    BY DEF GoodTokens
<1>3. GoodStamps(w)
    BY DEF GoodStamps, TypeOK
<1>4. GoodConn(w, state, owed[w])
    BY DEF GoodConn, TypeOK, SuccessSettled
<1> QED BY <1>1, <1>2, <1>3, <1>4, WorkerStep

-----------------------------------------------------------------------------
(* The steps of a worker, one by one.                                        *)
LEMMA AtWorker ==
    ASSUME SyncInv, NEW w \in Workers
    PROVE  /\ worker[w] \in WorkerType
           /\ worker[w].pc \in AccountPoints => worker[w].acct \in Accounts
           /\ owed[w] \in SUBSET (Accounts \X Rows)
           /\ Accounted(worker[w], owed[w])
BY DEF SyncInv, TypeOK, DebtsKnown

(* The states from which nothing more is claimed about the debts.            *)
LEMMA EndState ==
    ASSUME SyncInv, NEW w \in Workers
    PROVE  LET state == [Idle EXCEPT !.pc = "ended", !.token = worker[w].token]
           IN  /\ GoodState(w, state, owed[w])
               /\ state.token = worker[w].token /\ state.pc = "ended"
<1> DEFINE state == [Idle EXCEPT !.pc = "ended", !.token = worker[w].token]
<1>1. /\ state \in WorkerType /\ state.pc = "ended" /\ state.token = worker[w].token
      /\ state.batch = {} /\ state.asserted = {}
    BY AtWorker DEF Idle, WorkerType
<1> HIDE DEF state
<1>2. GoodState(w, state, owed[w])
    BY <1>1, AtWorker
       DEF GoodState, Accounted, AccountPoints, Gathering, Testing, Writing, OutcomePoints
<1> QED BY <1>1, <1>2 DEF state

LEMMA RecordState ==
    ASSUME SyncInv, NEW w \in Workers, NEW outcome \in Outcomes \cup {"thrown"},
           outcome = "success" => owed[w] = {}
    PROVE  LET state == [Idle EXCEPT !.pc = "assert", !.token = worker[w].token, !.outcome = outcome]
           IN  GoodState(w, state, owed[w]) /\ state.token = worker[w].token
<1> DEFINE state == [Idle EXCEPT !.pc = "assert", !.token = worker[w].token, !.outcome = outcome]
<1>1. /\ state \in WorkerType /\ state.pc = "assert" /\ state.token = worker[w].token
      /\ state.batch = {} /\ state.asserted = {} /\ state.outcome = outcome
    BY AtWorker, ZenonT(30) DEF Idle, WorkerType, Active, OutcomePoints
<1> HIDE DEF state
<1>2. GoodState(w, state, owed[w])
    BY <1>1, AtWorker DEF GoodState, Accounted, AccountPoints, Gathering, Testing, Writing
<1> QED BY <1>1, <1>2 DEF state

(* A worker that only goes to another point.                                 *)
LEMMA MovedState ==
    ASSUME SyncInv, NEW w \in Workers, NEW point \in Active \cup {"idle", "ended"}
    PROVE  LET state == [worker[w] EXCEPT !.pc = point]
           IN  /\ state \in WorkerType /\ state.pc = point
               /\ state.token = worker[w].token /\ state.acct = worker[w].acct
               /\ state.todo = worker[w].todo /\ state.batch = worker[w].batch
               /\ state.asserted = worker[w].asserted /\ state.bad = worker[w].bad
               /\ state.failed = worker[w].failed /\ state.outcome = worker[w].outcome
BY AtWorker, ZenonT(30) DEF WorkerType

LEMMA GotoStep ==
    ASSUME SyncInv, NEW w \in Workers, NEW point \in Active, Goto(w, point), LocksGrow,
           UNCHANGED <<stamp, conn, owed>>,
           point \in AccountPoints => worker[w].acct \in Accounts,
           Accounted([worker[w] EXCEPT !.pc = point], owed[w]),
           worker[w].pc \notin {"unlock", "ended"}
    PROVE  SyncInv'
<1> DEFINE state == [worker[w] EXCEPT !.pc = point]
<1>1. Become(w, state)
    BY DEF Goto
<1>2. state \in WorkerType /\ state.pc = point /\ state.token = worker[w].token /\ state.acct = worker[w].acct
    BY MovedState
<1>3. Accounted(state, owed[w])
    OBVIOUS
<1> HIDE DEF state
<1>4. GoodState(w, state, owed[w])
    BY <1>2, <1>3, AtWorker DEF GoodState
<1> QED BY <1>1, <1>2, <1>4, LocalStep

-----------------------------------------------------------------------------
LEMMA AcquireConnectionStep ==
    ASSUME SyncInv, NEW w \in Workers, AcquireConnection(w) PROVE SyncInv'
<1> DEFINE me == worker[w]
<1>1. CASE ClaimLock(Conn, w) /\ Become(w, [me EXCEPT !.pc = "accounts", !.left = Accounts,
                                                      !.token = [@ EXCEPT ![Conn] = lock[Conn].fence + 1]])
    <2> DEFINE tokens == [me.token EXCEPT ![Conn] = lock[Conn].fence + 1]
               state == [me EXCEPT !.pc = "accounts", !.left = Accounts, !.token = tokens]
    <2>1. me \in WorkerType /\ me.pc = "idle"
        BY AtWorker DEF AcquireConnection, At
    <2>2. LocksGrow /\ lock'[Conn].fence = lock[Conn].fence + 1 /\ lock[Conn].fence \in Nat
        BY <1>1, ClaimGrows DEF SyncInv, TypeOK, LockType
    <2>3. /\ tokens \in [Scopes -> Nat] /\ tokens[Conn] = lock[Conn].fence + 1
          /\ \A s \in Scopes \ {Conn} : tokens[s] = me.token[s]
        BY <2>1, <2>2 DEF WorkerType
    <2>4. Become(w, state)
        BY <1>1
    <2> HIDE DEF tokens
    <2>5. /\ state \in WorkerType /\ state.pc = "accounts" /\ state.token = tokens
          /\ state.batch = me.batch /\ state.asserted = me.asserted /\ state.failed = me.failed
        BY <2>1, <2>3 DEF WorkerType, Active
    <2> HIDE DEF state
    <2>6. GoodState(w, state, owed[w])
        BY <2>1, <2>5, AtWorker
           DEF GoodState, Accounted, AccountPoints, Gathering, Testing, Writing, OutcomePoints
    <2>7. GoodTokens(w, state)
        BY <2>2, <2>3, <2>5 DEF GoodTokens
    <2>8. UNCHANGED <<stamp, conn, owed>> /\ owed' = [owed EXCEPT ![w] = owed[w]]
        BY DEF AcquireConnection, SyncInv, TypeOK
    <2>9. GoodStamps(w) /\ GoodConn(w, state, owed[w])
        BY <2>1, <2>8 DEF GoodStamps, GoodConn, SyncInv, TypeOK, SuccessSettled
    <2> QED BY <2>2, <2>4, <2>6, <2>7, <2>8, <2>9, WorkerStep
<1>2. CASE End(w) /\ UNCHANGED lock
    BY <1>2, EndState, LocksStand, LocalStep DEF End, AcquireConnection, SyncInv
<1> QED BY <1>1, <1>2 DEF AcquireConnection

LEMMA NextAccountStep ==
    ASSUME SyncInv, NEW w \in Workers, NextAccount(w) PROVE SyncInv'
<1> DEFINE me == worker[w]
<1>1. me \in WorkerType /\ me.pc = "accounts"
    BY AtWorker DEF NextAccount, At
<1>2. PICK a \in me.left :
          LET rest == [me EXCEPT !.left = @ \ {a}]
          IN  \/ Become(w, [rest EXCEPT !.ok = @ \cup {a}]) /\ UNCHANGED lock
              \/ Become(w, [rest EXCEPT !.failed = @ \cup {a}]) /\ UNCHANGED lock
              \/ /\ ClaimLock(a, w)
                 /\ Become(w, [rest EXCEPT !.pc = "fetch", !.acct = a,
                                           !.token = [@ EXCEPT ![a] = lock[a].fence + 1]])
    BY DEF NextAccount
<1>3. a \in Accounts /\ UNCHANGED <<stamp, conn, owed>>
    BY <1>1, <1>2 DEF WorkerType, NextAccount
<1> DEFINE rest == [me EXCEPT !.left = @ \ {a}]
<1>4. /\ rest \in WorkerType /\ rest.pc = "accounts" /\ rest.token = me.token
      /\ rest.batch = me.batch /\ rest.asserted = me.asserted /\ rest.failed = me.failed
    BY <1>1 DEF WorkerType
<1>5. \/ Become(w, [rest EXCEPT !.ok = @ \cup {a}]) /\ UNCHANGED lock
      \/ Become(w, [rest EXCEPT !.failed = @ \cup {a}]) /\ UNCHANGED lock
      \/ /\ ClaimLock(a, w)
         /\ Become(w, [rest EXCEPT !.pc = "fetch", !.acct = a,
                                   !.token = [@ EXCEPT ![a] = lock[a].fence + 1]])
    BY <1>2
<1> HIDE DEF rest
<1>6. CASE Become(w, [rest EXCEPT !.ok = @ \cup {a}]) /\ UNCHANGED lock
    <2> DEFINE state == [rest EXCEPT !.ok = @ \cup {a}]
    <2>1. /\ state \in WorkerType /\ state.pc = "accounts" /\ state.token = me.token
          /\ state.batch = me.batch /\ state.asserted = me.asserted /\ state.failed = me.failed
        BY <1>3, <1>4 DEF WorkerType
    <2>2. Become(w, state)
        BY <1>6
    <2> HIDE DEF state
    <2>3. GoodState(w, state, owed[w])
        BY <1>1, <2>1, AtWorker
           DEF GoodState, Accounted, AccountPoints, Gathering, Testing, Writing, OutcomePoints
    <2> QED BY <1>1, <1>3, <1>6, <2>1, <2>2, <2>3, LocksStand, LocalStep DEF SyncInv
<1>7. CASE Become(w, [rest EXCEPT !.failed = @ \cup {a}]) /\ UNCHANGED lock
    <2> DEFINE state == [rest EXCEPT !.failed = @ \cup {a}]
    <2>1. /\ state \in WorkerType /\ state.pc = "accounts" /\ state.token = me.token
          /\ state.batch = me.batch /\ state.asserted = me.asserted /\ me.failed \subseteq state.failed
        BY <1>3, <1>4 DEF WorkerType
    <2>2. Become(w, state)
        BY <1>7
    <2> HIDE DEF state
    <2>3. GoodState(w, state, owed[w])
        BY <1>1, <2>1, AtWorker
           DEF GoodState, Accounted, AccountPoints, Gathering, Testing, Writing, OutcomePoints
    <2> QED BY <1>1, <1>3, <1>7, <2>1, <2>2, <2>3, LocksStand, LocalStep DEF SyncInv
<1>8. CASE /\ ClaimLock(a, w)
           /\ Become(w, [rest EXCEPT !.pc = "fetch", !.acct = a,
                                     !.token = [@ EXCEPT ![a] = lock[a].fence + 1]])
    <2> DEFINE tokens == [rest.token EXCEPT ![a] = lock[a].fence + 1]
               state == [rest EXCEPT !.pc = "fetch", !.acct = a, !.token = tokens]
    <2>1. Become(w, state)
        BY <1>8
    <2>2. LocksGrow /\ lock'[a].fence = lock[a].fence + 1 /\ lock[a].fence \in Nat
        BY <1>3, <1>8, ClaimGrows DEF SyncInv, TypeOK, LockType
    <2>3. /\ tokens \in [Scopes -> Nat] /\ tokens[a] = lock[a].fence + 1
          /\ \A s \in Scopes \ {a} : tokens[s] = me.token[s]
        BY <1>1, <1>3, <1>4, <2>2 DEF WorkerType
    <2> HIDE DEF tokens
    <2>4. /\ state \in WorkerType /\ state.pc = "fetch" /\ state.token = tokens /\ state.acct = a
          /\ state.batch = me.batch /\ state.asserted = me.asserted /\ state.failed = me.failed
        BY <1>3, <1>4, <2>3 DEF WorkerType, Active, AccountPoints
    <2> HIDE DEF state
    <2>5. GoodState(w, state, owed[w])
        BY <1>1, <1>3, <2>4, AtWorker
           DEF GoodState, Accounted, Gathering, Testing, Writing, OutcomePoints
    <2>6. GoodTokens(w, state)
        BY <2>2, <2>3, <2>4 DEF GoodTokens
    <2>7. owed' = [owed EXCEPT ![w] = owed[w]]
        BY <1>3 DEF SyncInv, TypeOK
    <2>8. GoodStamps(w) /\ GoodConn(w, state, owed[w])
        BY <1>1, <1>3 DEF GoodStamps, GoodConn, SyncInv, TypeOK, SuccessSettled
    <2> QED BY <2>1, <2>2, <2>5, <2>6, <2>7, <2>8, WorkerStep
<1> QED BY <1>5, <1>6, <1>7, <1>8

LEMMA SummarizeStep == ASSUME SyncInv, NEW w \in Workers, Summarize(w) PROVE SyncInv'
<1> DEFINE outcome == IF worker[w].failed = {} THEN "success"
                      ELSE IF worker[w].ok # {} THEN "partial" ELSE "failed"
           state == [Idle EXCEPT !.pc = "assert", !.token = worker[w].token, !.outcome = outcome]
<1>1. worker[w].pc = "accounts" /\ Become(w, state) /\ UNCHANGED <<lock, stamp, conn, owed>>
    BY DEF Summarize, At, Record
<1>2. worker[w].failed = {} => owed[w] = {}
    BY <1>1, AtWorker DEF Accounted, Gathering
<1>3. GoodState(w, state, owed[w]) /\ state.token = worker[w].token
    BY <1>2, RecordState DEF Outcomes
<1> HIDE DEF state
<1> QED BY <1>1, <1>3, LocksStand, LocalStep DEF SyncInv

(* The recorded outcome stays that of a worker that is done with the rows.   *)
LEMMA ConnStands ==
    ASSUME SyncInv, NEW w \in Workers, NEW state, NEW debts, UNCHANGED conn,
           worker[w].pc \notin {"unlock", "ended"}
    PROVE  GoodConn(w, state, debts)
<1>1. conn.outcome = "success" => worker[conn.writer].pc \in {"unlock", "ended"}
    BY DEF SyncInv, SuccessSettled
<1>2. conn.outcome = "success" => conn.writer # w
    BY <1>1
<1>3. conn' \in [status : {"connected", "disconnected"}, outcome : Outcomes \cup {"none"},
                writer : Workers \cup {NoWorker}]
    BY DEF SyncInv, TypeOK
<1>4. conn'.outcome = conn.outcome /\ conn'.writer = conn.writer
    OBVIOUS
<1> QED BY <1>2, <1>3, <1>4 DEF GoodConn

LEMMA FetchStep == ASSUME SyncInv, NEW w \in Workers, Fetch(w) PROVE SyncInv'
<1> DEFINE me == worker[w]
<1>1. me \in WorkerType /\ me.pc = "fetch" /\ me.acct \in Accounts
    BY AtWorker DEF Fetch, At, AccountPoints
<1>2. UNCHANGED <<lock, stamp, conn>> /\ LocksGrow
    BY LocksStand DEF Fetch, SyncInv
<1>3. CASE \E rows \in SUBSET Rows :
              /\ Become(w, [me EXCEPT !.pc = "chunk", !.todo = rows])
              /\ owed' = [owed EXCEPT ![w] = @ \cup ({me.acct} \X rows)]
    <2> PICK rows \in SUBSET Rows :
              /\ Become(w, [me EXCEPT !.pc = "chunk", !.todo = rows])
              /\ owed' = [owed EXCEPT ![w] = @ \cup ({me.acct} \X rows)]
        BY <1>3
    <2> DEFINE state == [me EXCEPT !.pc = "chunk", !.todo = rows]
               debts == owed[w] \cup ({me.acct} \X rows)
    <2>1. /\ state \in WorkerType /\ state.pc = "chunk" /\ state.token = me.token
          /\ state.acct = me.acct /\ state.todo = rows
          /\ state.batch = me.batch /\ state.asserted = me.asserted /\ state.failed = me.failed
        BY <1>1 DEF WorkerType, Active, AccountPoints
    <2>2. Become(w, state) /\ owed' = [owed EXCEPT ![w] = debts]
        OBVIOUS
    <2>3. debts \in SUBSET (Accounts \X Rows)
        BY <1>1, AtWorker
    <2>4. \A a \in Accounts, r \in Rows :
              <<a, r>> \in debts => <<a, r>> \in owed[w] \/ (a = me.acct /\ r \in rows)
        OBVIOUS
    <2> HIDE DEF state, debts
    <2>5. GoodState(w, state, debts)
        BY <1>1, <2>1, <2>3, <2>4, AtWorker
           DEF GoodState, Accounted, Gathering, Testing, Writing, OutcomePoints, InHand
    <2>6. GoodTokens(w, state)
        BY <2>1 DEF GoodTokens
    <2>7. GoodStamps(w) /\ GoodConn(w, state, debts)
        BY <1>1, <1>2, ConnStands DEF GoodStamps, SyncInv, TypeOK
    <2> QED BY <1>2, <2>2, <2>5, <2>6, <2>7, WorkerStep
<1>4. CASE /\ \E revoked \in BOOLEAN : Become(w, [me EXCEPT !.pc = "abandon", !.revoked = revoked])
           /\ UNCHANGED owed
    <2> PICK revoked \in BOOLEAN : Become(w, [me EXCEPT !.pc = "abandon", !.revoked = revoked])
        BY <1>4
    <2> DEFINE state == [me EXCEPT !.pc = "abandon", !.revoked = revoked]
    <2>1. /\ state \in WorkerType /\ state.pc = "abandon" /\ state.token = me.token
          /\ state.acct = me.acct
          /\ state.batch = me.batch /\ state.asserted = me.asserted /\ state.failed = me.failed
        BY <1>1 DEF WorkerType, Active, AccountPoints
    <2>2. Become(w, state)
        OBVIOUS
    <2> HIDE DEF state
    <2>3. GoodState(w, state, owed[w])
        BY <1>1, <2>1, AtWorker DEF GoodState, Accounted, Gathering, Testing, Writing, OutcomePoints
    <2> QED BY <1>1, <1>2, <1>4, <2>1, <2>2, <2>3, LocalStep
<1> QED BY <1>3, <1>4 DEF Fetch

LEMMA StartChunkStep == ASSUME SyncInv, NEW w \in Workers, StartChunk(w) PROVE SyncInv'
<1> DEFINE me == worker[w]
<1>1. me \in WorkerType /\ me.pc = "chunk" /\ me.acct \in Accounts /\ UNCHANGED <<stamp, conn, owed>>
    BY AtWorker DEF StartChunk, At, AccountPoints
<1>2. CASE /\ HeartbeatLock(me.acct, w)
           /\ \E rows \in SUBSET me.todo \ {{}}, path \in {"rows", "bulk"} :
                 \E valid \in SUBSET rows :
                     Become(w, [me EXCEPT !.pc = path, !.todo = @ \ rows,
                                  !.batch = valid, !.bad = @ \/ valid # rows])
    <2> PICK rows \in SUBSET me.todo \ {{}}, path \in {"rows", "bulk"} :
              \E valid \in SUBSET rows :
                  Become(w, [me EXCEPT !.pc = path, !.todo = @ \ rows,
                                !.batch = valid, !.bad = @ \/ valid # rows])
        BY <1>2
    <2> PICK valid \in SUBSET rows :
              Become(w, [me EXCEPT !.pc = path, !.todo = @ \ rows,
                            !.batch = valid, !.bad = @ \/ valid # rows])
        OBVIOUS
    <2> DEFINE state == [me EXCEPT !.pc = path, !.todo = @ \ rows,
                                   !.batch = valid, !.bad = @ \/ valid # rows]
    <2>1. rows \subseteq Rows /\ valid \subseteq Rows
        BY <1>1 DEF WorkerType
    <2>2. /\ state \in WorkerType /\ state.pc = path /\ state.token = me.token /\ state.acct = me.acct
          /\ state.todo = me.todo \ rows /\ state.batch = valid
          /\ state.asserted = me.asserted /\ state.failed = me.failed
        BY <1>1, <2>1, ZenonT(30) DEF WorkerType, Active, AccountPoints
    <2>3. state.bad = (me.bad \/ valid # rows)
        BY <1>1 DEF WorkerType
    <2>4. Become(w, state)
        OBVIOUS
    <2> HIDE DEF state
    <2>5. me.batch = {} /\ me.asserted = {}
        BY <1>1, AtWorker DEF Accounted, Testing, Writing
    <2>6. \A a \in Accounts, r \in Rows : <<a, r>> \in owed[w] =>
              a \in me.failed \/ (a = me.acct /\ (me.bad \/ r \in me.todo))
        BY <1>1, <2>5, AtWorker DEF Accounted, InHand, Writing
    <2>7. \A r : r \in me.todo => state.bad \/ r \in state.todo \/ r \in state.batch
        BY <2>2, <2>3
    <2>8. me.bad => state.bad
        BY <2>3
    <2>9. Accounted(state, owed[w])
        BY <2>2, <2>5, <2>6, <2>7, <2>8
           DEF Accounted, Gathering, Testing, Writing, OutcomePoints, InHand
    <2>10. GoodState(w, state, owed[w])
        BY <1>1, <2>2, <2>9, AtWorker DEF GoodState
    <2>11. LocksGrow
        BY <1>1, <1>2, HeartbeatGrows DEF SyncInv
    <2> QED BY <1>1, <2>2, <2>4, <2>10, <2>11, LocalStep
<1>3. CASE ~Holds(me.acct, w) /\ Goto(w, "abandon") /\ UNCHANGED lock
    <2>1. Accounted([me EXCEPT !.pc = "abandon"], owed[w])
        BY <1>1, AtWorker, MovedState
           DEF Accounted, Gathering, Testing, Writing, OutcomePoints, Active, AccountPoints
    <2> QED BY <1>1, <1>3, <2>1, GotoStep, LocksStand DEF SyncInv, Active, AccountPoints
<1> QED BY <1>2, <1>3 DEF StartChunk

(* What a successful upsert of `rows` does to the row stamps and the debts.  *)
LEMMA WrittenRows ==
    ASSUME SyncInv, NEW w \in Workers, NEW rows \in SUBSET Rows, Written(w, rows),
           worker[w].acct \in Accounts
    PROVE  /\ GoodStamps(w)
           /\ owed' = [owed EXCEPT ![w] = owed[w] \ ({worker[w].acct} \X rows)]
           /\ owed[w] \ ({worker[w].acct} \X rows) \in SUBSET (Accounts \X Rows)
           /\ \A a \in Accounts, r \in Rows :
                 <<a, r>> \in owed[w] \ ({worker[w].acct} \X rows)
                    => <<a, r>> \in owed[w] /\ (a # worker[w].acct \/ r \notin rows)
<1> DEFINE a == worker[w].acct
           new == [r \in Rows |-> IF r \in rows THEN worker[w].token[a] ELSE stamp[a][r]]
<1>1. worker[w].token[a] \in Nat /\ stamp \in [Accounts -> [Rows -> Nat]]
    BY AtWorker DEF WorkerType, SyncInv, TypeOK
<1>2. new \in [Rows -> Nat] /\ \A r \in Rows : new[r] = stamp[a][r] \/ new[r] = worker[w].token[a]
    BY <1>1
<1>3. stamp' = [stamp EXCEPT ![a] = new]
    BY DEF Written
<1> HIDE DEF new
<1>4. GoodStamps(w)
    BY <1>1, <1>2, <1>3 DEF GoodStamps
<1>5. owed' = [owed EXCEPT ![w] = owed[w] \ ({a} \X rows)]
    BY DEF Written
<1>6. owed[w] \in SUBSET (Accounts \X Rows)
    BY AtWorker
<1> QED BY <1>4, <1>5, <1>6

LEMMA BeginBulkStep == ASSUME SyncInv, NEW w \in Workers, BeginBulk(w) PROVE SyncInv'
<1> DEFINE me == worker[w]
<1>1. /\ me \in WorkerType /\ me.pc = "bulk" /\ me.acct \in Accounts /\ me.asserted = {}
      /\ UNCHANGED <<lock, stamp, conn, owed>> /\ LocksGrow
    BY AtWorker, LocksStand DEF BeginBulk, At, AccountPoints, Accounted, Writing, SyncInv
<1>2. CASE Become(w, [me EXCEPT !.pc = "bulkWrite", !.batch = {}, !.asserted = me.batch])
    <2> DEFINE state == [me EXCEPT !.pc = "bulkWrite", !.batch = {}, !.asserted = me.batch]
    <2>1. /\ state \in WorkerType /\ state.pc = "bulkWrite" /\ state.token = me.token
          /\ state.acct = me.acct /\ state.todo = me.todo /\ state.batch = {}
          /\ state.asserted = me.batch /\ state.failed = me.failed /\ state.bad = me.bad
        BY <1>1 DEF WorkerType, Active, AccountPoints
    <2>2. Become(w, state)
        BY <1>2
    <2> HIDE DEF state
    <2>3. Accounted(state, owed[w])
        BY <1>1, <2>1, AtWorker
           DEF Accounted, Gathering, Testing, Writing, OutcomePoints, InHand
    <2>4. GoodState(w, state, owed[w])
        BY <1>1, <2>1, <2>3, AtWorker DEF GoodState
    <2> QED BY <1>1, <2>1, <2>2, <2>4, LocalStep
<1>3. ASSUME NEW point \in {"chunk", "recheck"}, Goto(w, point), point = "chunk" => me.batch = {}
      PROVE  SyncInv'
    <2>1. Accounted([me EXCEPT !.pc = point], owed[w])
        BY <1>1, <1>3, AtWorker, MovedState
           DEF Accounted, Gathering, Testing, Writing, OutcomePoints, InHand, Active, AccountPoints
    <2> QED BY <1>1, <1>3, <2>1, GotoStep DEF Active, AccountPoints
<1> QED BY <1>2, <1>3 DEF BeginBulk

LEMMA WriteBulkStep == ASSUME SyncInv, NEW w \in Workers, WriteBulk(w) PROVE SyncInv'
<1> DEFINE me == worker[w]
<1>1. /\ me \in WorkerType /\ me.pc = "bulkWrite" /\ me.acct \in Accounts
      /\ UNCHANGED <<lock, conn>> /\ me.batch = {}
    BY AtWorker DEF WriteBulk, At, AccountPoints, Accounted, Testing
<1>2. LocksGrow
    BY <1>1, LocksStand DEF SyncInv
<1>3. CASE /\ Written(w, me.asserted)
           /\ Become(w, [me EXCEPT !.pc = "chunk", !.asserted = {}])
    <2> DEFINE state == [me EXCEPT !.pc = "chunk", !.asserted = {}]
               debts == owed[w] \ ({me.acct} \X me.asserted)
    <2>1. /\ state \in WorkerType /\ state.pc = "chunk" /\ state.token = me.token
          /\ state.acct = me.acct /\ state.todo = me.todo /\ state.batch = {}
          /\ state.asserted = {} /\ state.failed = me.failed /\ state.bad = me.bad
        BY <1>1 DEF WorkerType, Active, AccountPoints
    <2>2. me.asserted \in SUBSET Rows
        BY <1>1 DEF WorkerType
    <2>3. /\ GoodStamps(w) /\ owed' = [owed EXCEPT ![w] = debts] /\ debts \in SUBSET (Accounts \X Rows)
          /\ \A a \in Accounts, r \in Rows :
                <<a, r>> \in debts => <<a, r>> \in owed[w] /\ (a # me.acct \/ r \notin me.asserted)
        BY <1>1, <1>3, <2>2, WrittenRows
    <2>4. Become(w, state)
        BY <1>3
    <2> HIDE DEF state, debts
    <2>5. GoodState(w, state, debts)
        BY <1>1, <2>1, <2>3, AtWorker
           DEF GoodState, Accounted, Gathering, Testing, Writing, OutcomePoints, InHand
    <2>6. GoodTokens(w, state)
        BY <2>1 DEF GoodTokens
    <2>7. GoodConn(w, state, debts)
        BY <1>1, ConnStands
    <2> QED BY <1>2, <2>3, <2>4, <2>5, <2>6, <2>7, WorkerStep
<1>4. CASE /\ Become(w, [me EXCEPT !.pc = "fallback", !.batch = me.asserted, !.asserted = {}])
           /\ UNCHANGED <<stamp, owed>>
    <2> DEFINE state == [me EXCEPT !.pc = "fallback", !.batch = me.asserted, !.asserted = {}]
    <2>1. /\ state \in WorkerType /\ state.pc = "fallback" /\ state.token = me.token
          /\ state.acct = me.acct /\ state.todo = me.todo /\ state.batch = me.asserted
          /\ state.asserted = {} /\ state.failed = me.failed /\ state.bad = me.bad
        BY <1>1 DEF WorkerType, Active, AccountPoints
    <2>2. Become(w, state)
        BY <1>4
    <2> HIDE DEF state
    <2>3. Accounted(state, owed[w])
        BY <1>1, <2>1, AtWorker
           DEF Accounted, Gathering, Testing, Writing, OutcomePoints, InHand
    <2>4. GoodState(w, state, owed[w])
        BY <1>1, <2>1, <2>3, AtWorker DEF GoodState
    <2> QED BY <1>1, <1>2, <1>4, <2>1, <2>2, <2>4, LocalStep
<1> QED BY <1>3, <1>4 DEF WriteBulk

LEMMA RecheckStep == ASSUME SyncInv, NEW w \in Workers, Recheck(w) PROVE SyncInv'
<1> DEFINE me == worker[w]
<1>1. me \in WorkerType /\ me.pc = "recheck" /\ me.acct \in Accounts /\ UNCHANGED <<lock, stamp, conn, owed>>
    BY AtWorker DEF Recheck, At, AccountPoints
<1>2. PICK point \in {"fallback", "abandon"} : Goto(w, point)
    BY DEF Recheck
<1> DEFINE state == [me EXCEPT !.pc = point]
<1>3. /\ state.pc = point /\ state.acct = me.acct /\ state.todo = me.todo /\ state.batch = me.batch
      /\ state.asserted = me.asserted /\ state.bad = me.bad /\ state.failed = me.failed
    BY MovedState DEF Active, AccountPoints
<1>4. Accounted(me, owed[w])
    BY AtWorker
<1> HIDE DEF state
<1>5. Accounted(state, owed[w])
    BY <1>1, <1>3, <1>4 DEF Accounted, Gathering, Testing, Writing, OutcomePoints, InHand
<1> QED BY <1>1, <1>2, <1>5, GotoStep, LocksStand DEF SyncInv, Active, AccountPoints, state

LEMMA AssertRowStep == ASSUME SyncInv, NEW w \in Workers, AssertRow(w) PROVE SyncInv'
<1> DEFINE me == worker[w]
<1>1. /\ me \in WorkerType /\ me.pc \in {"rows", "fallback"} /\ me.acct \in Accounts
      /\ UNCHANGED <<lock, stamp, conn, owed>>
    BY AtWorker DEF AssertRow, At, AccountPoints
<1>2. PICK r \in me.batch :
          Become(w, [me EXCEPT !.batch = @ \ {r},
                               !.asserted = IF LeaseOk(w) THEN @ \cup {r} ELSE @,
                               !.bad = @ \/ ~LeaseOk(w)])
    BY DEF AssertRow
<1> DEFINE kept == IF LeaseOk(w) THEN me.asserted \cup {r} ELSE me.asserted
           state == [me EXCEPT !.batch = @ \ {r}, !.asserted = kept, !.bad = @ \/ ~LeaseOk(w)]
<1>3. Become(w, state)
    BY <1>2
<1>4. me.batch \subseteq Rows /\ kept \in SUBSET Rows /\ me.asserted \subseteq kept /\ (LeaseOk(w) => r \in kept)
    BY <1>1, <1>2 DEF WorkerType
<1> HIDE DEF kept
<1>5. /\ state \in WorkerType /\ state.pc = me.pc /\ state.token = me.token /\ state.acct = me.acct
      /\ state.todo = me.todo /\ state.batch = me.batch \ {r}
      /\ state.asserted = kept /\ state.failed = me.failed
    BY <1>1, <1>4 DEF WorkerType
<1>6. state.bad = (me.bad \/ ~LeaseOk(w))
    BY <1>1 DEF WorkerType
<1> HIDE DEF state
<1>7. \A x : InHand(me, x) => InHand(state, x)
    BY <1>4, <1>5, <1>6 DEF InHand
<1>8. Accounted(state, owed[w])
    BY <1>1, <1>5, <1>7, AtWorker DEF Accounted, Gathering, Testing, Writing, OutcomePoints
<1>9. GoodState(w, state, owed[w])
    BY <1>1, <1>5, <1>8, AtWorker DEF GoodState
<1> QED BY <1>1, <1>3, <1>5, <1>9, LocksStand, LocalStep DEF SyncInv

LEMMA UpsertRowStep == ASSUME SyncInv, NEW w \in Workers, UpsertRow(w) PROVE SyncInv'
<1> DEFINE me == worker[w]
<1>1. PICK r \in me.asserted :
          \/ /\ Become(w, [me EXCEPT !.asserted = @ \ {r}])
             /\ Written(w, {r})
          \/ /\ Become(w, [me EXCEPT !.asserted = @ \ {r}, !.bad = TRUE])
             /\ UNCHANGED <<stamp, owed>>
    BY DEF UpsertRow
<1>2. /\ me \in WorkerType /\ me.pc \in {"rows", "fallback"} /\ me.acct \in Accounts /\ r \in Rows
      /\ UNCHANGED <<lock, conn>> /\ LocksGrow
    BY <1>1, AtWorker, LocksStand DEF UpsertRow, At, AccountPoints, WorkerType, SyncInv
<1>3. CASE Become(w, [me EXCEPT !.asserted = @ \ {r}]) /\ Written(w, {r})
    <2> DEFINE state == [me EXCEPT !.asserted = @ \ {r}]
               debts == owed[w] \ ({me.acct} \X {r})
    <2>1. /\ state \in WorkerType /\ state.pc = me.pc /\ state.token = me.token
          /\ state.acct = me.acct /\ state.todo = me.todo /\ state.batch = me.batch
          /\ state.asserted = me.asserted \ {r} /\ state.failed = me.failed /\ state.bad = me.bad
        BY <1>2 DEF WorkerType
    <2>2. /\ GoodStamps(w) /\ owed' = [owed EXCEPT ![w] = debts] /\ debts \in SUBSET (Accounts \X Rows)
          /\ \A a \in Accounts, x \in Rows :
                <<a, x>> \in debts => <<a, x>> \in owed[w] /\ (a # me.acct \/ x \notin {r})
        BY <1>2, <1>3, WrittenRows
    <2>3. Become(w, state)
        BY <1>3
    <2> HIDE DEF state, debts
    <2>4. \A x : InHand(me, x) => InHand(state, x) \/ x = r
        BY <2>1 DEF InHand
    <2>5. Accounted(state, debts)
        BY <1>2, <2>1, <2>2, <2>4, AtWorker
           DEF Accounted, Gathering, Testing, Writing, OutcomePoints
    <2>6. GoodState(w, state, debts)
        BY <1>2, <2>1, <2>2, <2>5 DEF GoodState
    <2>7. GoodTokens(w, state)
        BY <2>1 DEF GoodTokens
    <2>8. GoodConn(w, state, debts)
        BY <1>2, ConnStands
    <2> QED BY <1>2, <2>2, <2>3, <2>6, <2>7, <2>8, WorkerStep
<1>4. CASE Become(w, [me EXCEPT !.asserted = @ \ {r}, !.bad = TRUE]) /\ UNCHANGED <<stamp, owed>>
    <2> DEFINE state == [me EXCEPT !.asserted = @ \ {r}, !.bad = TRUE]
    <2>1. /\ state \in WorkerType /\ state.pc = me.pc /\ state.token = me.token
          /\ state.acct = me.acct /\ state.todo = me.todo /\ state.batch = me.batch
          /\ state.asserted = me.asserted \ {r} /\ state.failed = me.failed
        BY <1>2 DEF WorkerType
    <2>2. state.bad
        BY <1>2 DEF WorkerType
    <2>3. Become(w, state)
        BY <1>4
    <2> HIDE DEF state
    <2>4. Accounted(state, owed[w])
        BY <1>2, <2>1, <2>2, AtWorker
           DEF Accounted, Gathering, Testing, Writing, OutcomePoints, InHand
    <2>5. GoodState(w, state, owed[w])
        BY <1>2, <2>1, <2>4, AtWorker DEF GoodState
    <2> QED BY <1>2, <1>4, <2>1, <2>3, <2>5, LocalStep
<1> QED BY <1>1, <1>3, <1>4

LEMMA EndChunkStep == ASSUME SyncInv, NEW w \in Workers, EndChunk(w) PROVE SyncInv'
<1> DEFINE me == worker[w]
           state == [me EXCEPT !.pc = "chunk"]
<1>1. /\ me.pc \in {"rows", "fallback"} /\ me.batch = {} /\ me.asserted = {} /\ me.acct \in Accounts
      /\ Goto(w, "chunk") /\ UNCHANGED <<lock, stamp, conn, owed>>
    BY AtWorker DEF EndChunk, AccountPoints
<1>2. /\ state.pc = "chunk" /\ state.acct = me.acct /\ state.todo = me.todo /\ state.batch = me.batch
      /\ state.asserted = me.asserted /\ state.bad = me.bad /\ state.failed = me.failed
    BY MovedState DEF Active, AccountPoints
<1> HIDE DEF state
<1>3. Accounted(state, owed[w])
    BY <1>1, <1>2, AtWorker DEF Accounted, Gathering, Testing, Writing, OutcomePoints, InHand
<1> QED BY <1>1, <1>3, GotoStep, LocksStand DEF SyncInv, Active, AccountPoints, state

(* With nothing in hand, a row that is still owed has made its account bad.  *)
LEMMA EndAccountStep == ASSUME SyncInv, NEW w \in Workers, EndAccount(w) PROVE SyncInv'
<1> DEFINE me == worker[w]
           done == IF me.bad THEN me.ok ELSE me.ok \cup {me.acct}
           lost == IF me.bad THEN me.failed \cup {me.acct} ELSE me.failed
           state == [me EXCEPT !.pc = "release", !.ok = done, !.failed = lost]
<1>1. /\ me \in WorkerType /\ me.pc = "chunk" /\ me.todo = {} /\ me.acct \in Accounts
      /\ Become(w, state) /\ UNCHANGED <<lock, stamp, conn, owed>>
    BY AtWorker DEF EndAccount, At, AccountPoints
<1>2. me.batch = {} /\ me.asserted = {}
    BY <1>1, AtWorker DEF Accounted, Testing, Writing
<1>3. \A a \in Accounts, r \in Rows : <<a, r>> \in owed[w] =>
          a \in me.failed \/ (a = me.acct /\ me.bad)
    BY <1>1, <1>2, AtWorker DEF Accounted, InHand
<1>4. done \in SUBSET Accounts /\ lost \in SUBSET Accounts
    BY <1>1 DEF WorkerType
<1>5. \A a \in Accounts : a \in me.failed \/ (a = me.acct /\ me.bad) => a \in lost
    OBVIOUS
<1> HIDE DEF done, lost
<1>6. /\ state \in WorkerType /\ state.pc = "release" /\ state.token = me.token
      /\ state.acct = me.acct /\ state.batch = me.batch /\ state.asserted = me.asserted
      /\ state.failed = lost
    BY <1>1, <1>4 DEF WorkerType, Active, AccountPoints
<1> HIDE DEF state
<1>7. GoodState(w, state, owed[w])
    BY <1>1, <1>2, <1>3, <1>5, <1>6, AtWorker
       DEF GoodState, Accounted, Gathering, Testing, Writing, OutcomePoints
<1> QED BY <1>1, <1>6, <1>7, LocksStand, LocalStep DEF SyncInv

LEMMA TurnStep ==
    ASSUME SyncInv, NEW w \in Workers, NEW failed \in SUBSET Accounts, NextTurn(w, failed),
           LocksGrow, UNCHANGED <<stamp, conn, owed>>,
           worker[w].pc \in {"release", "abandon"},
           \A a \in Accounts, r \in Rows : <<a, r>> \in owed[w] =>
               a \in worker[w].failed \/ a \in failed
    PROVE  SyncInv'
<1> DEFINE me == worker[w]
           point == IF me.revoked THEN "revoke" ELSE "accounts"
           lost == me.failed \cup failed
           state == [me EXCEPT !.pc = point, !.acct = Conn, !.todo = {}, !.batch = {},
                               !.asserted = {}, !.bad = FALSE, !.failed = lost]
<1>1. me \in WorkerType /\ Become(w, state)
    BY AtWorker DEF NextTurn
<1>2. point \in {"revoke", "accounts"}
    OBVIOUS
<1>3. lost \in SUBSET Accounts
    BY <1>1 DEF WorkerType
<1>4. \A a \in Accounts, r \in Rows : <<a, r>> \in owed[w] => a \in lost
    OBVIOUS
<1> HIDE DEF point, lost
<1>5. /\ state \in WorkerType /\ state.pc = point /\ state.token = me.token
      /\ state.batch = {} /\ state.asserted = {} /\ state.failed = lost
    BY <1>1, <1>2, <1>3 DEF WorkerType, Active
<1> HIDE DEF state
<1>6. GoodState(w, state, owed[w])
    BY <1>2, <1>4, <1>5, AtWorker
       DEF GoodState, Accounted, Gathering, Testing, Writing, OutcomePoints, AccountPoints
<1> QED BY <1>1, <1>5, <1>6, LocalStep

LEMMA ReleaseAccountStep == ASSUME SyncInv, NEW w \in Workers, ReleaseAccount(w) PROVE SyncInv'
<1>1. /\ worker[w].pc = "release" /\ worker[w].acct \in Scopes /\ ReleaseLock(worker[w].acct, w)
      /\ NextTurn(w, {}) /\ UNCHANGED <<stamp, conn, owed>>
    BY AtWorker DEF ReleaseAccount, At, AccountPoints
<1>2. \A a \in Accounts, r \in Rows : <<a, r>> \in owed[w] => a \in worker[w].failed
    BY <1>1, AtWorker DEF Accounted, Gathering
<1> QED BY <1>1, <1>2, ReleaseGrows, TurnStep DEF SyncInv

LEMMA AbandonStep == ASSUME SyncInv, NEW w \in Workers, Abandon(w) PROVE SyncInv'
<1>1. /\ worker[w].pc = "abandon" /\ worker[w].acct \in Accounts /\ ReleaseLock(worker[w].acct, w)
      /\ NextTurn(w, {worker[w].acct}) /\ UNCHANGED <<stamp, conn, owed>>
    BY AtWorker DEF Abandon, At, AccountPoints
<1>2. \A a \in Accounts, r \in Rows :
          <<a, r>> \in owed[w] => a \in worker[w].failed \/ a \in {worker[w].acct}
    BY <1>1, AtWorker DEF Accounted
<1>3. LocksGrow
    BY <1>1, ReleaseGrows DEF SyncInv
<1> QED BY <1>1, <1>2, <1>3, TurnStep

(* The worker after the revocation, or after a failure to record it.         *)
LEMMA LeftState ==
    ASSUME SyncInv, NEW w \in Workers, worker[w].pc = "revoke"
    PROVE  LET state == [worker[w] EXCEPT !.pc = "accounts", !.left = {}, !.revoked = FALSE]
           IN  GoodState(w, state, owed[w]) /\ state.token = worker[w].token
<1> DEFINE me == worker[w]
           state == [me EXCEPT !.pc = "accounts", !.left = {}, !.revoked = FALSE]
<1>1. /\ state \in WorkerType /\ state.pc = "accounts" /\ state.token = me.token
      /\ state.batch = me.batch /\ state.asserted = me.asserted /\ state.failed = me.failed
    BY AtWorker, ZenonT(30) DEF WorkerType, Active
<1> HIDE DEF state
<1>2. GoodState(w, state, owed[w])
    BY <1>1, AtWorker
       DEF GoodState, Accounted, Gathering, Testing, Writing, OutcomePoints, AccountPoints
<1> QED BY <1>1, <1>2 DEF state

LEMMA RevokeStep == ASSUME SyncInv, NEW w \in Workers, Revoke(w) PROVE SyncInv'
<1> DEFINE state == [worker[w] EXCEPT !.pc = "accounts", !.left = {}, !.revoked = FALSE]
<1>1. /\ worker[w].pc = "revoke" /\ Become(w, state) /\ UNCHANGED <<lock, stamp, owed>>
      /\ conn' = [conn EXCEPT !.status = "disconnected"]
    BY DEF Revoke, At
<1>2. GoodState(w, state, owed[w]) /\ state.token = worker[w].token
    BY <1>1, LeftState
<1> HIDE DEF state
<1>3. /\ conn' \in [status : {"connected", "disconnected"}, outcome : Outcomes \cup {"none"},
                    writer : Workers \cup {NoWorker}]
      /\ conn'.outcome = conn.outcome /\ conn'.writer = conn.writer
    BY <1>1 DEF SyncInv, TypeOK
<1>4. conn.outcome = "success" => conn.writer # w
    BY <1>1 DEF SyncInv, SuccessSettled
<1>5. GoodConn(w, state, owed[w])
    BY <1>3, <1>4 DEF GoodConn
<1>6. owed' = [owed EXCEPT ![w] = owed[w]]
    BY <1>1 DEF SyncInv, TypeOK
<1>7. GoodStamps(w) /\ GoodTokens(w, state)
    BY <1>1, <1>2 DEF GoodStamps, GoodTokens, SyncInv, TypeOK
<1> QED BY <1>1, <1>2, <1>5, <1>6, <1>7, LocksStand, WorkerStep DEF SyncInv

(* Going on between the assertion, the update and the release.               *)
LEMMA OutcomeMove ==
    ASSUME SyncInv, NEW w \in Workers, NEW point \in {"write", "unlock"}, Goto(w, point),
           UNCHANGED <<lock, stamp, conn, owed>>, worker[w].pc \in {"assert", "write"}
    PROVE  SyncInv'
<1> DEFINE me == worker[w]
           state == [me EXCEPT !.pc = point]
<1>1. /\ state.pc = point /\ state.batch = me.batch /\ state.asserted = me.asserted
      /\ state.outcome = me.outcome
    BY MovedState DEF Active, OutcomePoints
<1> HIDE DEF state
<1>2. Accounted(state, owed[w])
    BY <1>1, AtWorker DEF Accounted, Gathering, Testing, Writing, OutcomePoints
<1> QED BY <1>2, GotoStep, LocksStand DEF SyncInv, Active, OutcomePoints, AccountPoints, state

LEMMA AssertOutcomeStep == ASSUME SyncInv, NEW w \in Workers, AssertOutcome(w) PROVE SyncInv'
BY OutcomeMove DEF AssertOutcome, At

LEMMA PersistOutcomeStep == ASSUME SyncInv, NEW w \in Workers, PersistOutcome(w) PROVE SyncInv'
<1> DEFINE me == worker[w]
           state == [me EXCEPT !.pc = "unlock"]
<1>1. /\ me \in WorkerType /\ me.pc = "write" /\ Goto(w, "unlock") /\ UNCHANGED <<lock, stamp, owed>>
      /\ conn' = IF conn.status = "disconnected" THEN conn
                 ELSE [conn EXCEPT !.outcome = Recorded(w), !.writer = w]
    BY AtWorker DEF PersistOutcome, At
<1>2. CASE conn.status = "disconnected"
    BY <1>1, <1>2, OutcomeMove
<1>3. CASE conn.status # "disconnected"
    <2>1. /\ state \in WorkerType /\ state.pc = "unlock" /\ state.token = me.token
          /\ state.batch = me.batch /\ state.asserted = me.asserted
        BY MovedState DEF Active
    <2>2. Become(w, state)
        BY <1>1 DEF Goto
    <2> HIDE DEF state
    <2>3. GoodState(w, state, owed[w])
        BY <1>1, <2>1, AtWorker
           DEF GoodState, Accounted, Gathering, Testing, Writing, OutcomePoints, AccountPoints
    <2>4. Recorded(w) \in Outcomes \cup {"none"} /\ (Recorded(w) = "success" => me.outcome = "success")
        BY <1>1 DEF Recorded, Outcomes, WorkerType
    <2>5. me.outcome = "success" => owed[w] = {}
        BY <1>1, AtWorker DEF Accounted, OutcomePoints
    <2> DEFINE verdict == Recorded(w)
    <2>6. conn' = [conn EXCEPT !.outcome = verdict, !.writer = w]
        BY <1>1, <1>3
    <2> HIDE DEF verdict
    <2>7. /\ conn' \in [status : {"connected", "disconnected"}, outcome : Outcomes \cup {"none"},
                        writer : Workers \cup {NoWorker}]
          /\ conn'.outcome = verdict /\ conn'.writer = w
        BY <2>4, <2>6 DEF SyncInv, TypeOK, verdict
    <2>8. GoodConn(w, state, owed[w])
        BY <2>1, <2>4, <2>5, <2>7 DEF GoodConn, verdict
    <2>9. owed' = [owed EXCEPT ![w] = owed[w]]
        BY <1>1 DEF SyncInv, TypeOK
    <2>10. GoodStamps(w) /\ GoodTokens(w, state)
        BY <1>1, <2>1 DEF GoodStamps, GoodTokens, SyncInv, TypeOK
    <2> QED BY <1>1, <2>2, <2>3, <2>8, <2>9, <2>10, LocksStand, WorkerStep DEF SyncInv
<1> QED BY <1>2, <1>3

LEMMA ReleaseConnectionStep ==
    ASSUME SyncInv, NEW w \in Workers, ReleaseConnection(w) PROVE SyncInv'
<1>1. LocksGrow
    BY ReleaseGrows DEF ReleaseConnection, SyncInv
<1> QED BY <1>1, EndState, LocalStep DEF ReleaseConnection, End

LEMMA CrashStep == ASSUME SyncInv, NEW w \in Workers, Crash(w) PROVE SyncInv'
<1>1. LocksGrow
    BY LocksStand DEF Crash, SyncInv
<1> QED BY <1>1, EndState, LocalStep DEF Crash, End

LEMMA StatementFailsStep == ASSUME SyncInv, NEW w \in Workers, StatementFails(w) PROVE SyncInv'
<1> DEFINE me == worker[w]
<1>1. me \in WorkerType /\ UNCHANGED <<lock, stamp, conn, owed>> /\ LocksGrow
    BY AtWorker, LocksStand DEF StatementFails, SyncInv
<1>2. CASE me.pc \in {"chunk", "recheck", "release"} /\ Goto(w, "abandon")
    <2> DEFINE state == [me EXCEPT !.pc = "abandon"]
    <2>1. /\ state.pc = "abandon" /\ state.acct = me.acct /\ state.batch = me.batch
          /\ state.asserted = me.asserted /\ state.failed = me.failed
        BY MovedState DEF Active, AccountPoints
    <2>2. me.acct \in Accounts
        BY <1>2, AtWorker DEF AccountPoints
    <2> HIDE DEF state
    <2>3. Accounted(state, owed[w])
        BY <1>2, <2>1, AtWorker DEF Accounted, Gathering, Testing, Writing, OutcomePoints
    <2> QED BY <1>1, <1>2, <2>2, <2>3, GotoStep DEF Active, AccountPoints, state
<1>3. ASSUME NEW outcome \in {"thrown", "failed"}, Record(w, outcome), me.pc \notin {"unlock", "ended"}
      PROVE  SyncInv'
    <2> DEFINE state == [Idle EXCEPT !.pc = "assert", !.token = worker[w].token, !.outcome = outcome]
    <2>1. Become(w, state) /\ GoodState(w, state, owed[w]) /\ state.token = me.token
        BY <1>3, RecordState DEF Record, Outcomes
    <2> HIDE DEF state
    <2> QED BY <1>1, <1>3, <2>1, LocalStep
<1>4. CASE At(w, "revoke") /\ Become(w, [me EXCEPT !.pc = "accounts", !.left = {}, !.revoked = FALSE])
    <2> DEFINE state == [me EXCEPT !.pc = "accounts", !.left = {}, !.revoked = FALSE]
    <2>1. Become(w, state) /\ GoodState(w, state, owed[w]) /\ state.token = me.token /\ me.pc = "revoke"
        BY <1>4, LeftState DEF At
    <2> HIDE DEF state
    <2> QED BY <1>1, <2>1, LocalStep
<1>5. CASE me.pc \in {"assert", "write"} /\ Goto(w, "unlock")
    BY <1>1, <1>5, OutcomeMove
<1> QED BY <1>2, <1>3, <1>4, <1>5 DEF StatementFails, At

-----------------------------------------------------------------------------
(* A step that leaves workers and debts alone.                               *)
LEMMA OutsideStep ==
    ASSUME SyncInv, UNCHANGED <<worker, stamp, owed>>, LocksGrow,
           conn' \in [status : {"connected", "disconnected"}, outcome : Outcomes \cup {"none"},
                      writer : Workers \cup {NoWorker}],
           conn'.outcome = "success" => UNCHANGED conn
    PROVE  SyncInv'
<1> USE DEF SyncInv
<1>1. TypeOK'
    BY DEF TypeOK, LocksGrow
<1>2. \A s \in Scopes : lock[s].fence \in Nat /\ lock'[s].fence \in Nat
    BY DEF TypeOK, LocksGrow, LockType
<1>3. \A w \in Workers, s \in Scopes : worker[w].token[s] \in Nat
    BY DEF TypeOK, WorkerType
<1>4. \A a \in Accounts, r \in Rows : stamp[a][r] \in Nat
    BY DEF TypeOK
<1>5. TokensUnique' /\ DebtsKnown'
    BY DEF TokensUnique, DebtsKnown
<1>6. TokensBelow'
    BY <1>2, <1>3 DEF TokensBelow, LocksGrow
<1>7. StampsBelow'
    BY <1>2, <1>4 DEF StampsBelow, LocksGrow
<1>8. SuccessSettled'
    BY DEF SuccessSettled
<1> QED BY <1>1, <1>5, <1>6, <1>7, <1>8

LEMMA SyncInvStep == SyncInv /\ [Next]_vars => SyncInv'
<1> SUFFICES ASSUME SyncInv, [Next]_vars PROVE SyncInv'
    OBVIOUS
<1>1. ASSUME NEW w \in Workers, AcquireConnection(w) \/ Step(w) \/ StatementFails(w) \/ Crash(w)
      PROVE  SyncInv'
    BY <1>1, AcquireConnectionStep, NextAccountStep, SummarizeStep, FetchStep, StartChunkStep,
       BeginBulkStep, WriteBulkStep, RecheckStep, AssertRowStep, UpsertRowStep, EndChunkStep,
       EndAccountStep, ReleaseAccountStep, AbandonStep, RevokeStep, AssertOutcomeStep,
       PersistOutcomeStep,
       ReleaseConnectionStep, StatementFailsStep, CrashStep DEF Step
<1>2. ASSUME NEW s \in Scopes, LeaseExpires(s) PROVE SyncInv'
    BY <1>2, ExpiryGrows, OutsideStep DEF LeaseExpires, SyncInv, TypeOK
<1>3. CASE ForceSync
    BY <1>3, ForceGrows, OutsideStep DEF ForceSync, SyncInv, TypeOK
<1>4. CASE Disconnect
    <2>1. conn' = [conn EXCEPT !.status = "disconnected", !.outcome = "none", !.writer = NoWorker]
        BY <1>4 DEF Disconnect
    <2>2. /\ conn' \in [status : {"connected", "disconnected"}, outcome : Outcomes \cup {"none"},
                        writer : Workers \cup {NoWorker}]
          /\ conn'.outcome = "none"
        BY <2>1 DEF SyncInv, TypeOK
    <2> QED BY <1>4, <2>2, LocksStand, OutsideStep DEF Disconnect, SyncInv
<1>5. CASE Reconnect
    BY <1>5, LocksStand, OutsideStep DEF Reconnect, SyncInv
<1>6. CASE UNCHANGED vars
    BY <1>6, LocksStand, OutsideStep DEF vars, SyncInv, TypeOK
<1> QED BY <1>1, <1>2, <1>3, <1>4, <1>5, <1>6 DEF Next

LEMMA SyncAlways == Spec => []SyncInv
BY SyncInvInit, SyncInvStep, PTL DEF Spec

-----------------------------------------------------------------------------
(* The locks, the workers, the rows and the connection stay well typed.      *)
THEOREM SyncTyped == Spec => []TypeOK
<1>1. SyncInv => TypeOK
    BY DEF SyncInv
<1> QED BY <1>1, SyncAlways, PTL

(* No fencing token is given out twice for one scope (acquireMetaSyncLock,   *)
(* acquireConnectionSyncLease, the force option).                            *)
THEOREM FencesAreUnique == Spec => []TokensUnique
<1>1. SyncInv => TokensUnique
    BY DEF SyncInv
<1> QED BY <1>1, SyncAlways, PTL

(* A success on the connection was recorded by a worker that has itself      *)
(* written every row it fetched (ingestMetaRows, summarizeSyncOutcome).      *)
THEOREM SuccessIsWritten == Spec => []SuccessMeansWritten
<1>1. SyncInv => SuccessMeansWritten
    BY DEF SyncInv, SuccessSettled, SuccessMeansWritten
<1> QED BY <1>1, SyncAlways, PTL

(* The only way back to older data is the gap between a lease test that      *)
(* passed and the write behind it: the assertion and the upsert of a row     *)
(* (upsertMetaMetric), the snapshot and the row locks of a bulk statement    *)
(* (buildMetaBulkUpsert).                                                    *)
Regression == \A a \in Accounts, r \in Rows : stamp'[a][r] < stamp[a][r] =>
                  \E w \in Workers : r \in worker[w].asserted /\ ~LeaseOk(w)

(* Who writes with its fence in force cannot take a row back.                *)
LEMMA WriteUnderLease ==
    ASSUME SyncInv, NEW w \in Workers, NEW rows \in SUBSET Rows, Written(w, rows), LeaseOk(w),
           worker[w].acct \in Accounts
    PROVE  \A a \in Accounts, r \in Rows : ~(stamp'[a][r] < stamp[a][r])
<1> SUFFICES ASSUME NEW a \in Accounts, NEW r \in Rows PROVE ~(stamp'[a][r] < stamp[a][r])
    OBVIOUS
<1>1. /\ stamp[a][r] \in Nat /\ stamp[a][r] <= lock[a].fence /\ lock[a].fence \in Nat
      /\ stamp \in [Accounts -> [Rows -> Nat]]
    BY DEF SyncInv, StampsBelow, TypeOK, LockType
<1>2. lock[worker[w].acct].fence = worker[w].token[worker[w].acct]
    BY DEF LeaseOk, Owns
<1>3. a # worker[w].acct => stamp'[a][r] = stamp[a][r]
    BY <1>1 DEF Written
<1>4. a = worker[w].acct => stamp'[a][r] = stamp[a][r] \/ stamp'[a][r] = worker[w].token[a]
    BY <1>1 DEF Written
<1> QED BY <1>1, <1>2, <1>3, <1>4

LEMMA RegressionStep == SyncInv /\ [Next]_vars => Regression
<1> SUFFICES ASSUME SyncInv, [Next]_vars PROVE Regression
    OBVIOUS
<1>1. CASE UNCHANGED stamp
    <2>1. \A a \in Accounts, r \in Rows : stamp[a][r] \in Nat
        BY DEF SyncInv, TypeOK
    <2> QED BY <1>1, <2>1 DEF Regression
<1>2. ASSUME NEW w \in Workers, NEW rows \in SUBSET worker[w].asserted, Written(w, rows),
             worker[w].pc \in AccountPoints
      PROVE  Regression
    <2>1. worker[w].acct \in Accounts /\ rows \in SUBSET Rows
        BY <1>2, AtWorker DEF WorkerType
    <2>2. CASE ~LeaseOk(w)
        <3>1. \A a \in Accounts, r \in Rows : r \notin rows => stamp'[a][r] = stamp[a][r]
            BY <1>2, <2>1 DEF Written, SyncInv, TypeOK
        <3>2. \A a \in Accounts, r \in Rows : stamp[a][r] \in Nat
            BY DEF SyncInv, TypeOK
        <3> QED BY <1>2, <2>2, <3>1, <3>2 DEF Regression
    <2> QED BY <1>2, <2>1, <2>2, WriteUnderLease DEF Regression
<1>3. ASSUME NEW w \in Workers, WriteBulk(w) \/ UpsertRow(w) PROVE Regression
    <2>1. (\E rows \in SUBSET worker[w].asserted : Written(w, rows)) \/ UNCHANGED stamp
        BY <1>3 DEF WriteBulk, UpsertRow
    <2>2. worker[w].pc \in AccountPoints
        BY <1>3 DEF WriteBulk, UpsertRow, At, AccountPoints
    <2> QED BY <1>1, <1>2, <2>1, <2>2
<1>4. \/ \E w \in Workers : WriteBulk(w) \/ UpsertRow(w)
      \/ UNCHANGED stamp
    BY DEF Next, Step, vars, AcquireConnection, NextAccount, Summarize, Fetch, StartChunk,
       BeginBulk, Recheck, AssertRow, EndChunk, EndAccount, ReleaseAccount, Abandon, Revoke,
       AssertOutcome,
       PersistOutcome, ReleaseConnection, StatementFails, Crash, LeaseExpires, ForceSync,
       Disconnect, Reconnect
<1> QED BY <1>1, <1>2, <1>3, <1>4

THEOREM RegressionsExplained == Spec => RegressionOnlyInTheGap
<1>1. Spec => [][Regression]_vars
    BY RegressionStep, SyncAlways, PTL DEF Spec
<1> QED BY <1>1 DEF Regression, RegressionOnlyInTheGap

(* An outcome that is written late does not reconnect what the user has      *)
(* disconnected (persistConnectionSyncOutcome, handleMetaRevocation).        *)
StaysDisconnected ==
    worker' # worker /\ conn.status = "disconnected" => conn'.status = "disconnected"

LEMMA DisconnectedStep == SyncInv /\ [Next]_vars => StaysDisconnected
<1> SUFFICES ASSUME SyncInv, [Next]_vars, worker' # worker, conn.status = "disconnected"
             PROVE  conn'.status = "disconnected"
    BY DEF StaysDisconnected
<1>1. ASSUME NEW w \in Workers, Revoke(w) PROVE conn'.status = "disconnected"
    BY <1>1 DEF Revoke, SyncInv, TypeOK
<1>2. (\E w \in Workers : Revoke(w)) \/ UNCHANGED conn
    BY DEF Next, Step, vars, AcquireConnection, NextAccount, Summarize, Fetch, StartChunk,
       BeginBulk, WriteBulk, Recheck, AssertRow, UpsertRow, EndChunk, EndAccount, ReleaseAccount,
       Abandon,
       AssertOutcome, PersistOutcome, ReleaseConnection, StatementFails, Crash, LeaseExpires,
       ForceSync, Disconnect, Reconnect
<1> QED BY <1>1, <1>2

THEOREM NobodyReconnects == Spec => WorkersDoNotReconnect
<1>1. Spec => [][StaysDisconnected]_vars
    BY DisconnectedStep, SyncAlways, PTL DEF Spec
<1> QED BY <1>1 DEF StaysDisconnected, WorkersDoNotReconnect
=============================================================================
