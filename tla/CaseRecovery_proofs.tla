------------------------- MODULE CaseRecovery_proofs --------------------------
(* Theorems about CaseRecovery, for any number of episodes, operations and   *)
(* workers and any number of losses.                                         *)
EXTENDS CaseRecovery, TLAPS

USE RecoveryAssumption

-----------------------------------------------------------------------------
(* The inductive invariant.  An operation in progress has losses to spare    *)
(* and is about a case; the cases of a fingerprint open one after the other; *)
(* a worker that is busy has an operation; and a page that is current has    *)
(* shown every finding.                                                      *)
OperationOK(row) ==
    /\ row \in OperationType
    /\ row.state = "running" <=> row.owner # NoWorker
    /\ row.state \in {"none", "queued", "running"} => row.attempts < MaxLosses
    /\ row.state # "none" => row.of \in Episodes

OperationsOK == /\ operation \in [Operations -> OperationType]
                /\ \A o \in Operations : OperationOK(operation[o])

CasesOK == /\ responsibility \in Standings
           /\ agentCase \in [Episodes -> {"none", "open", "manual", "verified"}]
           /\ \A d, e \in Episodes : d < e /\ agentCase[e] # "none"
                                       => agentCase[d] \in {"manual", "verified"}

RecoveryJobsOK == recoveryJob \in [Operations -> RecoveryJobType]

WorkersOK ==
    /\ worker \in [Workers -> [pc : {"idle", "fence", "import", "verify", "over"},
                               op : Operations \cup {0}]]
    /\ \A w \in Workers : worker[w].pc \in {"fence", "import", "verify"} => worker[w].op \in Operations

PageOK == page \in PageType /\ (page.current => ~page.unseen)

RecoveryInv == CasesOK /\ OperationsOK /\ RecoveryJobsOK /\ WorkersOK /\ PageOK /\ CompletedMeansImported

LEMMA RecoveryInvInit == RecoveryInit => RecoveryInv
<1> SUFFICES ASSUME RecoveryInit PROVE RecoveryInv
    OBVIOUS
<1>1. CasesOK /\ RecoveryJobsOK /\ WorkersOK /\ PageOK
    BY DEF RecoveryInit, CasesOK, RecoveryJobsOK, WorkersOK, PageOK, Standings, RecoveryJobType, JobRow,
       PageType
<1>2. ASSUME NEW o \in Operations PROVE OperationOK(operation[o])
    BY DEF RecoveryInit, OperationOK, OperationType
<1>3. OperationsOK
    BY <1>2 DEF OperationsOK, OperationOK, RecoveryInit, OperationType
<1>4. CompletedMeansImported
    BY DEF RecoveryInit, CompletedMeansImported
<1> QED BY <1>1, <1>3, <1>4 DEF RecoveryInv

LEMMA InvImpliesType == RecoveryInv => RecoveryTypeOK
<1> SUFFICES ASSUME RecoveryInv PROVE RecoveryTypeOK
    OBVIOUS
<1>1. \A d, e \in Episodes : agentCase[d] = "open" /\ agentCase[e] = "open" => d = e
    <2> SUFFICES ASSUME NEW d \in Episodes, NEW e \in Episodes,
                        agentCase[d] = "open", agentCase[e] = "open", d # e
                 PROVE  FALSE
        OBVIOUS
    <2>1. d < e \/ e < d
        OBVIOUS
    <2> QED BY <2>1 DEF RecoveryInv, CasesOK
<1>2. ASSUME NEW o \in Operations
      PROVE  (operation[o].state = "running") = (operation[o].owner # NoWorker)
    BY DEF RecoveryInv, OperationsOK, OperationOK
<1> QED BY <1>1, <1>2 DEF RecoveryInv, CasesOK, OperationsOK, RecoveryJobsOK, WorkersOK, PageOK,
       RecoveryTypeOK

-----------------------------------------------------------------------------
(* What a step has to leave alone for the verdicts to stand.                 *)
VerdictKept ==
    /\ \A e \in Episodes : /\ agentCase[e] \in {"manual", "verified"} => agentCase'[e] = agentCase[e]
                           /\ IsOpen(e) /\ agentCase'[e] = "manual" => ~page.unseen
    /\ \A o \in Operations : operation[o].state \in {"completed", "failed"}
                               => operation'[o].state = operation[o].state

NothingCompletes ==
    \A o \in Operations : operation'[o].state = "completed" =>
        /\ operation[o].state = "completed" /\ operation'[o].of = operation[o].of
        /\ recoveryJob[o].status = "completed" => recoveryJob'[o].status = "completed"

(* Without a new completed operation what stood for the old ones still does. *)
LEMMA CompletedStaysImported ==
    ASSUME RecoveryInv, NothingCompletes, VerdictKept
    PROVE  CompletedMeansImported'
<1> SUFFICES ASSUME NEW o \in Operations, operation'[o].state = "completed"
             PROVE  recoveryJob'[o].status = "completed" /\ agentCase'[operation'[o].of] = "verified"
    BY DEF CompletedMeansImported
<1>1. /\ operation[o].state = "completed" /\ operation'[o].of = operation[o].of
      /\ recoveryJob[o].status = "completed" => recoveryJob'[o].status = "completed"
    BY DEF NothingCompletes
<1>2. recoveryJob[o].status = "completed" /\ agentCase[operation[o].of] = "verified"
    BY <1>1 DEF RecoveryInv, CompletedMeansImported
<1>3. operation[o].of \in Episodes
    BY <1>1 DEF RecoveryInv, OperationsOK, OperationOK
<1>4. agentCase'[operation[o].of] = "verified"
    BY <1>2, <1>3 DEF VerdictKept
<1> QED BY <1>1, <1>2, <1>4

(* reconcileLostOperationLeases keeps a row in order, and touches only rows  *)
(* that are being worked on.                                                 *)
LEMMA ReconciledOK ==
    ASSUME NEW o \in Operations, OperationOK(operation[o])
    PROVE  /\ OperationOK(Reconciled(o)) /\ Reconciled(o).of = operation[o].of
           /\ operation[o].state # "running" => Reconciled(o) = operation[o]
           /\ operation[o].state = "running" => Reconciled(o).state \in {"queued", "running", "failed"}
<1> DEFINE row == operation[o]
           state == IF row.attempts + 1 >= MaxLosses THEN "failed" ELSE "queued"
<1>1. CASE row.state # "running" \/ row.live
    BY <1>1 DEF Reconciled, OperationOK
<1>2. CASE ~(row.state # "running" \/ row.live)
    <2>1. row \in OperationType /\ row.attempts \in Nat /\ row.attempts < MaxLosses
        BY <1>2 DEF OperationOK, OperationType
    <2>2. Reconciled(o) = [state |-> state, of |-> row.of, owner |-> NoWorker, live |-> FALSE,
                           attempts |-> row.attempts + 1, policy |-> row.policy, latest |-> row.latest]
        BY <1>2, <2>1 DEF Reconciled, NoLease, OperationType
    <2>3. row.attempts + 1 \in 0 .. MaxLosses /\ (state = "queued" => row.attempts + 1 < MaxLosses)
        BY <2>1
    <2>4. state \in {"queued", "failed"} /\ row.of \in Episodes
        BY <1>2 DEF OperationOK
    <2> QED BY <1>2, <2>1, <2>2, <2>3, <2>4 DEF OperationOK, OperationType
<1> QED BY <1>1, <1>2

(* Every row may lose the marks of being current, which nothing rests on.    *)
LEMMA MarksLost ==
    ASSUME OperationsOK, NEW o \in Operations, NEW b \in BOOLEAN
    PROVE  /\ OperationOK([operation[o] EXCEPT !.latest = b])
           /\ OperationOK([operation[o] EXCEPT !.policy = b])
           /\ [operation[o] EXCEPT !.latest = b].state = operation[o].state
           /\ [operation[o] EXCEPT !.policy = b].state = operation[o].state
           /\ [operation[o] EXCEPT !.latest = b].of = operation[o].of
           /\ [operation[o] EXCEPT !.policy = b].of = operation[o].of
BY DEF OperationsOK, OperationOK, OperationType

LEMMA VersionMovesOK ==
    ASSUME OperationsOK, NEW e \in Episodes, VersionMoves(e)
    PROVE  OperationsOK' /\ \A o \in Operations : /\ operation'[o].state = operation[o].state
                                            /\ operation'[o].of = operation[o].of
<1>1. ASSUME NEW o \in Operations
      PROVE  OperationOK(operation'[o]) /\ operation'[o].state = operation[o].state
             /\ operation'[o].of = operation[o].of
    <2>1. (operation[o].latest /\ operation[o].of # e) \in BOOLEAN
        OBVIOUS
    <2>2. operation'[o] = [operation[o] EXCEPT !.latest = (operation[o].latest /\ operation[o].of # e)]
        BY DEF VersionMoves
    <2> QED BY <2>1, <2>2, MarksLost
<1>2. operation' \in [Operations -> OperationType]
    BY <1>1 DEF VersionMoves, OperationOK
<1> QED BY <1>1, <1>2 DEF OperationsOK

(* A worker that moves on keeps its operation unless it is over.             *)
LEMMA StandsOK ==
    ASSUME WorkersOK, NEW w \in Workers, NEW point \in {"import", "verify", "over"},
           worker[w].pc \in {"fence", "import", "verify"}, StandsAt(w, point)
    PROVE  WorkersOK'
BY DEF WorkersOK, StandsAt

(* The rows that requests, heartbeats and verifications write, one column    *)
(* after the other: a column is written and the others keep their values.    *)
LEMMA PutState ==
    ASSUME NEW row \in OperationType, NEW v \in {"none", "queued", "running", "completed", "failed"}
    PROVE  LET new == [row EXCEPT !.state = v]
           IN  /\ new \in OperationType /\ new.state = v
               /\ new.of = row.of /\ new.owner = row.owner /\ new.live = row.live
               /\ new.attempts = row.attempts /\ new.policy = row.policy /\ new.latest = row.latest
BY DEF OperationType

LEMMA PutOf ==
    ASSUME NEW row \in OperationType, NEW v \in Episodes \cup {0}
    PROVE  LET new == [row EXCEPT !.of = v]
           IN  /\ new \in OperationType /\ new.of = v
               /\ new.state = row.state /\ new.owner = row.owner /\ new.live = row.live
               /\ new.attempts = row.attempts /\ new.policy = row.policy /\ new.latest = row.latest
BY DEF OperationType

LEMMA PutOwner ==
    ASSUME NEW row \in OperationType, NEW v \in Workers \cup {NoWorker}
    PROVE  LET new == [row EXCEPT !.owner = v]
           IN  /\ new \in OperationType /\ new.owner = v
               /\ new.state = row.state /\ new.of = row.of /\ new.live = row.live
               /\ new.attempts = row.attempts /\ new.policy = row.policy /\ new.latest = row.latest
BY DEF OperationType

LEMMA PutJobLive ==
    ASSUME NEW row \in OperationType, NEW v \in BOOLEAN
    PROVE  LET new == [row EXCEPT !.live = v]
           IN  /\ new \in OperationType /\ new.live = v
               /\ new.state = row.state /\ new.of = row.of /\ new.owner = row.owner
               /\ new.attempts = row.attempts /\ new.policy = row.policy /\ new.latest = row.latest
BY DEF OperationType

LEMMA PutPolicy ==
    ASSUME NEW row \in OperationType, NEW v \in BOOLEAN
    PROVE  LET new == [row EXCEPT !.policy = v]
           IN  /\ new \in OperationType /\ new.policy = v
               /\ new.state = row.state /\ new.of = row.of /\ new.owner = row.owner
               /\ new.live = row.live /\ new.attempts = row.attempts /\ new.latest = row.latest
BY DEF OperationType

LEMMA PutLatest ==
    ASSUME NEW row \in OperationType, NEW v \in BOOLEAN
    PROVE  LET new == [row EXCEPT !.latest = v]
           IN  /\ new \in OperationType /\ new.latest = v
               /\ new.state = row.state /\ new.of = row.of /\ new.owner = row.owner
               /\ new.live = row.live /\ new.attempts = row.attempts /\ new.policy = row.policy
BY DEF OperationType

LEMMA NewRowOK ==
    ASSUME NEW row, OperationOK(row), row.state = "none", NEW e \in Episodes
    PROVE  LET new == [row EXCEPT !.state = "queued", !.of = e, !.policy = TRUE, !.latest = TRUE]
           IN  OperationOK(new) /\ new.state = "queued"
<1> DEFINE a == [row EXCEPT !.state = "queued"]
           b == [a EXCEPT !.of = e]
           c == [b EXCEPT !.policy = TRUE]
           d == [c EXCEPT !.latest = TRUE]
<1>1. row \in OperationType
    BY DEF OperationOK
<1>2. [row EXCEPT !.state = "queued", !.of = e, !.policy = TRUE, !.latest = TRUE] = d
    BY Zenon
<1>3. a \in OperationType /\ a.state = "queued" /\ a.of = row.of
      /\ a.owner = row.owner /\ a.attempts = row.attempts
    BY <1>1, PutState
<1> HIDE DEF a
<1>4. b \in OperationType /\ b.state = "queued" /\ b.of = e
      /\ b.owner = row.owner /\ b.attempts = row.attempts
    BY <1>1, <1>3, PutOf
<1> HIDE DEF b
<1>5. c \in OperationType /\ c.state = "queued" /\ c.of = e
      /\ c.owner = row.owner /\ c.attempts = row.attempts
    BY <1>1, <1>4, PutPolicy
<1> HIDE DEF c
<1>6. d \in OperationType /\ d.state = "queued" /\ d.of = e
      /\ d.owner = row.owner /\ d.attempts = row.attempts
    BY <1>1, <1>5, PutLatest
<1> HIDE DEF d
<1> QED BY <1>2, <1>6 DEF OperationOK

LEMMA QueuedRowOK ==
    ASSUME NEW row, OperationOK(row), row.state \in {"queued", "running"}
    PROVE  LET new == [NoLease(row) EXCEPT !.state = "queued"]
           IN  OperationOK(new) /\ new.state = "queued"
<1> DEFINE a == [row EXCEPT !.owner = NoWorker]
           b == [a EXCEPT !.live = FALSE]
           c == [b EXCEPT !.state = "queued"]
<1>1. row \in OperationType
    BY DEF OperationOK
<1>2. [NoLease(row) EXCEPT !.state = "queued"] = c
    BY Zenon DEF NoLease
<1>3. a \in OperationType /\ a.state = row.state /\ a.of = row.of
      /\ a.owner = NoWorker /\ a.attempts = row.attempts
    BY <1>1, PutOwner
<1> HIDE DEF a
<1>4. b \in OperationType /\ b.state = row.state /\ b.of = row.of
      /\ b.owner = NoWorker /\ b.attempts = row.attempts
    BY <1>1, <1>3, PutJobLive
<1> HIDE DEF b
<1>5. c \in OperationType /\ c.state = "queued" /\ c.of = row.of
      /\ c.owner = NoWorker /\ c.attempts = row.attempts
    BY <1>1, <1>4, PutState
<1> HIDE DEF c
<1> QED BY <1>2, <1>5 DEF OperationOK

LEMMA CompletedRowOK ==
    ASSUME NEW row, OperationOK(row), row.state = "running"
    PROVE  LET new == [NoLease(row) EXCEPT !.state = "completed"]
           IN  OperationOK(new) /\ new.state = "completed" /\ new.of = row.of
<1> DEFINE a == [row EXCEPT !.owner = NoWorker]
           b == [a EXCEPT !.live = FALSE]
           c == [b EXCEPT !.state = "completed"]
<1>1. row \in OperationType
    BY DEF OperationOK
<1>2. [NoLease(row) EXCEPT !.state = "completed"] = c
    BY Zenon DEF NoLease
<1>3. a \in OperationType /\ a.state = row.state /\ a.of = row.of
      /\ a.owner = NoWorker /\ a.attempts = row.attempts
    BY <1>1, PutOwner
<1> HIDE DEF a
<1>4. b \in OperationType /\ b.state = row.state /\ b.of = row.of
      /\ b.owner = NoWorker /\ b.attempts = row.attempts
    BY <1>1, <1>3, PutJobLive
<1> HIDE DEF b
<1>5. c \in OperationType /\ c.state = "completed" /\ c.of = row.of
      /\ c.owner = NoWorker /\ c.attempts = row.attempts
    BY <1>1, <1>4, PutState
<1> HIDE DEF c
<1> QED BY <1>2, <1>5 DEF OperationOK

LEMMA RunningRowOK ==
    ASSUME NEW row, OperationOK(row), row.state \in {"queued", "running"}, NEW w \in Workers
    PROVE  LET new == [row EXCEPT !.state = "running", !.owner = w, !.live = TRUE]
           IN  OperationOK(new) /\ new.state = "running"
<1> DEFINE a == [row EXCEPT !.state = "running"]
           b == [a EXCEPT !.owner = w]
           c == [b EXCEPT !.live = TRUE]
<1>1. row \in OperationType
    BY DEF OperationOK
<1>2. [row EXCEPT !.state = "running", !.owner = w, !.live = TRUE] = c
    BY Zenon
<1>3. a \in OperationType /\ a.state = "running" /\ a.of = row.of
      /\ a.owner = row.owner /\ a.attempts = row.attempts
    BY <1>1, PutState
<1> HIDE DEF a
<1>4. b \in OperationType /\ b.state = "running" /\ b.of = row.of
      /\ b.owner = w /\ b.attempts = row.attempts
    BY <1>1, <1>3, PutOwner
<1> HIDE DEF b
<1>5. c \in OperationType /\ c.state = "running" /\ c.of = row.of
      /\ c.owner = w /\ c.attempts = row.attempts
    BY <1>1, <1>4, PutJobLive
<1> HIDE DEF c
<1> QED BY <1>2, <1>5 DEF OperationOK

-----------------------------------------------------------------------------
LEMMA RecoveryStep == RecoveryInv /\ RecoveryNext => RecoveryInv' /\ VerdictKept
<1> SUFFICES ASSUME RecoveryInv, RecoveryNext PROVE RecoveryInv' /\ VerdictKept
    OBVIOUS
<1>0. CasesOK /\ OperationsOK /\ RecoveryJobsOK /\ WorkersOK /\ PageOK /\ CompletedMeansImported
    BY DEF RecoveryInv
(* A step that leaves cases, page and rows in order, and completes nothing.  *)
<1>a. ASSUME CasesOK', OperationsOK', RecoveryJobsOK', WorkersOK', PageOK', VerdictKept, NothingCompletes
      PROVE  RecoveryInv' /\ VerdictKept
    BY <1>a, CompletedStaysImported DEF RecoveryInv
(* One that does not touch the operations, the jobs and the workers.         *)
<1>b. ASSUME UNCHANGED <<operation, recoveryJob>>
      PROVE  OperationsOK' /\ RecoveryJobsOK' /\ NothingCompletes
    BY <1>0, <1>b DEF OperationsOK, RecoveryJobsOK, NothingCompletes
<1>c. ASSUME NEW e \in Episodes, VersionMoves(e), UNCHANGED recoveryJob
      PROVE  OperationsOK' /\ RecoveryJobsOK' /\ NothingCompletes
             /\ \A o \in Operations : operation'[o].state = operation[o].state
    BY <1>0, <1>c, VersionMovesOK DEF RecoveryJobsOK, NothingCompletes
<1>d. ASSUME UNCHANGED worker PROVE WorkersOK'
    BY <1>0, <1>d DEF WorkersOK
(* A case that is closed from open keeps the order of the episodes.          *)
<1>e. ASSUME NEW e \in Episodes, IsOpen(e), NEW how \in {"manual", "verified"},
             agentCase' = [agentCase EXCEPT ![e] = how], UNCHANGED responsibility
      PROVE  CasesOK' /\ \A d \in Episodes : agentCase[d] \in {"manual", "verified"}
                                                 => agentCase'[d] = agentCase[d]
    BY <1>0, <1>e DEF CasesOK, IsOpen
<1>f. page' = [page EXCEPT !.current = FALSE] => PageOK'
    BY <1>0 DEF PageOK, PageType
<1>1. ASSUME ConfirmResponsibility PROVE RecoveryInv' /\ VerdictKept
    <2>1. ASSUME NEW o \in Operations
          PROVE  OperationOK(operation'[o]) /\ operation'[o].state = operation[o].state
                 /\ operation'[o].of = operation[o].of
        <3>1. operation'[o] = [operation[o] EXCEPT !.policy = FALSE]
            BY <1>1 DEF ConfirmResponsibility
        <3> QED BY <1>0, <3>1, MarksLost
    <2>2. OperationsOK'
        BY <1>1, <2>1 DEF OperationsOK, OperationOK, ConfirmResponsibility
    <2>3. CasesOK' /\ RecoveryJobsOK' /\ PageOK'
        BY <1>0, <1>1 DEF ConfirmResponsibility, Becomes, CasesOK, RecoveryJobsOK, PageOK, Standings
    <2>4. WorkersOK'
        BY <1>1, <1>d DEF ConfirmResponsibility, Becomes
    <2>5. VerdictKept /\ NothingCompletes
        BY <1>1, <2>1 DEF ConfirmResponsibility, Becomes, VerdictKept, NothingCompletes, IsOpen
    <2> QED BY <1>a, <2>2, <2>3, <2>4, <2>5
<1>2. ASSUME UpdateStatus \/ UpdateScope \/ PolicyExpires PROVE RecoveryInv' /\ VerdictKept
    <2>1. /\ responsibility' \in Standings
          /\ UNCHANGED <<agentCase, operation, recoveryJob, worker, page>>
        BY <1>2 DEF UpdateStatus, UpdateScope, PolicyExpires, Becomes, Standings
    <2>2. CasesOK' /\ PageOK' /\ VerdictKept
        BY <1>0, <2>1 DEF CasesOK, PageOK, VerdictKept, IsOpen
    <2> QED BY <1>a, <1>b, <1>d, <2>1, <2>2
<1>3. ASSUME LoadPage PROVE RecoveryInv' /\ VerdictKept
    <2>1. CasesOK' /\ PageOK' /\ VerdictKept
        BY <1>0, <1>3 DEF LoadPage, CasesOK, PageOK, PageType, VerdictKept, IsOpen
    <2> QED BY <1>3, <1>a, <1>b, <1>d, <2>1 DEF LoadPage
<1>4. ASSUME CheckFindsProblem PROVE RecoveryInv' /\ VerdictKept
    <2>1. UNCHANGED <<responsibility, recoveryJob, worker>>
        BY <1>4 DEF CheckFindsProblem
    <2>2. CASE \E e \in Episodes : IsOpen(e) /\ Reobserved(e) /\ UNCHANGED agentCase
        <3>1. PICK e \in Episodes : Reobserved(e) /\ UNCHANGED agentCase
            BY <2>2
        <3>2. CasesOK' /\ PageOK'
            BY <1>0, <2>1, <3>1 DEF CasesOK, PageOK, PageType, Reobserved
        <3>3. OperationsOK' /\ RecoveryJobsOK' /\ NothingCompletes /\ VerdictKept
            BY <1>c, <2>1, <3>1 DEF Reobserved, VerdictKept, IsOpen
        <3> QED BY <1>a, <1>d, <2>1, <3>2, <3>3
    <2>3. CASE \E e \in Episodes :
            /\ agentCase[e] = "none" /\ \A d \in Episodes : d < e => agentCase[d] \in {"manual", "verified"}
            /\ agentCase' = [agentCase EXCEPT ![e] = "open"]
            /\ page' = [page EXCEPT !.current = FALSE]
            /\ UNCHANGED operation
        <3>1. PICK e \in Episodes :
            /\ agentCase[e] = "none" /\ \A d \in Episodes : d < e => agentCase[d] \in {"manual", "verified"}
            /\ agentCase' = [agentCase EXCEPT ![e] = "open"]
            /\ page' = [page EXCEPT !.current = FALSE]
            /\ UNCHANGED operation
            BY <2>3
        <3>2. CasesOK' /\ VerdictKept
            BY <1>0, <2>1, <3>1 DEF CasesOK, VerdictKept, IsOpen
        <3> QED BY <1>a, <1>b, <1>d, <1>f, <2>1, <3>1, <3>2
    <2> QED BY <1>4, <2>2, <2>3 DEF CheckFindsProblem
<1>5. ASSUME NEW e \in Episodes, ActOnCase(e) PROVE RecoveryInv' /\ VerdictKept
    <2>1. CasesOK' /\ PageOK'
        BY <1>0, <1>5, <1>f DEF ActOnCase, CasesOK
    <2>2. OperationsOK' /\ RecoveryJobsOK' /\ NothingCompletes /\ VerdictKept
        BY <1>5, <1>c DEF ActOnCase, VerdictKept, IsOpen
    <2> QED BY <1>5, <1>a, <1>d, <2>1, <2>2 DEF ActOnCase
<1>6. ASSUME NEW e \in Episodes, ResolveByHand(e) \/ CheckClosesCase(e)
      PROVE  RecoveryInv' /\ VerdictKept
    <2>1. PICK how \in {"manual", "verified"} :
            /\ IsOpen(e) /\ agentCase' = [agentCase EXCEPT ![e] = how]
            /\ how = "manual" => page.current
            /\ page' = [page EXCEPT !.current = FALSE] /\ VersionMoves(e)
            /\ UNCHANGED <<responsibility, recoveryJob, worker>>
        BY <1>6 DEF ResolveByHand, CheckClosesCase, Resolvable
    <2>2. OperationsOK' /\ RecoveryJobsOK' /\ NothingCompletes
          /\ \A o \in Operations : operation'[o].state = operation[o].state
        BY <1>c, <2>1
    <2>3. CasesOK' /\ \A d \in Episodes : agentCase[d] \in {"manual", "verified"}
                                             => agentCase'[d] = agentCase[d]
        BY <1>e, <2>1
    <2>4. ASSUME NEW d \in Episodes, IsOpen(d), agentCase'[d] = "manual" PROVE ~page.unseen
        <3>1. d = e /\ how = "manual"
            BY <1>0, <2>1, <2>4 DEF CasesOK, IsOpen
        <3> QED BY <1>0, <2>1, <3>1 DEF PageOK
    <2>5. VerdictKept
        BY <2>2, <2>3, <2>4 DEF VerdictKept
    <2> QED BY <1>a, <1>d, <1>f, <2>1, <2>2, <2>3, <2>5
<1>7. ASSUME NEW e \in Episodes, NEW o \in Operations, RecoverCase(e, o)
      PROVE  RecoveryInv' /\ VerdictKept
    <2> DEFINE again == recoveryJob[o].status \notin {"queued", "running"}
               row == Enqueued(e, o)
               new == IF again THEN [NoLease(row) EXCEPT !.state = "queued"] ELSE row
    <2>1. /\ Dispatchable(row, o) /\ (~Known(o) \/ operation[o].of = e)
          /\ operation' = [p \in Operations |-> IF p # o THEN Reconciled(p) ELSE new]
          /\ recoveryJob' = IF again THEN [recoveryJob EXCEPT ![o] = JobRow("queued")] ELSE recoveryJob
          /\ UNCHANGED <<responsibility, agentCase, worker, page>>
        BY <1>7 DEF RecoverCase, Prepared
    <2>2. OperationOK(operation[o]) /\ operation[o] \in OperationType
        BY <1>0 DEF OperationsOK, OperationOK
    <2>3. /\ OperationOK(row) /\ row.state \in {"queued", "running"}
          /\ operation[o].state \notin {"completed", "failed"}
        <3>1. CASE Known(o)
            BY <2>1, <2>2, <3>1, ReconciledOK DEF Enqueued, Dispatchable
        <3>2. CASE ~Known(o)
            <4>1. operation[o].state = "none" /\ row.state \in {"queued", "running"}
                BY <2>1, <3>2 DEF Known, Dispatchable
            <4>2. row = [operation[o] EXCEPT !.state = "queued", !.of = e, !.policy = TRUE, !.latest = TRUE]
                BY <3>2 DEF Enqueued
            <4>3. OperationOK(row)
                <5>1. operation[o].state = "none" /\ OperationOK(operation[o])
                    BY <2>2, <4>1
                <5>2. OperationOK([operation[o] EXCEPT !.state = "queued", !.of = e,
                                                 !.policy = TRUE, !.latest = TRUE])
                    BY <5>1, NewRowOK, Zenon
                <5> QED BY <4>2, <5>2, Zenon
            <4> QED BY <4>1, <4>3
        <3> QED BY <3>1, <3>2
    <2> HIDE DEF row
    <2>4. OperationOK(new) /\ new.state \in {"queued", "running"}
        <3>1. CASE again
            BY <2>3, <3>1, QueuedRowOK
        <3>2. CASE ~again
            BY <2>3, <3>2
        <3> QED BY <3>1, <3>2
    <2> HIDE DEF new
    <2>5. ASSUME NEW p \in Operations
          PROVE  /\ OperationOK(operation'[p])
                 /\ operation[p].state \in {"completed", "failed"} => operation'[p] = operation[p]
                 /\ operation'[p].state = "completed" => p # o /\ operation'[p] = operation[p]
        <3>1. CASE p = o
            BY <2>1, <2>3, <2>4, <3>1
        <3>2. CASE p # o
            <4>1. operation'[p] = Reconciled(p)
                BY <2>1, <3>2
            <4>2. OperationOK(operation[p])
                BY <1>0 DEF OperationsOK
            <4> QED BY <3>2, <4>1, <4>2, ReconciledOK
        <3> QED BY <3>1, <3>2
    <2>6. OperationsOK'
        BY <2>1, <2>5 DEF OperationsOK, OperationOK
    <2>7. RecoveryJobsOK'
        BY <1>0, <2>1 DEF RecoveryJobsOK, JobRow, RecoveryJobType
    <2>8. CasesOK' /\ PageOK'
        BY <1>0, <2>1 DEF CasesOK, PageOK
    <2>9. VerdictKept
        BY <2>1, <2>5 DEF VerdictKept, IsOpen
    <2>10. NothingCompletes
        BY <1>0, <2>1, <2>5 DEF NothingCompletes, RecoveryJobsOK
    <2> QED BY <1>a, <1>d, <2>1, <2>6, <2>7, <2>8, <2>9, <2>10
<1>8. ASSUME NEW w \in Workers, NEW o \in Operations, ClaimRecoveryJob(w, o)
      PROVE  RecoveryInv' /\ VerdictKept
    <2>1. CasesOK' /\ PageOK' /\ OperationsOK' /\ VerdictKept
        BY <1>0, <1>8 DEF ClaimRecoveryJob, CasesOK, PageOK, OperationsOK, VerdictKept, IsOpen
    <2>2. RecoveryJobsOK' /\ WorkersOK'
        BY <1>0, <1>8 DEF ClaimRecoveryJob, RecoveryJobsOK, WorkersOK, RecoveryJobType
    <2>3. NothingCompletes
        BY <1>0, <1>8 DEF ClaimRecoveryJob, NothingCompletes, RecoveryJobsOK
    <2> QED BY <1>a, <2>1, <2>2, <2>3
<1>9. ASSUME NEW w \in Workers, HeartbeatRecovery(w) PROVE RecoveryInv' /\ VerdictKept
    <2> DEFINE o == worker[w].op
    <2>1. /\ o \in Operations /\ UNCHANGED <<responsibility, agentCase, recoveryJob, page>>
          /\ worker[w].pc \in {"fence", "import", "verify"}
        BY <1>0, <1>9 DEF HeartbeatRecovery, WorkersOK
    <2>2. WorkersOK'
        BY <1>0, <1>9, <2>1, StandsOK DEF HeartbeatRecovery
    <2>3. CasesOK' /\ PageOK' /\ RecoveryJobsOK'
        BY <1>0, <2>1 DEF CasesOK, PageOK, RecoveryJobsOK
    <2>4. CASE UNCHANGED operation
        BY <1>a, <1>b, <2>1, <2>2, <2>3, <2>4 DEF VerdictKept, IsOpen
    <2>5. CASE /\ LeaseFree(o, w)
               /\ operation' = [operation EXCEPT ![o].state = "running", ![o].owner = w, ![o].live = TRUE]
        <3>1. OperationOK(operation[o]) /\ operation[o].state \in {"queued", "running"}
            BY <1>0, <2>1, <2>5 DEF OperationsOK, LeaseFree
        <3>2. /\ operation'[o] = [operation[o] EXCEPT !.state = "running", !.owner = w, !.live = TRUE]
              /\ \A p \in Operations \ {o} : operation'[p] = operation[p]
            BY <1>0, <2>1, <2>5 DEF OperationsOK
        <3>3. OperationOK(operation'[o]) /\ operation'[o].state = "running"
            <4> DEFINE new == [operation[o] EXCEPT !.state = "running", !.owner = w, !.live = TRUE]
            <4>1. OperationOK(new) /\ new.state = "running"
                BY <3>1, RunningRowOK, Zenon
            <4>2. operation'[o] = new
                BY <3>2
            <4> QED BY <4>1, <4>2, Zenon
        <3> HIDE DEF o
        <3>4. OperationsOK'
            BY <1>0, <2>1, <2>5, <3>2, <3>3 DEF OperationsOK, OperationOK
        <3>5. VerdictKept /\ NothingCompletes
            BY <2>1, <3>1, <3>2, <3>3 DEF VerdictKept, NothingCompletes, IsOpen
        <3> QED BY <1>a, <2>2, <2>3, <3>4, <3>5
    <2> QED BY <1>9, <2>4, <2>5 DEF HeartbeatRecovery
<1>10. ASSUME NEW w \in Workers, FinishImport(w) PROVE RecoveryInv' /\ VerdictKept
    <2> DEFINE o == worker[w].op
    <2>1. o \in Operations /\ UNCHANGED <<responsibility, agentCase, operation, page>>
        BY <1>0, <1>10 DEF FinishImport, WorkersOK
    <2>2. WorkersOK'
        BY <1>0, <1>10, StandsOK DEF FinishImport
    <2>3. CasesOK' /\ PageOK' /\ OperationsOK' /\ VerdictKept
        BY <1>0, <2>1 DEF CasesOK, PageOK, OperationsOK, VerdictKept, IsOpen
    <2>4. RecoveryJobsOK' /\ NothingCompletes
        BY <1>0, <1>10, <2>1 DEF FinishImport, HoldsJob, RecoveryJobsOK, JobRow, RecoveryJobType,
           NothingCompletes
    <2> QED BY <1>a, <2>2, <2>3, <2>4
<1>11. ASSUME NEW w \in Workers, VerifyAndClose(w) PROVE RecoveryInv' /\ VerdictKept
    <2> DEFINE o == worker[w].op
    <2>1. o \in Operations /\ UNCHANGED <<responsibility, recoveryJob>>
        BY <1>0, <1>11 DEF VerifyAndClose, WorkersOK
    <2>2. WorkersOK'
        BY <1>0, <1>11, StandsOK DEF VerifyAndClose
    <2>3. CASE UNCHANGED <<agentCase, operation, page>>
        BY <1>0, <1>a, <1>b, <2>1, <2>2, <2>3 DEF CasesOK, PageOK, VerdictKept, IsOpen
    <2>4. CASE /\ recoveryJob[o].status = "completed"
               /\ operation[o].state = "running" /\ IsOpen(operation[o].of)
               /\ agentCase' = [agentCase EXCEPT ![operation[o].of] = "verified"]
               /\ operation' = [operation EXCEPT ![o] = [NoLease(@) EXCEPT !.state = "completed"]]
               /\ page' = [page EXCEPT !.current = FALSE]
        <3>1. OperationOK(operation[o]) /\ operation[o].of \in Episodes
            BY <1>0, <2>1, <2>4 DEF OperationsOK, OperationOK
        <3>2. /\ operation'[o] = [NoLease(operation[o]) EXCEPT !.state = "completed"]
              /\ \A p \in Operations \ {o} : operation'[p] = operation[p]
            BY <1>0, <2>1, <2>4 DEF OperationsOK
        <3>3. OperationOK(operation'[o]) /\ operation'[o].state = "completed"
              /\ operation'[o].of = operation[o].of
            BY <2>4, <3>1, <3>2, CompletedRowOK, ZenonT(30)
        <3> HIDE DEF o
        <3>4. CasesOK' /\ \A d \in Episodes : agentCase[d] \in {"manual", "verified"}
                                                 => agentCase'[d] = agentCase[d]
            BY <1>e, <2>1, <2>4, <3>1
        <3>5. OperationsOK'
            BY <1>0, <2>1, <2>4, <3>2, <3>3 DEF OperationsOK, OperationOK
        <3>6. RecoveryJobsOK' /\ PageOK'
            BY <1>0, <1>f, <2>1, <2>4 DEF RecoveryJobsOK
        <3>7. \A d \in Episodes : ~(IsOpen(d) /\ agentCase'[d] = "manual")
            BY <1>0, <2>4, <3>1 DEF IsOpen, CasesOK
        <3>8. VerdictKept
            BY <2>1, <2>4, <3>2, <3>3, <3>4, <3>7 DEF VerdictKept
        <3>9. CompletedMeansImported'
            <4> SUFFICES ASSUME NEW p \in Operations, operation'[p].state = "completed"
                         PROVE  /\ recoveryJob'[p].status = "completed"
                                /\ agentCase'[operation'[p].of] = "verified"
                BY DEF CompletedMeansImported
            <4>1. CASE p = o
                BY <1>0, <2>1, <2>4, <3>1, <3>3, <4>1 DEF CasesOK
            <4>2. CASE p # o
                <5>1. operation'[p] = operation[p]
                    BY <3>2, <4>2
                <5>2. recoveryJob[p].status = "completed" /\ agentCase[operation[p].of] = "verified"
                    BY <1>0, <5>1 DEF CompletedMeansImported
                <5>3. operation[p].of \in Episodes
                    BY <1>0, <5>1 DEF OperationsOK, OperationOK
                <5> QED BY <2>1, <3>4, <5>1, <5>2, <5>3
            <4> QED BY <4>1, <4>2
        <3> QED BY <2>2, <3>4, <3>5, <3>6, <3>8, <3>9 DEF RecoveryInv
    <2> QED BY <1>11, <2>3, <2>4 DEF VerifyAndClose, JobProven, Resolvable
<1>12. ASSUME NEW w \in Workers, WorkerDies(w) PROVE RecoveryInv' /\ VerdictKept
    <2>1. WorkersOK'
        BY <1>0, <1>12, StandsOK DEF WorkerDies
    <2>2. CasesOK' /\ PageOK' /\ VerdictKept
        BY <1>0, <1>12 DEF WorkerDies, CasesOK, PageOK, VerdictKept, IsOpen
    <2> QED BY <1>12, <1>a, <1>b, <2>1, <2>2 DEF WorkerDies
<1>13. ASSUME NEW o \in Operations, LeasesRunOut(o) PROVE RecoveryInv' /\ VerdictKept
    <2>1. CasesOK' /\ PageOK' /\ WorkersOK'
        BY <1>0, <1>13 DEF LeasesRunOut, CasesOK, PageOK, WorkersOK
    <2>2. CASE operation' = [operation EXCEPT ![o].live = FALSE] /\ UNCHANGED recoveryJob
        <3>1. ASSUME NEW p \in Operations
              PROVE  OperationOK(operation'[p]) /\ operation'[p].state = operation[p].state
                     /\ operation'[p].of = operation[p].of
            BY <1>0, <2>2, ZenonT(30) DEF OperationsOK, OperationOK, OperationType
        <3>2. OperationsOK' /\ RecoveryJobsOK'
            BY <1>0, <2>2, <3>1 DEF OperationsOK, OperationOK, RecoveryJobsOK
        <3>3. VerdictKept /\ NothingCompletes
            BY <1>13, <2>2, <3>1 DEF LeasesRunOut, VerdictKept, NothingCompletes, IsOpen
        <3> QED BY <1>a, <2>1, <3>2, <3>3
    <2>3. CASE /\ recoveryJob[o].status = "running"
               /\ recoveryJob' = [recoveryJob EXCEPT ![o] = JobRow("queued")] /\ UNCHANGED operation
        <3>1. OperationsOK' /\ RecoveryJobsOK'
            BY <1>0, <2>3 DEF OperationsOK, RecoveryJobsOK, JobRow, RecoveryJobType
        <3>2. VerdictKept /\ NothingCompletes
            BY <1>0, <1>13, <2>3 DEF LeasesRunOut, VerdictKept, NothingCompletes, IsOpen, RecoveryJobsOK
        <3> QED BY <1>a, <2>1, <3>1, <3>2
    <2> QED BY <1>13, <2>2, <2>3 DEF LeasesRunOut
<1> QED BY <1>1, <1>2, <1>3, <1>4, <1>5, <1>6, <1>7, <1>8, <1>9, <1>10, <1>11, <1>12, <1>13
    DEF RecoveryNext

LEMMA RecoveryAlways == RecoverySpec => []RecoveryInv
<1>1. RecoveryInv /\ UNCHANGED recoveryVars => RecoveryInv'
    BY DEF recoveryVars, RecoveryInv, CasesOK, OperationsOK, RecoveryJobsOK, WorkersOK, PageOK,
       CompletedMeansImported
<1> QED BY <1>1, RecoveryInvInit, RecoveryStep, PTL DEF RecoverySpec

(* The rows of the console hold values of their kinds, and one case of a     *)
(* fingerprint is open at a time.                                            *)
THEOREM RecoveryTyped == RecoverySpec => []RecoveryTypeOK
BY InvImpliesType, RecoveryAlways, PTL

(* A completed recovery stands for a completed import and a closed case,     *)
(* whatever requests and executions follow it.                               *)
THEOREM RecoveriesWereImported == RecoverySpec => []CompletedMeansImported
<1>1. RecoveryInv => CompletedMeansImported
    BY DEF RecoveryInv
<1> QED BY <1>1, RecoveryAlways, PTL

(* Cases and operations are decided once, and not over an unseen finding.    *)
THEOREM DecidedOnce == RecoverySpec => VerdictsStand
<1>1. RecoverySpec => [][VerdictKept]_recoveryVars
    BY RecoveryStep, RecoveryAlways, PTL DEF RecoverySpec
<1> QED BY <1>1 DEF VerdictKept, VerdictsStand
=============================================================================
