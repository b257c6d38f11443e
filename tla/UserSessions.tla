----------------------------- MODULE UserSessions -----------------------------
(* The browser sessions of one user (lib/session-limits.ts): logins and the  *)
(* clean-up of a heartbeat, each a transaction under the lock of the user,   *)
(* revocation by the user, and what one server instance has cached of one of *)
(* the sessions.  Which session is the oldest is left open.                  *)
EXTENDS Naturals, FiniteSets

CONSTANTS Sessions,   \* one login each
          NoSession,
          Watched,    \* the session whose cache entry is followed
          Limit       \* activeLimit of the plan

ASSUME SessionAssumption ==
    NoSession \notin Sessions /\ Watched \in Sessions /\ Limit \in Nat \ {0}

GraceSlots == 1       \* SESSION_GRACE_SLOTS

VARIABLES session,    \* UserSession rows
          windows,    \* grace deadlines in order: how many were set, and are over
          work,       \* the request of each session
          userLock,   \* pg_advisory_xact_lock of the user
          cache,      \* the entry of Watched in revocationCache
          check       \* the answer a check of Watched has read and not yet cached

sessionVars == <<session, windows, work, userLock, cache, check>>

SessionType == [status : {"none", "active", "revoked"},
                grace : Nat]    \* 0: null, or revoked, when nobody reads it

WorkType == [pc : {"idle", "register", "clean", "publish"},
             seen : SUBSET Sessions,      \* the active sessions as read
             grace : Nat, revoked : SUBSET Sessions]

NoWork == [pc |-> "idle", seen |-> {}, grace |-> 0, revoked |-> {}]
CheckAnswers == {"none", "active", "revoked"}

(* The rows hold values of their kinds, and the lock is held by a            *)
(* transaction in progress.                                                  *)
SessionTypeOK ==
    /\ session \in [Sessions -> SessionType]
    /\ windows \in [set : Nat, over : Nat] /\ windows.over <= windows.set
    /\ work \in [Sessions -> WorkType]
    /\ userLock \in {NoSession} \cup {j \in Sessions : work[j].pc \in {"register", "clean"}}
    /\ cache \in CheckAnswers /\ check \in CheckAnswers

SessionInit ==
    /\ session = [j \in Sessions |-> [status |-> "none", grace |-> 0]]
    /\ windows = [set |-> 0, over |-> 0]
    /\ work = [j \in Sessions |-> NoWork]
    /\ userLock = NoSession
    /\ cache = "none" /\ check = "none"

Active == {j \in Sessions : session[j].status = "active"}
Runs24h(deadline) == deadline > windows.over

UnlockedTx == TRUE
LockFree == userLock = NoSession

-----------------------------------------------------------------------------
(* registerSession: lock, read and decide (sessionRegistrationPolicy).       *)
GraceFor(seen) ==
    LET live == {session[j].grace : j \in {k \in seen : Runs24h(session[k].grace)}}
    IN  IF live = {} THEN windows.set + 1 ELSE CHOOSE d \in live : \A e \in live : d <= e

RegisterSession(j) ==
    /\ session[j].status = "none" /\ work[j].pc = "idle"
    /\ LockFree
    /\ work' = [work EXCEPT ![j] = [NoWork EXCEPT !.pc = "register", !.seen = Active, !.grace =
                                        IF Cardinality(Active) < Limit THEN 0 ELSE GraceFor(Active)]]
    /\ userLock' = j
    /\ UNCHANGED <<session, windows, cache, check>>

Revoke(some) == [j \in Sessions |-> IF j \in some \cap Active
                                    THEN [status |-> "revoked", grace |-> 0] ELSE session[j]]
CacheRevoked(some) == cache' = IF Watched \in some THEN "revoked" ELSE cache

Overflow(j) == {some \in SUBSET work[j].seen :
    Cardinality(some) + Limit + GraceSlots
        = IF Cardinality(work[j].seen) >= Limit + GraceSlots THEN Cardinality(work[j].seen) + 1
          ELSE Limit + GraceSlots}

CommitRegistration(j) ==
    /\ work[j].pc = "register"
    /\ \E some \in Overflow(j) :
        /\ session' = [Revoke(some) EXCEPT ![j] = [status |-> "active", grace |-> work[j].grace]]
        /\ work' = [work EXCEPT ![j] = [NoWork EXCEPT !.pc = "publish", !.revoked = some]]
    /\ windows' = IF work[j].grace > windows.set THEN [windows EXCEPT !.set = work[j].grace] ELSE windows
    /\ userLock' = NoSession
    /\ UNCHANGED <<cache, check>>

(* cacheRevokedSessions on the instance that served the login, and the entry *)
(* of the new session itself.  Other instances are told nothing: there this  *)
(* step is left out (SessionRequestDies).                                    *)
Publish(j) ==
    /\ work[j].pc = "publish"
    /\ IF j = Watched THEN cache' = "active" ELSE CacheRevoked(work[j].revoked)
    /\ work' = [work EXCEPT ![j] = NoWork]
    /\ UNCHANGED <<session, windows, userLock, check>>

-----------------------------------------------------------------------------
(* enforceExpiredSessionGrace, from the heartbeat of an active session.      *)
AnyWindow(seen) == \E j \in seen : session[j].grace # 0
WindowRuns(seen) == \E j \in seen : Runs24h(session[j].grace)

Heartbeat(j) ==
    /\ j \in Active /\ work[j].pc = "idle"
    /\ Cardinality(Active) > Limit /\ ~WindowRuns(Active)
    /\ LockFree
    /\ work' = [work EXCEPT ![j] = [NoWork EXCEPT !.pc = "clean", !.seen = Active]]
    /\ userLock' = j
    /\ UNCHANGED <<session, windows, cache, check>>

CommitCleanup(j) ==
    /\ work[j].pc = "clean"
    /\ \E some \in SUBSET (work[j].seen \ {j}) :
        /\ Cardinality(some) + Limit = Cardinality(work[j].seen)
        /\ session' = Revoke(some)
        /\ CacheRevoked(some) \/ UNCHANGED cache
    /\ work' = [work EXCEPT ![j] = NoWork]
    /\ userLock' = NoSession
    /\ UNCHANGED <<windows, check>>

(* revokeUserSession and revokeOtherUserSessions take no lock.               *)
RevokeByUser(some) ==
    /\ some # {} /\ some \subseteq Active
    /\ session' = Revoke(some)
    /\ CacheRevoked(some) \/ UNCHANGED cache
    /\ UNCHANGED <<windows, work, userLock, check>>

(* A statement throws or the process dies; nothing of a transaction is kept. *)
SessionRequestDies(j) ==
    /\ work[j].pc # "idle"
    /\ work' = [work EXCEPT ![j] = NoWork]
    /\ userLock' = IF userLock = j THEN NoSession ELSE userLock
    /\ UNCHANGED <<session, windows, cache, check>>

WindowEnds ==
    /\ windows.over < windows.set
    /\ windows' = [windows EXCEPT !.over = @ + 1]
    /\ UNCHANGED <<session, work, userLock, cache, check>>

-----------------------------------------------------------------------------
(* isSessionRevoked: the cache, else a read that is cached when it returns.  *)
ReadRevocation ==
    /\ session[Watched].status # "none"
    /\ cache = "none" /\ check = "none"
    /\ check' = session[Watched].status
    /\ UNCHANGED <<session, windows, work, userLock, cache>>

CacheRevocation ==
    /\ check # "none"
    /\ cache' = check
    /\ check' = "none"
    /\ UNCHANGED <<session, windows, work, userLock>>

(* An entry is 60 s old.                                                     *)
RevokedEntry == cache = "revoked"
Entry == cache # "none"
EntryExpires ==
    /\ Entry
    /\ cache' = "none"
    /\ UNCHANGED <<session, windows, work, userLock, check>>

-----------------------------------------------------------------------------
Commit(j) == CommitRegistration(j) \/ CommitCleanup(j)

SessionNext ==
    \/ \E j \in Sessions : \/ RegisterSession(j) \/ Heartbeat(j) \/ Commit(j) \/ Publish(j)
                           \/ SessionRequestDies(j)
    \/ \E some \in SUBSET Sessions : RevokeByUser(some)
    \/ WindowEnds \/ ReadRevocation \/ CacheRevocation \/ EntryExpires

SessionSpec == SessionInit /\ [][SessionNext]_sessionVars

(* Time passes, requests end, and a browser that is open keeps sending its   *)
(* heartbeat; a transaction is not rolled back for ever.                     *)
SessionFairness ==
    /\ WF_sessionVars(WindowEnds)
    /\ WF_sessionVars(CacheRevocation) /\ WF_sessionVars(EntryExpires)
    /\ WF_sessionVars(\E j \in Sessions : Heartbeat(j))
    /\ \A j \in Sessions : WF_sessionVars(Commit(j) \/ Publish(j))
    /\ <>[][\A j \in Sessions : ~SessionRequestDies(j)]_sessionVars

-----------------------------------------------------------------------------
(* "Without this per-user lock, concurrent logins can all observe the same   *)
(* active count and exceed the advertised hard ceiling": they do not, with   *)
(* clean-ups and revocations between them, and further logins inherit the    *)
(* grace deadline that runs instead of extending it.                         *)
SessionsCapped ==
    /\ Cardinality(Active) <= Limit + GraceSlots
    /\ \A j, k \in Active : Runs24h(session[j].grace) /\ Runs24h(session[k].grace)
                                => session[j].grace = session[k].grace

(* The account returns to its normal allowance once the window is over.      *)
AllowanceReturns == []<>(Cardinality(Active) <= Limit)

(* A revoked session is refused on every instance in the end, though a check *)
(* that read it before the revocation may cache it as active afterwards.     *)
RevocationReaches ==
    <>[](session[Watched].status = "revoked" => cache # "active")
=============================================================================
