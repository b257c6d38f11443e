---------------------------- MODULE OAuthAttempts -----------------------------
(* The consents a user is sent to one provider with (lib/oauth-attempt.ts):  *)
(* each is used by one callback, and one started for an agent task replaces  *)
(* the one before it.  The writes of a transaction show when it commits;     *)
(* until then the rows it has updated are locked.  Every `new Date()` is a   *)
(* step of its own: what is compared or written with it comes later.         *)
EXTENDS Naturals

CONSTANTS Attempts,      \* authorizations that are started
          ForAgent,      \* those with an agentTaskId
          Callbacks,     \* requests that bring a token back
          NoAttempt,
          Lifetime,      \* TEN_MINUTES_MS, in ticks of the clock
          LastTick       \* bound of the clock

ASSUME ConsentAssumption ==
    /\ ForAgent \subseteq Attempts /\ NoAttempt \notin Attempts
    /\ Lifetime \in Nat \ {0} /\ LastTick \in Nat

VARIABLES consent,    \* OAuthAttempt rows
          creation,   \* createOAuthAttempt at work for an agent task
          consentLock,\* pg_advisory_xact_lock of user and provider
          callback,   \* consumeOAuthAttempt at work
          clock       \* Date.now(), of all servers

consentVars == <<consent, creation, consentLock, callback, clock>>

ConsentType == [status : {"none", "pending", "consumed"},
                expiresAt : Nat,
                replaced : BOOLEAN, \* history: ended for another one
                uses : 0 .. 2]      \* history: callbacks that went on with it
CreationType == [pc : {"idle", "dated", "open"},
                 asOf : Nat,                 \* its `new Date()`
                 expires : SUBSET ForAgent]  \* rows it has updated and locked
CallbackType == [pc : {"idle", "found", "dated"},
                 attempt : Attempts \cup {NoAttempt},
                 asOf : Nat,                 \* its `new Date()`
                 stood : BOOLEAN]            \* history: the consent was valid just then

(* The rows hold values of their kinds; a consent that nobody used is not    *)
(* consumed, and the lock belongs to a creation in progress.                 *)
ConsentTypeOK ==
    /\ consent \in [Attempts -> ConsentType]
    /\ \A a \in Attempts : (consent[a].status = "consumed") = (consent[a].uses > 0)
    /\ creation \in [ForAgent -> CreationType]
    /\ consentLock \in {NoAttempt} \cup {a \in ForAgent : creation[a].pc # "idle"}
    /\ callback \in [Callbacks -> CallbackType]
    /\ \A c \in Callbacks : callback[c].pc # "idle" => callback[c].attempt \in Attempts
    /\ clock \in Nat

NotCreating == [pc |-> "idle", asOf |-> 0, expires |-> {}]
NotCalled == [pc |-> "idle", attempt |-> NoAttempt, asOf |-> 0, stood |-> FALSE]

ConsentInit ==
    /\ consent = [a \in Attempts |->
                     [status |-> "none", expiresAt |-> 0, replaced |-> FALSE, uses |-> 0]]
    /\ creation = [a \in ForAgent |-> NotCreating]
    /\ consentLock = NoAttempt
    /\ callback = [c \in Callbacks |-> NotCalled]
    /\ clock = 0

RowLocked(a) == \E b \in ForAgent : a \in creation[b].expires
Started(asOf) == [status |-> "pending", expiresAt |-> asOf + Lifetime,
                  replaced |-> FALSE, uses |-> 0]
Replaced(row, asOf) == [row EXCEPT !.expiresAt = asOf, !.replaced = TRUE]
-----------------------------------------------------------------------------
CreatePlainAttempt(a) ==
    /\ a \notin ForAgent /\ consent[a].status = "none"
    /\ consent' = [consent EXCEPT ![a] = Started(clock)]
    /\ UNCHANGED <<creation, consentLock, callback, clock>>

NoWait == TRUE
LockIsFree == consentLock = NoAttempt

(* The lock; behind it the date that the pending agent consents are to end   *)
(* at (the expiresAt of the new one is counted from a moment before it) ...  *)
BeginAgentAttempt(a) ==
    /\ consent[a].status = "none" /\ creation[a].pc = "idle"
    /\ LockIsFree
    /\ consentLock' = a
    /\ creation' = [creation EXCEPT ![a] = [pc |-> "dated", asOf |-> clock, expires |-> {}]]
    /\ UNCHANGED <<consent, callback, clock>>

(* ... and the update that ends them, those that have expired included.      *)
ExpirePending(a) ==
    LET ends == {b \in ForAgent : consent[b].status = "pending"} IN
    /\ creation[a].pc = "dated"
    /\ \A b \in ends : ~RowLocked(b)
    /\ creation' = [creation EXCEPT ![a].pc = "open", ![a].expires = ends]
    /\ UNCHANGED <<consent, consentLock, callback, clock>>

Unlock(a) == consentLock' = IF consentLock = a THEN NoAttempt ELSE consentLock

(* The task and the run permit it: the new consent becomes visible together  *)
(* with the end of the others.                                               *)
CommitAgentAttempt(a) ==
    /\ creation[a].pc = "open"
    /\ consent' = [b \in Attempts |->
           IF b = a THEN Started(creation[a].asOf)
           ELSE IF b \in creation[a].expires THEN Replaced(consent[b], creation[a].asOf)
           ELSE consent[b]]
    /\ creation' = [creation EXCEPT ![a] = NotCreating]
    /\ Unlock(a)
    /\ UNCHANGED <<callback, clock>>

(* They do not (OAuthError), or a statement fails: everything is undone.     *)
AbandonAgentAttempt(a) ==
    /\ creation[a].pc # "idle"
    /\ creation' = [creation EXCEPT ![a] = NotCreating]
    /\ Unlock(a)
    /\ UNCHANGED <<consent, callback, clock>>

-----------------------------------------------------------------------------
(* consumeOAuthAttempt: the row is read and found valid ...                  *)
IsValid(a) == consent[a].status = "pending" /\ consent[a].expiresAt > clock

FindAttempt(c, a) ==
    /\ callback[c].pc = "idle"
    /\ IsValid(a)
    /\ callback' = [callback EXCEPT ![c] = [NotCalled EXCEPT !.pc = "found", !.attempt = a]]
    /\ UNCHANGED <<consent, creation, consentLock, clock>>

(* ... the clock is read for the update ...                                  *)
ReadClock(c) ==
    /\ callback[c].pc = "found"
    /\ callback' = [callback EXCEPT ![c].pc = "dated", ![c].asOf = clock,
                                    ![c].stood = IsValid(callback[c].attempt)]
    /\ UNCHANGED <<consent, creation, consentLock, clock>>

(* ... which marks it consumed on the condition that it is still pending and *)
(* ends after that reading, whatever the time is by now: it waits for a      *)
(* transaction that has the row and then looks again.                        *)
StillPending(c) == consent[callback[c].attempt].status = "pending"
StillValid(c) == /\ consent[callback[c].attempt].status = "pending"
                 /\ consent[callback[c].attempt].expiresAt > callback[c].asOf

ConsumeOAuthAttempt(c) ==
    LET a == callback[c].attempt IN
    /\ callback[c].pc = "dated"
    /\ ~RowLocked(a)
    /\ \/ /\ StillValid(c)
          /\ consent' = [consent EXCEPT ![a].status = "consumed", ![a].uses = @ + 1]
       \/ ~StillValid(c) /\ UNCHANGED consent
    /\ callback' = [callback EXCEPT ![c] = NotCalled]
    /\ UNCHANGED <<creation, consentLock, clock>>

CallbackDies(c) ==
    /\ callback[c].pc # "idle"
    /\ callback' = [callback EXCEPT ![c] = NotCalled]
    /\ UNCHANGED <<consent, creation, consentLock, clock>>

TimePasses ==
    /\ clock < LastTick
    /\ clock' = clock + 1
    /\ UNCHANGED <<consent, creation, consentLock, callback>>

ConsentNext ==
    \/ \E a \in Attempts : CreatePlainAttempt(a)
    \/ \E a \in ForAgent : \/ BeginAgentAttempt(a) \/ ExpirePending(a)
                           \/ CommitAgentAttempt(a) \/ AbandonAgentAttempt(a)
    \/ \E c \in Callbacks : \/ ReadClock(c) \/ ConsumeOAuthAttempt(c) \/ CallbackDies(c)
                            \/ \E a \in Attempts : FindAttempt(c, a)
    \/ TimePasses

ConsentSpec == ConsentInit /\ [][ConsentNext]_consentVars

-----------------------------------------------------------------------------
(* At most one consent of an agent task can still be used: the cookie is     *)
(* that of the provider, so a second one would be mistaken for the first.    *)
OneAgentConsent == \A a, b \in ForAgent : IsValid(a) /\ IsValid(b) => a = b

(* A token lets one callback through, however many bring it together.  That  *)
(* callback has read its clock while the consent was valid, or before a      *)
(* replacement read the date it ended the consent with: who is slow behind   *)
(* that reading still goes on with a consent that is over, who reads later   *)
(* is refused, even if he found the consent valid and waits for the row.     *)
UsedWhileValid ==
    [][\A a \in Attempts : consent'[a].uses # consent[a].uses =>
          /\ consent[a].uses = 0
          /\ \E c \in Callbacks :
                /\ callback[c].attempt = a /\ callback'[c] # callback[c]
                /\ \/ callback[c].stood
                   \/ consent[a].replaced /\ callback[c].asOf < consent[a].expiresAt]_consentVars
=============================================================================
