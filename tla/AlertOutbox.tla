----------------------------- MODULE AlertOutbox ------------------------------
(* The outbox of operations alerts (lib/alerts.ts): one incident, and the    *)
(* dispatchers that try to bring it to Telegram - the reporter that raised   *)
(* it and the health cron.  An action is one statement.  Times are kept as   *)
(* what the guards see of them: `due` says that the row may be claimed as of *)
(* now, and `due` of a dispatcher that it may as of the `now` it took before *)
(* it looked, which is the one its claim compares with.                      *)
EXTENDS Naturals

CONSTANTS Senders,    \* dispatchers that can be at work at once
          NoSender,
          MaxSends    \* MAX_ATTEMPTS

ASSUME AlertAssumption == NoSender \notin Senders /\ MaxSends \in Nat \ {0}

VARIABLES alert,       \* the row of the incident
          sender,      \* the dispatchers
          accepted,    \* history: Telegram took the message at least once
          lastSender   \* history: who claimed the row last

alertVars == <<alert, sender, accepted, lastSender>>

(* The counter is compared with MaxSends only, so it stops there.            *)
AlertType == [status : {"none", "pending", "sending", "sent", "dead"},
              attempts : 0 .. MaxSends, leaseId : Senders \cup {NoSender}, due : BOOLEAN]

SenderType == [pc : {"idle", "claim", "send", "record", "defer"},
               seen : 0 .. MaxSends,     \* candidate.attempts
               slow : BOOLEAN,           \* its `now` is more than a lease ago
               due : BOOLEAN,
               behind : SUBSET Senders]  \* dispatchers already slow when it looked

(* The rows hold values of their kinds, and only a row that is being sent    *)
(* has an owner.                                                             *)
AlertTypeOK ==
    /\ alert \in AlertType
    /\ (alert.leaseId # NoSender) = (alert.status = "sending")
    /\ sender \in [Senders -> SenderType]
    /\ accepted \in BOOLEAN
    /\ lastSender \in Senders \cup {NoSender}

NoDispatch == [pc |-> "idle", seen |-> 0, slow |-> FALSE, due |-> FALSE, behind |-> {}]

AlertInit ==
    /\ alert = [status |-> "none", attempts |-> 0, leaseId |-> NoSender, due |-> FALSE]
    /\ sender = [s \in Senders |-> NoDispatch]
    /\ accepted = FALSE
    /\ lastSender = NoSender

(* A second report of the incident finds the row by its idempotency key.     *)
RaiseAlert ==
    /\ alert.status = "none"
    /\ alert' = [alert EXCEPT !.status = "pending", !.due = TRUE]
    /\ UNCHANGED <<sender, accepted, lastSender>>

-----------------------------------------------------------------------------
(* dispatchAgencyAlert                                                       *)
ReclaimsPendingOnly == alert.due /\ alert.status = "pending"
IsDue == alert.due /\ alert.status \in {"pending", "sending"}

FindAlert(s) ==
    /\ sender[s].pc = "idle"
    /\ IsDue
    /\ sender' = [sender EXCEPT ![s] =
           [NoDispatch EXCEPT !.pc = "claim", !.seen = alert.attempts, !.due = TRUE,
                              !.behind = {t \in Senders : sender[t].slow}]]
    /\ UNCHANGED <<alert, accepted, lastSender>>

(* The others' `now` is before this claim, so it shuts them out, but for the *)
(* one that looked when this dispatcher's lease was over before it began.    *)
ShutOut(s) == [t \in Senders |->
    IF sender[t].pc = "claim" THEN [sender[t] EXCEPT !.due = @ /\ s \in sender[t].behind]
    ELSE sender[t]]

CanClaim(s) == sender[s].due /\ alert.status \in {"pending", "sending"}
Fewer(n) == IF n >= MaxSends THEN MaxSends ELSE n
ClaimAlert(s) ==
    /\ sender[s].pc = "claim"
    /\ \/ /\ CanClaim(s)
          /\ alert' = [status |-> "sending", attempts |-> Fewer(alert.attempts + 1),
                       leaseId |-> s, due |-> sender[s].slow]
          /\ sender' = [ShutOut(s) EXCEPT ![s] = [NoDispatch EXCEPT !.pc = "send", !.seen = sender[s].seen]]
          /\ lastSender' = s
       \/ /\ ~CanClaim(s)
          /\ sender' = [sender EXCEPT ![s] = NoDispatch]
          /\ UNCHANGED <<alert, lastSender>>
    /\ UNCHANGED accepted

(* Telegram is not configured, takes the message, refuses it, or the request *)
(* times out, with or without the message having been taken.                 *)
ContactTelegram(s) ==
    /\ sender[s].pc = "send"
    /\ accepted' \in {accepted, TRUE}
    /\ \/ accepted' /\ sender' = [sender EXCEPT ![s].pc = "record"]
       \/ sender' = [sender EXCEPT ![s].pc = "defer"]
    /\ UNCHANGED <<alert, lastSender>>

OwnsAnySending(s) == alert.status = "sending"
OwnsAlert(s) == alert.status = "sending" /\ alert.leaseId = s

Put(status) == alert' = [alert EXCEPT !.status = status, !.leaseId = NoSender, !.due = FALSE]

(* A dispatcher that no longer owns the row changes nothing.                 *)
RecordSent(s) ==
    /\ sender[s].pc = "record"
    /\ \/ OwnsAlert(s) /\ Put("sent")
       \/ ~OwnsAlert(s) /\ UNCHANGED alert
    /\ sender' = [sender EXCEPT ![s] = NoDispatch]
    /\ UNCHANGED <<accepted, lastSender>>

(* The update fails after the message was taken: the catch defers it.        *)
RecordFails(s) ==
    /\ sender[s].pc = "record"
    /\ sender' = [sender EXCEPT ![s].pc = "defer"]
    /\ UNCHANGED <<alert, accepted, lastSender>>

IsLastOneEarly(s) == sender[s].seen + 2 >= MaxSends
IsLast(s) == sender[s].seen + 1 >= MaxSends

DeferAgencyAlert(s) ==
    /\ sender[s].pc = "defer"
    /\ \/ OwnsAlert(s) /\ Put(IF IsLast(s) THEN "dead" ELSE "pending")
       \/ ~OwnsAlert(s) /\ UNCHANGED alert
    /\ sender' = [sender EXCEPT ![s] = NoDispatch]
    /\ UNCHANGED <<accepted, lastSender>>

-----------------------------------------------------------------------------
(* A statement throws or the process dies: the row stays as it is.           *)
SenderDies(s) ==
    /\ sender[s].pc # "idle"
    /\ sender' = [sender EXCEPT ![s] = NoDispatch]
    /\ UNCHANGED <<alert, accepted, lastSender>>

(* The 30 s of the lease, or the back-off, have passed.                      *)
BecomesDue ==
    /\ alert.status \in {"pending", "sending"} /\ ~alert.due
    /\ alert' = [alert EXCEPT !.due = TRUE]
    /\ UNCHANGED <<sender, accepted, lastSender>>

(* More than 30 s between taking `now` and the claim.                        *)
SenderStalls(s) ==
    /\ sender[s].pc = "claim" /\ ~sender[s].slow
    /\ sender' = [sender EXCEPT ![s].slow = TRUE]
    /\ UNCHANGED <<alert, accepted, lastSender>>

(* deliverPendingAgencyAlerts deletes what was sent 90 days ago.             *)
PurgeSent ==
    /\ alert.status = "sent"
    /\ alert' = [alert EXCEPT !.status = "none", !.attempts = 0]
    /\ accepted' = FALSE
    /\ sender' = [s \in Senders |-> NoDispatch]   \* none of them is 90 days old
    /\ lastSender' = NoSender

SenderStep(s) == ClaimAlert(s) \/ ContactTelegram(s) \/ RecordSent(s) \/ DeferAgencyAlert(s)

AlertNext ==
    \/ RaiseAlert \/ BecomesDue \/ PurgeSent
    \/ \E s \in Senders : \/ FindAlert(s) \/ SenderStep(s) \/ RecordFails(s)
                          \/ SenderDies(s) \/ SenderStalls(s)

AlertSpec == AlertInit /\ [][AlertNext]_alertVars

(* The health cron keeps looking and time passes.  Dispatchers do not die or *)
(* stall for ever: a request is cut off after 10 s, so that a lease of 30 s  *)
(* is not outlived again and again.                                          *)
SendersAtWork == {s \in Senders : sender[s].pc # "idle"}
Disturbance ==
    \/ \E s \in Senders : (SenderDies(s) \/ SenderStalls(s)) /\ ~SenderStep(s)
    \/ BecomesDue /\ alert.leaseId \in SendersAtWork

AlertFairness ==
    /\ WF_alertVars(\E s \in Senders : FindAlert(s))
    /\ \A s \in Senders : WF_alertVars(SenderStep(s))
    /\ WF_alertVars(BecomesDue)
    /\ <>[][~Disturbance]_alertVars

-----------------------------------------------------------------------------
(* An alert counts as sent only if Telegram took it, whichever of the        *)
(* overlapping dispatchers recorded it, and is given up only after MaxSends  *)
(* claims, though that is decided from the counter as it was before the claim*)
(* by a dispatcher that others may have overtaken.                           *)
AlertVerdictsAreTrue == /\ alert.status = "sent" => accepted
                        /\ alert.status = "dead" => alert.attempts = MaxSends

(* The dispatcher that claimed the alert last owns it until it has decided:  *)
(* a stale one that comes back late neither defers, nor closes, nor releases *)
(* the alert under it.                                                       *)
LatestClaimStands ==
    \A s \in Senders : sender[s].pc \in {"send", "record", "defer"} /\ lastSender = s => OwnsAlert(s)

(* Every alert is delivered or given up: one that a dead dispatcher left     *)
(* behind is found again.                                                    *)
AlertsSettle == []<>(alert.status \notin {"pending", "sending"})
=============================================================================
