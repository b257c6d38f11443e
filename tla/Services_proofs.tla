--------------------------- MODULE Services_proofs ---------------------------
(* Theorems about the services that hold a few rows each: the two outboxes   *)
(* (AlertOutbox, ReportEmail), the consents of providers (OAuthAttempts) and *)
(* the sessions of a user (UserSessions), for any number of dispatchers,     *)
(* requests, tries, consents, callbacks and sessions.                        *)
EXTENDS AlertOutbox, ReportEmail, OAuthAttempts, UserSessions, FiniteSetTheorems, TLAPS

USE AlertAssumption, MailAssumption, ConsentAssumption, SessionAssumption

-----------------------------------------------------------------------------
(* Alerts.  Of the counter a dispatcher has read, the row can only be ahead; *)
(* what it records as sent was accepted.                                     *)
CounterAhead(s) ==
    /\ sender[s].pc = "claim" => sender[s].seen <= alert.attempts
    /\ sender[s].pc \in {"send", "record", "defer"} => Fewer(sender[s].seen + 1) <= alert.attempts
RecordsAccepted(s) == sender[s].pc = "record" => accepted

AlertInv == /\ AlertTypeOK
            /\ AlertVerdictsAreTrue
            /\ LatestClaimStands
            /\ \A s \in Senders : CounterAhead(s) /\ RecordsAccepted(s)

LEMMA FewerType ==
    ASSUME NEW n \in Nat
    PROVE  /\ Fewer(n) \in 0 .. MaxSends
           /\ Fewer(n) <= n
           /\ n >= MaxSends => Fewer(n) = MaxSends
           /\ \A k \in Nat : k <= n => Fewer(k) <= Fewer(n)
BY DEF Fewer

LEMMA RestingDispatch == NoDispatch \in SenderType /\ NoDispatch.pc = "idle"
BY DEF NoDispatch, SenderType

(* With all dispatchers at rest the row alone has to be in order.            *)
LEMMA AllAtRest ==
    ASSUME sender = [s \in Senders |-> NoDispatch],
           alert \in AlertType, alert.status \in {"none", "pending"}, alert.leaseId = NoSender,
           accepted = FALSE, lastSender = NoSender
    PROVE  AlertInv
<1>1. /\ sender \in [Senders -> SenderType]
      /\ \A s \in Senders : sender[s].pc = "idle"
    BY RestingDispatch
<1>2. (alert.leaseId # NoSender) = (alert.status = "sending")
    OBVIOUS
<1>3. AlertTypeOK
    BY <1>1, <1>2 DEF AlertTypeOK
<1> QED BY <1>1, <1>3 DEF AlertInv, AlertVerdictsAreTrue, LatestClaimStands, CounterAhead, RecordsAccepted

LEMMA AlertInvInit == AlertInit => AlertInv
<1> SUFFICES ASSUME AlertInit PROVE AlertInv
    OBVIOUS
<1>1. alert \in AlertType /\ alert.status = "none" /\ alert.leaseId = NoSender
    BY DEF AlertInit, AlertType
<1> QED BY <1>1, AllAtRest DEF AlertInit

(* A step of the row that ends in another state than "sending".              *)
LEMMA PutType ==
    ASSUME AlertTypeOK, NEW status \in {"pending", "sent", "dead"}, Put(status)
    PROVE  /\ alert' \in AlertType
           /\ alert'.status = status /\ alert'.leaseId = NoSender
           /\ alert'.attempts = alert.attempts
BY DEF AlertTypeOK, AlertType, Put

LEMMA LeaveType ==
    ASSUME AlertTypeOK, NEW s \in Senders, sender' = [sender EXCEPT ![s] = NoDispatch]
    PROVE  /\ sender' \in [Senders -> SenderType]
           /\ sender'[s].pc = "idle"
           /\ \A t \in Senders \ {s} : sender'[t] = sender[t]
BY RestingDispatch DEF AlertTypeOK

LEMMA GoesOnType ==
    ASSUME AlertTypeOK, NEW s \in Senders, NEW point \in {"record", "defer"},
           sender' = [sender EXCEPT ![s].pc = point]
    PROVE  /\ sender' \in [Senders -> SenderType]
           /\ sender'[s].pc = point /\ sender'[s].seen = sender[s].seen
           /\ \A t \in Senders \ {s} : sender'[t] = sender[t]
<1>1. sender[s] \in SenderType
    BY DEF AlertTypeOK
<1>2. [sender[s] EXCEPT !.pc = point] \in SenderType
    BY <1>1 DEF SenderType
<1> QED BY <1>1, <1>2 DEF AlertTypeOK, SenderType

LEMMA AlertInvStep == AlertInv /\ [AlertNext]_alertVars => AlertInv'
<1> SUFFICES ASSUME AlertInv, [AlertNext]_alertVars
             PROVE  AlertInv'
    OBVIOUS
<1>0. /\ AlertTypeOK /\ alert \in AlertType /\ sender \in [Senders -> SenderType]
      /\ \A s \in Senders : sender[s] \in SenderType
      /\ lastSender \in Senders \cup {NoSender} /\ accepted \in BOOLEAN
    BY DEF AlertInv, AlertTypeOK
<1> USE DEF AlertInv
<1>1. CASE RaiseAlert
    BY <1>0, <1>1 DEF RaiseAlert, AlertTypeOK, AlertType, AlertVerdictsAreTrue, LatestClaimStands,
       OwnsAlert, CounterAhead, RecordsAccepted
<1>2. CASE BecomesDue
    BY <1>0, <1>2 DEF BecomesDue, AlertTypeOK, AlertType, AlertVerdictsAreTrue, LatestClaimStands,
       OwnsAlert, CounterAhead, RecordsAccepted
<1>3. CASE PurgeSent
    <2>1. /\ sender' = [s \in Senders |-> NoDispatch] /\ accepted' = FALSE /\ lastSender' = NoSender
          /\ alert' = [alert EXCEPT !.status = "none", !.attempts = 0] /\ alert.status = "sent"
        BY <1>3 DEF PurgeSent
    <2>2. alert' \in AlertType /\ alert'.status = "none" /\ alert'.leaseId = NoSender
        <3>1. alert.leaseId = NoSender
            BY <2>1 DEF AlertTypeOK
        <3>2. 0 \in 0 .. MaxSends
            OBVIOUS
        <3>3. alert \in AlertType
            BY <1>0
        <3> QED BY <2>1, <3>1, <3>2, <3>3 DEF AlertType
    <2>3. /\ sender' \in [Senders -> SenderType]
          /\ \A s \in Senders : sender'[s].pc = "idle"
        BY <2>1, RestingDispatch
    <2>4. (alert'.leaseId # NoSender) = (alert'.status = "sending")
        BY <2>2
    <2>5. AlertTypeOK'
        BY <2>1, <2>2, <2>3, <2>4 DEF AlertTypeOK
    <2> QED BY <2>2, <2>3, <2>5 DEF AlertVerdictsAreTrue, LatestClaimStands, CounterAhead, RecordsAccepted
<1>4. ASSUME NEW s \in Senders, FindAlert(s) PROVE AlertInv'
    <2> DEFINE found == [NoDispatch EXCEPT !.pc = "claim", !.seen = alert.attempts, !.due = TRUE,
                                           !.behind = {t \in Senders : sender[t].slow}]
    <2>1. found \in SenderType /\ found.pc = "claim" /\ found.seen = alert.attempts
        BY <1>0 DEF NoDispatch, SenderType, AlertType
    <2>2. sender' = [sender EXCEPT ![s] = found] /\ UNCHANGED <<alert, accepted, lastSender>>
        BY <1>4 DEF FindAlert
    <2> HIDE DEF found
    <2>3. /\ sender' \in [Senders -> SenderType] /\ sender'[s] = found
          /\ \A t \in Senders \ {s} : sender'[t] = sender[t]
        BY <1>0, <2>1, <2>2
    <2>4. AlertTypeOK'
        BY <1>0, <2>2, <2>3 DEF AlertTypeOK
    <2>5. AlertVerdictsAreTrue' /\ LatestClaimStands'
        BY <2>1, <2>2, <2>3 DEF AlertVerdictsAreTrue, LatestClaimStands, OwnsAlert
    <2>6. ASSUME NEW t \in Senders PROVE (CounterAhead(t) /\ RecordsAccepted(t))'
        BY <1>0, <2>1, <2>2, <2>3 DEF CounterAhead, RecordsAccepted, AlertType
    <2> QED BY <2>4, <2>5, <2>6
<1>5. ASSUME NEW s \in Senders, ClaimAlert(s) PROVE AlertInv'
    <2>1. CASE ~CanClaim(s)
        <3>1. UNCHANGED <<alert, accepted, lastSender>> /\ sender' = [sender EXCEPT ![s] = NoDispatch]
            BY <1>5, <2>1 DEF ClaimAlert
        <3> QED BY <1>0, <3>1, LeaveType DEF AlertTypeOK, AlertVerdictsAreTrue, LatestClaimStands,
                   OwnsAlert, CounterAhead, RecordsAccepted
    <2>2. CASE CanClaim(s)
        <3> DEFINE mine == [NoDispatch EXCEPT !.pc = "send", !.seen = sender[s].seen]
        <3>1. /\ alert' = [status |-> "sending", attempts |-> Fewer(alert.attempts + 1),
                           leaseId |-> s, due |-> sender[s].slow]
              /\ sender' = [ShutOut(s) EXCEPT ![s] = mine]
              /\ lastSender' = s /\ accepted' = accepted /\ sender[s].pc = "claim"
            BY <1>5, <2>2 DEF ClaimAlert
        <3>2. mine \in SenderType /\ mine.pc = "send" /\ mine.seen = sender[s].seen
            BY <1>0 DEF NoDispatch, SenderType
        <3> HIDE DEF mine
        <3>3. ASSUME NEW t \in Senders
              PROVE  /\ ShutOut(s)[t] \in SenderType
                     /\ ShutOut(s)[t].pc = sender[t].pc /\ ShutOut(s)[t].seen = sender[t].seen
            <4>1. sender[t] \in SenderType
                BY <1>0
            <4>2. CASE sender[t].pc # "claim"
                BY <4>1, <4>2 DEF ShutOut
            <4>3. CASE sender[t].pc = "claim"
                <5> DEFINE open == sender[t].due /\ s \in sender[t].behind
                <5>1. open \in BOOLEAN
                    OBVIOUS
                <5>2. ShutOut(s)[t] = [sender[t] EXCEPT !.due = open]
                    BY <4>3 DEF ShutOut
                <5> HIDE DEF open
                <5> QED BY <4>1, <5>1, <5>2 DEF SenderType
            <4> QED BY <4>2, <4>3
        <3>4. /\ sender' \in [Senders -> SenderType] /\ sender'[s] = mine
              /\ \A t \in Senders \ {s} : sender'[t].pc = sender[t].pc /\ sender'[t].seen = sender[t].seen
            <4>1. ShutOut(s) \in [Senders -> SenderType]
                BY <3>3 DEF ShutOut
            <4> QED BY <3>1, <3>2, <3>3, <4>1
        <3>5. alert.attempts \in Nat /\ alert.attempts <= MaxSends
            BY <1>0 DEF AlertType
        <3>6. /\ Fewer(alert.attempts + 1) \in 0 .. MaxSends
              /\ alert.attempts <= Fewer(alert.attempts + 1)
              /\ \A k \in Nat : k <= alert.attempts => Fewer(k + 1) <= Fewer(alert.attempts + 1)
            BY <3>5 DEF Fewer
        <3>7. AlertTypeOK'
            BY <1>0, <3>1, <3>4, <3>6 DEF AlertTypeOK, AlertType, SenderType
        <3>8. AlertVerdictsAreTrue' /\ LatestClaimStands'
            BY <3>1 DEF AlertVerdictsAreTrue, LatestClaimStands, OwnsAlert
        <3>9. ASSUME NEW t \in Senders PROVE (CounterAhead(t) /\ RecordsAccepted(t))'
            <4>1. /\ sender[t].seen \in Nat /\ sender[t].seen <= MaxSends
                  /\ Fewer(sender[t].seen + 1) \in Nat
                BY <1>0, FewerType DEF SenderType
            <4>2. CASE t = s
                BY <3>1, <3>2, <3>4, <3>5, <3>6, <4>1, <4>2 DEF CounterAhead, RecordsAccepted
            <4>3. CASE t # s
                BY <3>1, <3>4, <3>5, <3>6, <4>1, <4>3 DEF CounterAhead, RecordsAccepted
            <4> QED BY <4>2, <4>3
        <3> QED BY <3>7, <3>8, <3>9
    <2> QED BY <1>0, <2>1, <2>2
<1>6. ASSUME NEW s \in Senders, ContactTelegram(s) PROVE AlertInv'
    <2>1. PICK point \in {"record", "defer"} :
              /\ sender' = [sender EXCEPT ![s].pc = point]
              /\ point = "record" => accepted'
        BY <1>6 DEF ContactTelegram
    <2>2. /\ accepted' \in {accepted, TRUE}
          /\ UNCHANGED <<alert, lastSender>> /\ sender[s].pc = "send"
        BY <1>6 DEF ContactTelegram
    <2>3. accepted' \in BOOLEAN /\ (accepted => accepted')
        BY <1>0, <2>2, Zenon
    <2>4. AlertTypeOK'
        BY <1>0, <2>1, <2>2, <2>3, GoesOnType DEF AlertTypeOK
    <2>5. AlertVerdictsAreTrue'
        BY <2>2, <2>3 DEF AlertVerdictsAreTrue
    <2>6. ASSUME NEW t \in Senders PROVE RecordsAccepted(t)'
        BY <1>0, <2>1, <2>3, GoesOnType DEF RecordsAccepted
    <2>7. LatestClaimStands' /\ \A t \in Senders : CounterAhead(t)'
        BY <1>0, <2>1, <2>2, GoesOnType DEF LatestClaimStands, OwnsAlert, CounterAhead
    <2> QED BY <2>4, <2>5, <2>6, <2>7
<1>7. ASSUME NEW s \in Senders, RecordSent(s) PROVE AlertInv'
    <2>1. /\ \/ OwnsAlert(s) /\ Put("sent")
             \/ UNCHANGED alert
          /\ sender' = [sender EXCEPT ![s] = NoDispatch]
          /\ UNCHANGED <<accepted, lastSender>> /\ accepted
        BY <1>7 DEF RecordSent, RecordsAccepted
    <2>2. CASE UNCHANGED alert
        BY <1>0, <2>1, <2>2, LeaveType, ZenonT(30) DEF AlertTypeOK, AlertVerdictsAreTrue, LatestClaimStands,
           OwnsAlert, CounterAhead, RecordsAccepted
    <2>3. CASE OwnsAlert(s) /\ Put("sent")
        BY <1>0, <2>1, <2>3, LeaveType, PutType, ZenonT(30) DEF AlertTypeOK, AlertVerdictsAreTrue,
           LatestClaimStands, OwnsAlert, CounterAhead, RecordsAccepted
    <2> QED BY <2>1, <2>2, <2>3
<1>8. ASSUME NEW s \in Senders, RecordFails(s) PROVE AlertInv'
    <2>1. /\ sender' = [sender EXCEPT ![s].pc = "defer"] /\ sender[s].pc = "record"
          /\ UNCHANGED <<alert, accepted, lastSender>>
        BY <1>8 DEF RecordFails
    <2>2. /\ sender' \in [Senders -> SenderType]
          /\ sender'[s].pc = "defer" /\ sender'[s].seen = sender[s].seen
          /\ \A t \in Senders \ {s} : sender'[t] = sender[t]
        BY <1>0, <2>1, GoesOnType
    <2>3. AlertTypeOK' /\ AlertVerdictsAreTrue'
        BY <1>0, <2>1, <2>2 DEF AlertTypeOK, AlertVerdictsAreTrue
    <2>4. LatestClaimStands'
        BY <2>1, <2>2 DEF LatestClaimStands, OwnsAlert
    <2>5. \A t \in Senders : (CounterAhead(t) /\ RecordsAccepted(t))'
        BY <2>1, <2>2 DEF CounterAhead, RecordsAccepted
    <2> QED BY <2>3, <2>4, <2>5
<1>9. ASSUME NEW s \in Senders, DeferAgencyAlert(s) PROVE AlertInv'
    <2>1. /\ \/ OwnsAlert(s) /\ Put(IF IsLast(s) THEN "dead" ELSE "pending")
             \/ UNCHANGED alert
          /\ sender' = [sender EXCEPT ![s] = NoDispatch]
          /\ UNCHANGED <<accepted, lastSender>> /\ sender[s].pc = "defer"
        BY <1>9 DEF DeferAgencyAlert
    <2>2. CASE UNCHANGED alert
        BY <1>0, <2>1, <2>2, LeaveType DEF AlertTypeOK, AlertVerdictsAreTrue, LatestClaimStands,
           OwnsAlert, CounterAhead, RecordsAccepted
    <2>3. CASE OwnsAlert(s) /\ Put(IF IsLast(s) THEN "dead" ELSE "pending")
        <3>1. IsLast(s) => alert.attempts = MaxSends
            <4>1. sender[s].seen \in Nat /\ alert.attempts \in 0 .. MaxSends
                BY <1>0 DEF SenderType, AlertType
            <4>2. Fewer(sender[s].seen + 1) <= alert.attempts
                BY <2>1 DEF CounterAhead
            <4> QED BY <4>1, <4>2 DEF IsLast, Fewer
        <3> QED BY <1>0, <2>1, <2>3, <3>1, LeaveType, PutType, ZenonT(30) DEF AlertTypeOK, AlertVerdictsAreTrue,
                   LatestClaimStands, OwnsAlert, CounterAhead, RecordsAccepted
    <2> QED BY <2>1, <2>2, <2>3
<1>10. ASSUME NEW s \in Senders, SenderDies(s) PROVE AlertInv'
    BY <1>0, <1>10, LeaveType DEF SenderDies, AlertTypeOK, AlertVerdictsAreTrue, LatestClaimStands,
       OwnsAlert, CounterAhead, RecordsAccepted
<1>11. ASSUME NEW s \in Senders, SenderStalls(s) PROVE AlertInv'
    <2> DEFINE slower == [sender[s] EXCEPT !.slow = TRUE]
    <2>1. /\ slower \in SenderType
          /\ slower.pc = sender[s].pc /\ slower.seen = sender[s].seen
        <3>1. sender[s] \in SenderType
            BY <1>0
        <3> QED BY <3>1 DEF SenderType
    <2>2. /\ sender' \in [Senders -> SenderType]
          /\ \A t \in Senders : sender'[t].pc = sender[t].pc /\ sender'[t].seen = sender[t].seen
        <3>1. sender' = [sender EXCEPT ![s] = slower]
            BY <1>11 DEF SenderStalls
        <3> HIDE DEF slower
        <3> QED BY <1>0, <2>1, <3>1
    <2> QED BY <1>0, <1>11, <2>2 DEF SenderStalls, AlertTypeOK, AlertVerdictsAreTrue,
               LatestClaimStands, OwnsAlert, CounterAhead, RecordsAccepted
<1>12. CASE UNCHANGED alertVars
    BY <1>0, <1>12 DEF alertVars, AlertTypeOK, AlertVerdictsAreTrue, LatestClaimStands, OwnsAlert,
       CounterAhead, RecordsAccepted
<1> QED BY <1>1, <1>2, <1>3, <1>4, <1>5, <1>6, <1>7, <1>8, <1>9, <1>10, <1>11, <1>12
           DEF AlertNext, SenderStep

(* The row and the locals of the dispatchers keep their kinds.               *)
LEMMA AlertTyped == AlertSpec => []AlertTypeOK
<1>1. AlertInv => AlertTypeOK
    BY DEF AlertInv
<1> QED BY <1>1, AlertInvInit, AlertInvStep, PTL DEF AlertSpec

(* Sent means accepted and given up means tried MaxSends times, whichever    *)
(* dispatchers overtook each other between their reads and their updates.    *)
THEOREM AlertVerdictsTrue == AlertSpec => []AlertVerdictsAreTrue
<1>1. AlertInv => AlertVerdictsAreTrue
    BY DEF AlertInv
<1> QED BY <1>1, AlertInvInit, AlertInvStep, PTL DEF AlertSpec

(* The dispatcher that claimed last owns the alert until it has decided.     *)
THEOREM LatestDispatcherDecides == AlertSpec => []LatestClaimStands
<1>1. AlertInv => LatestClaimStands
    BY DEF AlertInv
<1> QED BY <1>1, AlertInvInit, AlertInvStep, PTL DEF AlertSpec

-----------------------------------------------------------------------------
(* Mails.  A request that sends, or has to record what became of it, holds   *)
(* the claim of the snapshot; one that has not come so far has no row.       *)
MayBeTaken == {"PROVIDER_STARTED", "AMBIGUOUS"}

RowOf(r) ==
    /\ request[r].pc \in {"send", "record"} => attempt[r].status \in MayBeTaken
    /\ request[r].pc \notin {"send", "record", "ended"} => attempt[r].status = "none"
    /\ request[r].pc = "record" => request[r].outcome # "none"
    /\ request[r].pc = "declare" => request[r].stale \in Requests

KeysDiffer == \A q, r \in Sends : Key[q] = Key[r] => q = r

MailInv == /\ MailTypeOK
           /\ NoSecondMail
           /\ KeysDiffer
           /\ mailed \subseteq Sends
           /\ \A r \in Requests : RowOf(r)

LEMMA MailInvInit == MailInit => MailInv
<1> SUFFICES ASSUME MailInit PROVE MailInv
    OBVIOUS
<1>1. \A r \in Requests : /\ attempt[r] = [status |-> "none", claims |-> FALSE, old |-> FALSE]
                          /\ request[r] = [pc |-> "new", stale |-> NoRequestId, outcome |-> "none"]
    BY DEF MailInit
<1>2. attempt \in [Requests -> AttemptType] /\ request \in [Requests -> RequestType]
    BY DEF MailInit, AttemptType, RequestType
<1>3. ASSUME NEW r \in Requests
      PROVE  attempt[r].claims = (attempt[r].status \in MayBeTaken)
    <2>1. attempt[r].claims = FALSE /\ attempt[r].status = "none"
        BY <1>1
    <2>2. ("none" \in MayBeTaken) = FALSE
        BY DEF MayBeTaken
    <2> QED BY <2>1, <2>2
<1>4. MailTypeOK
    BY <1>2, <1>3 DEF MailTypeOK, MayBeTaken, MailInit
<1> QED BY <1>1, <1>4 DEF MailInv, NoSecondMail, KeysDiffer, Sends, Open, RowOf, MailInit, MayBeTaken

(* The two columns agree: who holds the claim is open, and the other way.    *)
LEMMA ClaimingIsOpen == MailTypeOK => Claiming = Open
BY DEF MailTypeOK, Claiming, Open

(* What Goes and Declares do to the requests.                                *)
LEMMA MailGoes ==
    ASSUME MailTypeOK, NEW r \in Requests,
           NEW point \in {"check", "active", "create", "send", "ended"}, Goes(r, point)
    PROVE  /\ request' \in [Requests -> RequestType]
           /\ request'[r].pc = point
           /\ \A q \in Requests \ {r} : request'[q] = request[q]
<1>1. request \in [Requests -> RequestType] /\ request[r] \in RequestType
    BY DEF MailTypeOK
<1>2. [request[r] EXCEPT !.pc = point] \in RequestType
    BY <1>1 DEF RequestType
<1> QED BY <1>1, <1>2 DEF Goes, RequestType

LEMMA MailDeclares ==
    ASSUME MailTypeOK, NEW r \in Requests, NEW q \in Requests, Declares(r, q)
    PROVE  /\ request' \in [Requests -> RequestType]
           /\ request'[r].pc = "declare" /\ request'[r].stale = q
           /\ \A p \in Requests \ {r} : request'[p] = request[p]
<1>1. request \in [Requests -> RequestType] /\ request[r] \in RequestType
    BY DEF MailTypeOK
<1> DEFINE row == [request[r] EXCEPT !.pc = "declare", !.stale = q]
<1>2. row \in RequestType /\ row.pc = "declare" /\ row.stale = q
    BY <1>1 DEF RequestType
<1>3. request' = [request EXCEPT ![r] = row]
    BY <1>1 DEF Declares
<1> HIDE DEF row
<1> QED BY <1>1, <1>2, <1>3

(* Steps that only read the rows.                                            *)
LEMMA MailReads ==
    ASSUME MailInv, UNCHANGED <<attempt, mailed>>, request' \in [Requests -> RequestType],
           \A r \in Requests : RowOf(r)'
    PROVE  MailInv'
BY DEF MailInv, MailTypeOK, NoSecondMail, KeysDiffer, Open, Sends

(* Steps that write a row: what has to be shown of it.                       *)
LEMMA RowWritten ==
    ASSUME MailInv, NEW q \in Requests, NEW row \in AttemptType,
           row.claims = (row.status \in MayBeTaken), row.status # "none",
           attempt' = [attempt EXCEPT ![q] = row],
           request' \in [Requests -> RequestType], mailed' = mailed,
           row.status \in MayBeTaken => \A r \in Open : r = q,
           attempt[q].status = "none" => \A r \in Sends : Key[r] # Key[q],
           \A r \in Requests : RowOf(r)'
    PROVE  MailInv'
<1>1. /\ attempt' \in [Requests -> AttemptType] /\ attempt'[q] = row
      /\ \A r \in Requests \ {q} : attempt'[r] = attempt[r]
    BY DEF MailInv, MailTypeOK
<1>2. MailTypeOK'
    <2>1. ASSUME NEW r \in Requests
          PROVE  attempt'[r].claims = (attempt'[r].status \in {"PROVIDER_STARTED", "AMBIGUOUS"})
        <3>1. CASE r = q
            BY <1>1, <3>1 DEF MayBeTaken
        <3>2. CASE r # q
            BY <1>1, <3>2 DEF MailInv, MailTypeOK
        <3> QED BY <3>1, <3>2
    <2> QED BY <1>1, <2>1 DEF MailInv, MailTypeOK
<1>3. Sends' = Sends \cup {q}
    BY <1>1 DEF Sends
<1>4. Open' \subseteq IF row.status \in MayBeTaken THEN Open \cup {q} ELSE Open
    BY <1>1 DEF Open, MayBeTaken
<1>5. \A r, t \in Open' : r = t
    BY <1>4 DEF MailInv, NoSecondMail
<1>6. KeysDiffer'
    <2>1. attempt[q].status # "none" => q \in Sends
        BY DEF Sends
    <2> QED BY <1>3, <2>1 DEF MailInv, KeysDiffer
<1> QED BY <1>2, <1>3, <1>5, <1>6 DEF MailInv, NoSecondMail

LEMMA MailInvStep == MailInv /\ [MailNext]_mailVars => MailInv'
<1> SUFFICES ASSUME MailInv, [MailNext]_mailVars
             PROVE  MailInv'
    OBVIOUS
<1>0. /\ MailTypeOK /\ attempt \in [Requests -> AttemptType] /\ request \in [Requests -> RequestType]
      /\ \A r \in Requests : RowOf(r) /\ attempt[r] \in AttemptType /\ request[r] \in RequestType
    BY DEF MailInv, MailTypeOK
<1>1. ASSUME NEW r \in Requests, LookUpKey(r) \/ CheckSnapshot(r) \/ CheckClaim(r) PROVE MailInv'
    <2>1. /\ UNCHANGED <<attempt, mailed>> /\ request[r].pc \notin {"send", "record", "ended"}
          /\ \/ \E point \in {"check", "active", "create", "ended"} : Goes(r, point)
             \/ \E q \in Requests : Declares(r, q)
        BY <1>1 DEF LookUpKey, CheckSnapshot, CheckClaim, Sends, Claiming
    <2>2. CASE \E point \in {"check", "active", "create", "ended"} : Goes(r, point)
        BY <1>0, <2>1, <2>2, MailGoes, MailReads DEF RowOf
    <2>3. CASE \E q \in Requests : Declares(r, q)
        BY <1>0, <2>1, <2>3, MailDeclares, MailReads DEF RowOf
    <2> QED BY <2>1, <2>2, <2>3
<1>2. ASSUME NEW r \in Requests, DeclareAmbiguous(r) PROVE MailInv'
    <2> DEFINE q == request[r].stale
               row == [attempt[q] EXCEPT !.status = "AMBIGUOUS"]
    <2>1. q \in Requests /\ request[r].pc = "declare" /\ mailed' = mailed
        BY <1>0, <1>2 DEF DeclareAmbiguous, RowOf
    <2>2. /\ request' \in [Requests -> RequestType] /\ request'[r].pc = "ended"
          /\ \A p \in Requests \ {r} : request'[p] = request[p]
        <3> DEFINE over == [request[r] EXCEPT !.pc = "ended", !.stale = NoRequestId]
        <3>1. over \in RequestType /\ over.pc = "ended"
            BY <1>0 DEF RequestType
        <3>2. request' = [request EXCEPT ![r] = over]
            BY <1>0, <1>2 DEF DeclareAmbiguous
        <3> HIDE DEF over
        <3> QED BY <1>0, <3>1, <3>2
    <2>3. CASE ~StillStarted(q)
        BY <1>0, <1>2, <2>1, <2>2, <2>3, MailReads DEF DeclareAmbiguous, RowOf
    <2>4. CASE StillStarted(q)
        <3>1. attempt[q].status = "PROVIDER_STARTED" /\ q \in Open /\ q \in Sends
            BY <2>1, <2>4 DEF StillStarted, Open, Sends
        <3>2. attempt[q].claims = TRUE
            BY <2>1, <3>1 DEF MailInv, MailTypeOK
        <3>3. row \in AttemptType /\ row.status = "AMBIGUOUS" /\ row.claims = TRUE
            BY <1>0, <2>1, <3>2 DEF AttemptType
        <3>4. attempt' = [attempt EXCEPT ![q] = row]
            BY <1>0, <1>2, <2>1, <2>4 DEF DeclareAmbiguous
        <3>5. row.claims = (row.status \in MayBeTaken)
            BY <3>3 DEF MayBeTaken
        <3>6. ASSUME NEW p \in Requests PROVE RowOf(p)'
            BY <1>0, <2>1, <2>2, <3>1, <3>3, <3>4 DEF RowOf, MayBeTaken
        <3>7. \A p \in Open : p = q
            BY <3>1 DEF MailInv, NoSecondMail
        <3> HIDE DEF q, row
        <3> QED BY <2>1, <2>2, <3>1, <3>3, <3>4, <3>5, <3>6, <3>7, RowWritten
    <2> QED BY <2>3, <2>4
<1>3. ASSUME NEW r \in Requests, CreateAttempt(r) PROVE MailInv'
    <2>1. request[r].pc = "create" /\ mailed' = mailed /\ attempt[r].status = "none"
        BY <1>0, <1>3 DEF CreateAttempt, RowOf
    <2>2. CASE ~Unique(r)
        BY <1>0, <1>3, <2>1, <2>2, MailGoes, MailReads DEF CreateAttempt, RowOf
    <2>3. CASE Unique(r)
        <3> DEFINE row == [attempt[r] EXCEPT !.status = "PROVIDER_STARTED", !.claims = TRUE]
        <3>1. row \in AttemptType /\ row.status = "PROVIDER_STARTED" /\ row.claims = TRUE
            BY <1>0 DEF AttemptType
        <3>2. attempt' = [attempt EXCEPT ![r] = row] /\ Goes(r, "send")
            BY <1>0, <1>3, <2>3 DEF CreateAttempt
        <3>3. row.claims = (row.status \in MayBeTaken)
            BY <3>1 DEF MayBeTaken
        <3>4. Open = {} /\ \A q \in Sends : Key[q] # Key[r]
            BY <1>0, <2>3, ClaimingIsOpen DEF Unique
        <3> HIDE DEF row
        <3>5. ASSUME NEW p \in Requests PROVE RowOf(p)'
            BY <1>0, <3>1, <3>2, MailGoes DEF RowOf, MayBeTaken
        <3>6. request' \in [Requests -> RequestType]
            BY <1>0, <3>2, MailGoes
        <3> QED BY <2>1, <3>1, <3>2, <3>3, <3>4, <3>5, <3>6, RowWritten
    <2> QED BY <2>2, <2>3
<1>4. ASSUME NEW r \in Requests, SendMail(r) PROVE MailInv'
    <2>1. PICK o \in Outcomes :
              /\ mailed' = IF o.taken THEN mailed \cup {r} ELSE mailed
              /\ request' = [request EXCEPT ![r].pc = "record", ![r].outcome = o.says]
        BY <1>4 DEF SendMail
    <2>2. /\ request[r].pc = "send" /\ attempt' = attempt
          /\ o.says \in {"ACCEPTED", "DEFINITIVE_FAILED", "AMBIGUOUS"}
        BY <1>4 DEF SendMail, Outcomes
    <2> DEFINE row == [request[r] EXCEPT !.pc = "record", !.outcome = o.says]
    <2>3. row \in RequestType /\ row.pc = "record" /\ row.outcome = o.says
        BY <1>0, <2>2 DEF RequestType
    <2>4. request' = [request EXCEPT ![r] = row]
        BY <1>0, <2>1
    <2> HIDE DEF row
    <2>5. /\ request' \in [Requests -> RequestType] /\ request'[r] = row
          /\ \A q \in Requests \ {r} : request'[q] = request[q]
        BY <1>0, <2>3, <2>4
    <2>6. \A q \in Requests : RowOf(q)'
        BY <1>0, <2>2, <2>3, <2>5 DEF RowOf
    <2>7. mailed' \subseteq Sends /\ Sends' = Sends
        BY <1>0, <2>1, <2>2 DEF MailInv, Sends, RowOf, MayBeTaken
    <2>8. MailTypeOK' /\ KeysDiffer' /\ Open' = Open
        BY <2>2, <2>5, <2>7 DEF MailInv, MailTypeOK, KeysDiffer, Sends, Open
    <2> QED BY <2>6, <2>7, <2>8 DEF MailInv, NoSecondMail, KeysDiffer
<1>5. ASSUME NEW r \in Requests, RecordOutcome(r) PROVE MailInv'
    <2> DEFINE outcome == request[r].outcome
               row == [attempt[r] EXCEPT !.status = outcome, !.claims = KeepsClaim(outcome)]
               over == [request[r] EXCEPT !.pc = "ended", !.outcome = "none"]
    <2>1. /\ request[r].pc = "record" /\ attempt[r].status \in MayBeTaken /\ mailed' = mailed
          /\ outcome \in {"ACCEPTED", "DEFINITIVE_FAILED", "AMBIGUOUS"}
        BY <1>0, <1>5 DEF RecordOutcome, RowOf, RequestType
    <2>2. /\ attempt' = [attempt EXCEPT ![r] = row]
          /\ request' = [request EXCEPT ![r] = over]
        BY <1>0, <1>5 DEF RecordOutcome
    <2>3. over \in RequestType /\ over.pc = "ended"
        BY <1>0 DEF RequestType
    <2>4. KeepsClaim(outcome) \in BOOLEAN /\ (KeepsClaim(outcome) = (outcome \in MayBeTaken))
        BY <2>1 DEF KeepsClaim, MayBeTaken
    <2> HIDE DEF outcome, over
    <2>5. row \in AttemptType /\ row.status = outcome /\ row.claims = KeepsClaim(outcome)
        BY <1>0, <2>1, <2>4 DEF AttemptType
    <2> HIDE DEF row
    <2>6. /\ request' \in [Requests -> RequestType] /\ request'[r] = over
          /\ \A q \in Requests \ {r} : request'[q] = request[q]
        BY <1>0, <2>2, <2>3
    <2>7. \A q \in Requests : RowOf(q)'
        BY <1>0, <2>1, <2>2, <2>3, <2>6 DEF RowOf
    <2>8. r \in Open /\ (\A q \in Open : q = r) /\ attempt[r].status # "none"
        BY <2>1 DEF Open, MayBeTaken, MailInv, NoSecondMail
    <2>9. row.status # "none" /\ (row.claims = (row.status \in MayBeTaken))
        BY <2>1, <2>4, <2>5
    <2> QED BY <2>1, <2>2, <2>5, <2>6, <2>7, <2>8, <2>9, RowWritten
<1>6. ASSUME NEW r \in Requests, RequestEnds(r) PROVE MailInv'
    <2> DEFINE over == [pc |-> "ended", stale |-> NoRequestId, outcome |-> "none"]
    <2>1. /\ attempt' = attempt /\ request' = [request EXCEPT ![r] = over]
          /\ mailed' \subseteq IF request[r].pc = "send" THEN mailed \cup {r} ELSE mailed
        BY <1>6 DEF RequestEnds
    <2>2. over \in RequestType /\ over.pc = "ended"
        BY DEF RequestType
    <2> HIDE DEF over
    <2>3. /\ request' \in [Requests -> RequestType] /\ request'[r] = over
          /\ \A q \in Requests \ {r} : request'[q] = request[q]
        BY <1>0, <2>1, <2>2
    <2>4. \A q \in Requests : RowOf(q)'
        BY <1>0, <2>1, <2>2, <2>3 DEF RowOf
    <2>5. mailed' \subseteq Sends /\ Sends' = Sends
        BY <1>0, <2>1 DEF MailInv, Sends, RowOf, MayBeTaken
    <2>6. MailTypeOK' /\ KeysDiffer' /\ Open' = Open
        BY <2>1, <2>3, <2>5 DEF MailInv, MailTypeOK, KeysDiffer, Sends, Open
    <2> QED BY <2>4, <2>5, <2>6 DEF MailInv, NoSecondMail, KeysDiffer
<1>7. CASE TenMinutesPass
    <2>1. ASSUME NEW r \in Requests
          PROVE  /\ attempt'[r] \in AttemptType
                 /\ attempt'[r].status = attempt[r].status /\ attempt'[r].claims = attempt[r].claims
        BY <1>0, <1>7 DEF TenMinutesPass, AttemptType
    <2>2. attempt' \in [Requests -> AttemptType] /\ UNCHANGED <<request, mailed>>
        BY <1>7, <2>1 DEF TenMinutesPass
    <2>3. MailTypeOK' /\ Open' = Open /\ Sends' = Sends
        BY <2>1, <2>2 DEF MailInv, MailTypeOK, Open, Sends
    <2>4. \A r \in Requests : RowOf(r)'
        BY <1>0, <2>1, <2>2 DEF RowOf
    <2> QED BY <2>2, <2>3, <2>4 DEF MailInv, NoSecondMail, KeysDiffer
<1>8. CASE UNCHANGED mailVars
    BY <1>8 DEF mailVars, MailInv, MailTypeOK, NoSecondMail, KeysDiffer, Open, Sends, RowOf
<1> QED BY <1>1, <1>2, <1>3, <1>4, <1>5, <1>6, <1>7, <1>8 DEF MailNext

(* The rows and requests keep their kinds.                                   *)
LEMMA MailTyped == MailSpec => []MailTypeOK
<1>1. MailInv => MailTypeOK
    BY DEF MailInv
<1> QED BY <1>1, MailInvInit, MailInvStep, PTL DEF MailSpec

(* However many requests overlap, one send at a time is open, and one mail   *)
(* per key is delivered.                                                     *)
THEOREM NeverASecondMail == MailSpec => []NoSecondMail
<1>1. MailInv => NoSecondMail
    BY DEF MailInv
<1> QED BY <1>1, MailInvInit, MailInvStep, PTL DEF MailSpec

(* An answer that was recorded is not replaced by a declaration.             *)
THEOREM AnswersAreFinal == MailSpec => AnswersStand
<1>1. ASSUME MailInv, [MailNext]_mailVars, NEW r \in Requests,
             attempt[r].status \in {"ACCEPTED", "DEFINITIVE_FAILED"}
      PROVE  attempt'[r].status = attempt[r].status
    <2>0. attempt \in [Requests -> AttemptType] /\ \A q \in Requests : RowOf(q)
        BY <1>1 DEF MailInv, MailTypeOK
    <2>1. ASSUME NEW q \in Requests, DeclareAmbiguous(q)
          PROVE  attempt'[r].status = attempt[r].status
        BY <1>1, <2>0, <2>1 DEF DeclareAmbiguous, StillStarted, AttemptType
    <2>2. ASSUME NEW q \in Requests, CreateAttempt(q) \/ RecordOutcome(q)
          PROVE  attempt'[r].status = attempt[r].status
        <3>1. q # r
            BY <1>1, <2>0, <2>2 DEF CreateAttempt, RecordOutcome, RowOf, MayBeTaken
        <3> QED BY <2>0, <2>2, <3>1 DEF CreateAttempt, RecordOutcome, AttemptType
    <2>3. CASE TenMinutesPass
        BY <1>1, <2>0, <2>3 DEF TenMinutesPass, AttemptType
    <2>4. \/ UNCHANGED attempt \/ TenMinutesPass
          \/ \E q \in Requests : DeclareAmbiguous(q) \/ CreateAttempt(q) \/ RecordOutcome(q)
        BY <1>1 DEF MailNext, mailVars, LookUpKey, CheckSnapshot, CheckClaim, SendMail, RequestEnds
    <2> QED BY <2>1, <2>2, <2>3, <2>4
<1>2. MailInv /\ [MailNext]_mailVars =>
          [\A r \in Requests : attempt[r].status \in {"ACCEPTED", "DEFINITIVE_FAILED"}
                                 => attempt'[r].status = attempt[r].status]_mailVars
    BY <1>1
<1> QED BY <1>2, MailInvInit, MailInvStep, PTL DEF MailSpec, AnswersStand

-----------------------------------------------------------------------------
(* OAuthAttempts.  A creation in progress has the lock, so there is one, and *)
(* once it has updated the rows it is about to end every agent consent that  *)
(* is pending, with a date that has passed by then.                          *)
CreationOK(a) ==
    /\ creation[a].asOf <= clock
    /\ creation[a].pc # "idle" => consentLock = a /\ consent[a].status = "none"
    /\ creation[a].pc = "open" => \A b \in ForAgent : consent[b].status = "pending"
                                                        => b \in creation[a].expires

(* A consent that ends after the reading of a callback, and that nobody has  *)
(* replaced, was valid when the clock was read.                              *)
CallbackOK(c) ==
    LET row == consent[callback[c].attempt] IN
    /\ callback[c].pc # "idle" => row.status # "none"
    /\ callback[c].pc = "dated" /\ row.status = "pending" /\ ~row.replaced
          /\ row.expiresAt > callback[c].asOf => callback[c].stood

ConsentInv == /\ ConsentTypeOK /\ OneAgentConsent
              /\ \A a \in ForAgent : CreationOK(a)
              /\ \A c \in Callbacks : CallbackOK(c)

LEMMA ConsentInvInit == ConsentInit => ConsentInv
<1> SUFFICES ASSUME ConsentInit PROVE ConsentInv
    OBVIOUS
<1> DEFINE fresh == [status |-> "none", expiresAt |-> 0, replaced |-> FALSE, uses |-> 0]
<1>1. \A a \in Attempts : consent[a] = fresh
    BY DEF ConsentInit
<1>2. fresh \in ConsentType /\ (fresh.status = "consumed") = (fresh.uses > 0)
    BY DEF ConsentType
<1>3. NotCreating \in CreationType /\ NotCreating.pc = "idle" /\ NotCreating.asOf = 0
    BY DEF NotCreating, CreationType
<1>4. NotCalled \in CallbackType /\ NotCalled.pc = "idle"
    BY DEF NotCalled, CallbackType
<1>5. consent \in [Attempts -> ConsentType]
    BY <1>2 DEF ConsentInit
<1>6. ConsentTypeOK
    BY <1>1, <1>2, <1>3, <1>4, <1>5 DEF ConsentInit, ConsentTypeOK
<1>7. OneAgentConsent
    BY <1>1 DEF OneAgentConsent, IsValid
<1>8. \A a \in ForAgent : CreationOK(a)
    BY <1>3 DEF ConsentInit, CreationOK
<1>9. \A c \in Callbacks : CallbackOK(c)
    BY <1>4 DEF ConsentInit, CallbackOK
<1> QED BY <1>6, <1>7, <1>8, <1>9 DEF ConsentInv

(* What the kinds of the rows and locals say of each of them.                *)
LEMMA ConsentKinds ==
    ASSUME ConsentInv
    PROVE  /\ consent \in [Attempts -> ConsentType]
           /\ creation \in [ForAgent -> CreationType]
           /\ callback \in [Callbacks -> CallbackType]
           /\ clock \in Nat
           /\ \A a \in Attempts : consent[a] \in ConsentType
           /\ \A a \in ForAgent : creation[a] \in CreationType /\ creation[a].asOf \in Nat
           /\ \A c \in Callbacks : /\ callback[c] \in CallbackType /\ callback[c].asOf \in Nat
                                   /\ callback[c].pc # "idle" => callback[c].attempt \in Attempts
BY DEF ConsentInv, ConsentTypeOK, CreationType, CallbackType

(* A callback at rest while its consent stands, is used up or is replaced.   *)
LEMMA CallbackKept ==
    ASSUME ConsentInv, NEW c \in Callbacks, callback'[c] = callback[c],
           callback[c].pc # "idle" =>
              LET a == callback[c].attempt IN
              \/ consent'[a] = consent[a]
              \/ consent'[a].status = "consumed"
              \/ consent'[a].replaced /\ consent'[a].status = consent[a].status
    PROVE  CallbackOK(c)'
<1>1. CallbackOK(c)
    BY DEF ConsentInv
<1> QED BY <1>1 DEF CallbackOK

(* A step that writes one row of a consent, of which it is known that it     *)
(* becomes valid only if it belongs to no agent.                             *)
LEMMA OneRowWritten ==
    ASSUME ConsentInv, NEW a \in Attempts, NEW row \in ConsentType,
           consent' = [consent EXCEPT ![a] = row], UNCHANGED <<creation, consentLock, clock>>,
           (row.status = "consumed") = (row.uses > 0),
           a \in ForAgent => /\ row.status = "pending" => consent[a].status = "pending"
                             /\ row.status = "none" <=> consent[a].status = "none"
                             /\ row.expiresAt = consent[a].expiresAt,
           callback' \in [Callbacks -> CallbackType],
           \A c \in Callbacks : callback'[c].pc # "idle" => callback'[c].attempt \in Attempts,
           \A c \in Callbacks : CallbackOK(c)'
    PROVE  ConsentInv'
<1>1. /\ consent' \in [Attempts -> ConsentType] /\ consent'[a] = row
      /\ \A b \in Attempts \ {a} : consent'[b] = consent[b]
    BY DEF ConsentInv, ConsentTypeOK
<1>2. \A b \in Attempts : (consent'[b].status = "consumed") = (consent'[b].uses > 0)
    BY <1>1 DEF ConsentInv, ConsentTypeOK
<1>3. ConsentTypeOK'
    BY <1>1, <1>2 DEF ConsentInv, ConsentTypeOK
<1>4. OneAgentConsent'
    <2>1. \A b \in ForAgent : IsValid(b)' => IsValid(b)
        BY <1>1 DEF IsValid
    <2> QED BY <2>1 DEF ConsentInv, OneAgentConsent
<1>5. ASSUME NEW b \in ForAgent PROVE CreationOK(b)'
    BY <1>1 DEF ConsentInv, CreationOK
<1> QED BY <1>3, <1>4, <1>5 DEF ConsentInv

(* A step of one creation, which leaves the consents as they are.            *)
LEMMA CreationMoves ==
    ASSUME ConsentInv, NEW a \in ForAgent, NEW state \in CreationType,
           creation' = [creation EXCEPT ![a] = state], UNCHANGED <<consent, callback, clock>>,
           consentLock' \in {NoAttempt} \cup {b \in ForAgent : creation'[b].pc # "idle"},
           \A b \in ForAgent : CreationOK(b)'
    PROVE  ConsentInv'
<1>1. creation' \in [ForAgent -> CreationType]
    BY ConsentKinds
<1>2. ConsentTypeOK'
    BY <1>1 DEF ConsentInv, ConsentTypeOK
<1>3. OneAgentConsent'
    BY DEF ConsentInv, OneAgentConsent, IsValid
<1>4. \A c \in Callbacks : CallbackOK(c)'
    BY CallbackKept
<1> QED BY <1>2, <1>3, <1>4 DEF ConsentInv

(* The end of a creation, whether it is committed or not.                    *)
LEMMA CreationEnds ==
    ASSUME ConsentInv, NEW a \in ForAgent, creation[a].pc # "idle",
           creation' = [creation EXCEPT ![a] = NotCreating], Unlock(a), UNCHANGED clock
    PROVE  /\ creation' \in [ForAgent -> CreationType]
           /\ \A b \in ForAgent : creation'[b].pc = "idle" /\ CreationOK(b)'
           /\ consentLock' = NoAttempt
<1>1. NotCreating \in CreationType /\ NotCreating.pc = "idle" /\ NotCreating.asOf = 0
    BY DEF NotCreating, CreationType
<1>2. ASSUME NEW b \in ForAgent, b # a PROVE creation[b].pc = "idle"
    BY <1>2 DEF ConsentInv, CreationOK
<1>3. consentLock = a
    BY DEF ConsentInv, CreationOK
<1>4. \A b \in ForAgent : creation'[b] = IF b = a THEN NotCreating ELSE creation[b]
    BY ConsentKinds
<1>5. \A b \in ForAgent : creation'[b].pc = "idle" /\ creation'[b].asOf <= clock'
    BY <1>1, <1>2, <1>4, ConsentKinds DEF ConsentInv, CreationOK
<1>6. creation' \in [ForAgent -> CreationType]
    BY <1>1, ConsentKinds
<1> QED BY <1>3, <1>5, <1>6 DEF CreationOK, Unlock

LEMMA UsedOnceMore ==
    ASSUME NEW r \in ConsentType
    PROVE  [r EXCEPT !.status = "consumed", !.uses = @ + 1]
               = [status |-> "consumed", expiresAt |-> r.expiresAt, replaced |-> r.replaced,
                  uses |-> r.uses + 1]
<1> DEFINE s == [r EXCEPT !.status = "consumed"]
<1>1. s = [status |-> "consumed", expiresAt |-> r.expiresAt, replaced |-> r.replaced, uses |-> r.uses]
    BY DEF ConsentType
<1>2. [r EXCEPT !.status = "consumed", !.uses = @ + 1] = [s EXCEPT !.uses = @ + 1]
    OBVIOUS
<1> HIDE DEF s
<1>3. s.uses = r.uses
    BY <1>1
<1>4. [s EXCEPT !.uses = @ + 1] = [status |-> "consumed", expiresAt |-> r.expiresAt,
                                   replaced |-> r.replaced, uses |-> r.uses + 1]
    BY <1>1
<1> QED BY <1>2, <1>4

(* A consent that was just started or just replaced is of the right kind.    *)
LEMMA StartedKind ==
    ASSUME NEW asOf \in Nat
    PROVE  /\ Started(asOf) \in ConsentType
           /\ Started(asOf).status = "pending" /\ Started(asOf).uses = 0
BY DEF Started, ConsentType

LEMMA ReplacedKind ==
    ASSUME NEW row \in ConsentType, NEW asOf \in Nat
    PROVE  /\ Replaced(row, asOf) \in ConsentType
           /\ Replaced(row, asOf).status = row.status /\ Replaced(row, asOf).uses = row.uses
           /\ Replaced(row, asOf).expiresAt = asOf /\ Replaced(row, asOf).replaced
BY DEF Replaced, ConsentType

-----------------------------------------------------------------------------
(* The creations: a plain one, and the steps of one for an agent.            *)
LEMMA CreatePlainStep ==
    ASSUME ConsentInv, NEW a \in Attempts, CreatePlainAttempt(a) PROVE ConsentInv'
<1>1. /\ a \notin ForAgent /\ consent[a].status = "none"
      /\ consent' = [consent EXCEPT ![a] = Started(clock)]
      /\ UNCHANGED <<creation, consentLock, callback, clock>>
    BY DEF CreatePlainAttempt
<1>2. Started(clock) \in ConsentType /\ Started(clock).status = "pending" /\ Started(clock).uses = 0
    BY ConsentKinds, StartedKind
<1>3. (Started(clock).status = "consumed") = (Started(clock).uses > 0)
    BY <1>2
<1>4. ASSUME NEW c \in Callbacks PROVE CallbackOK(c)'
    <2>1. callback[c].pc # "idle" => callback[c].attempt # a /\ callback[c].attempt \in Attempts
        BY <1>1, ConsentKinds DEF ConsentInv, CallbackOK
    <2> QED BY <1>1, <2>1, ConsentKinds, CallbackKept
<1> QED BY <1>1, <1>2, <1>3, <1>4, ConsentKinds, OneRowWritten

LEMMA BeginAgentStep ==
    ASSUME ConsentInv, NEW a \in ForAgent, BeginAgentAttempt(a) PROVE ConsentInv'
<1> DEFINE state == [pc |-> "dated", asOf |-> clock, expires |-> {}]
<1>1. /\ consent[a].status = "none" /\ consentLock = NoAttempt /\ consentLock' = a
      /\ creation' = [creation EXCEPT ![a] = state] /\ UNCHANGED <<consent, callback, clock>>
    BY DEF BeginAgentAttempt, LockIsFree
<1>2. state \in CreationType /\ state.pc = "dated" /\ state.asOf = clock
    <2>1. clock \in Nat
        BY ConsentKinds
    <2> QED BY <2>1 DEF CreationType
<1>3. \A b \in ForAgent : creation[b].pc = "idle"
    BY <1>1 DEF ConsentInv, CreationOK
<1> HIDE DEF state
<1>4. creation'[a] = state /\ \A b \in ForAgent \ {a} : creation'[b] = creation[b]
    BY <1>1, ConsentKinds
<1>5. \A b \in ForAgent : CreationOK(b)'
    BY <1>1, <1>2, <1>3, <1>4, ConsentKinds DEF ConsentInv, CreationOK
<1> QED BY <1>1, <1>2, <1>4, <1>5, CreationMoves

LEMMA ExpirePendingStep ==
    ASSUME ConsentInv, NEW a \in ForAgent, ExpirePending(a) PROVE ConsentInv'
<1> DEFINE ends == {b \in ForAgent : consent[b].status = "pending"}
           state == [creation[a] EXCEPT !.pc = "open", !.expires = ends]
<1>1. /\ creation[a].pc = "dated" /\ UNCHANGED <<consent, consentLock, callback, clock>>
      /\ creation' = [creation EXCEPT ![a] = state]
    BY ConsentKinds DEF ExpirePending
<1>2. state \in CreationType /\ state.pc = "open" /\ state.asOf = creation[a].asOf
      /\ state.expires = ends
    <2>1. creation[a] \in CreationType /\ ends \in SUBSET ForAgent
        BY ConsentKinds
    <2> HIDE DEF ends
    <2> QED BY <2>1 DEF CreationType
<1>3. consentLock = a /\ creation[a].asOf <= clock /\ consent[a].status = "none"
    BY <1>1 DEF ConsentInv, CreationOK
<1> HIDE DEF state
<1>4. creation'[a] = state /\ \A b \in ForAgent \ {a} : creation'[b] = creation[b]
    BY <1>1, ConsentKinds
<1>5. ASSUME NEW b \in ForAgent PROVE CreationOK(b)'
    BY <1>1, <1>2, <1>3, <1>4 DEF ConsentInv, CreationOK
<1> QED BY <1>1, <1>2, <1>3, <1>4, <1>5, CreationMoves

LEMMA AbandonAgentStep ==
    ASSUME ConsentInv, NEW a \in ForAgent, AbandonAgentAttempt(a) PROVE ConsentInv'
<1>1. NotCreating \in CreationType
    BY DEF NotCreating, CreationType
<1>2. /\ creation[a].pc # "idle" /\ Unlock(a) /\ UNCHANGED <<consent, callback, clock>>
      /\ creation' = [creation EXCEPT ![a] = NotCreating]
    BY DEF AbandonAgentAttempt
<1> QED BY <1>1, <1>2, CreationEnds, CreationMoves

(* The consents that a new one replaces have ended when it becomes visible.  *)
LEMMA CommitAgentStep ==
    ASSUME ConsentInv, NEW a \in ForAgent, CommitAgentAttempt(a) PROVE ConsentInv'
<1> DEFINE asOf == creation[a].asOf
<1>1. /\ creation[a].pc = "open" /\ Unlock(a) /\ UNCHANGED <<callback, clock>>
      /\ creation' = [creation EXCEPT ![a] = NotCreating]
      /\ consent' = [b \in Attempts |->
             IF b = a THEN Started(asOf)
             ELSE IF b \in creation[a].expires THEN Replaced(consent[b], asOf) ELSE consent[b]]
    BY DEF CommitAgentAttempt
<1>2. /\ asOf \in Nat /\ asOf <= clock /\ consent[a].status = "none"
      /\ \A b \in ForAgent : consent[b].status = "pending" => b \in creation[a].expires
    BY <1>1, ConsentKinds DEF ConsentInv, CreationOK
<1>3. Started(asOf) \in ConsentType /\ Started(asOf).status = "pending" /\ Started(asOf).uses = 0
    BY <1>2, StartedKind
<1>4. consent'[a] = Started(asOf)
    BY <1>1
<1>5. ASSUME NEW b \in Attempts, b # a
      PROVE  /\ consent'[b] \in ConsentType
             /\ consent'[b].status = consent[b].status /\ consent'[b].uses = consent[b].uses
             /\ b \in creation[a].expires => consent'[b].expiresAt = asOf /\ consent'[b].replaced
             /\ b \notin creation[a].expires => consent'[b] = consent[b]
    <2>1. /\ Replaced(consent[b], asOf) \in ConsentType
          /\ Replaced(consent[b], asOf).status = consent[b].status
          /\ Replaced(consent[b], asOf).uses = consent[b].uses
          /\ Replaced(consent[b], asOf).expiresAt = asOf /\ Replaced(consent[b], asOf).replaced
        BY <1>2, ConsentKinds, ReplacedKind
    <2> QED BY <1>1, <1>5, <2>1, ConsentKinds
<1>6. \A b \in Attempts : consent'[b] \in ConsentType
    BY <1>3, <1>4, <1>5
<1>7. consent' \in [Attempts -> ConsentType]
    <2>1. DOMAIN consent' = Attempts /\ consent' = [b \in Attempts |-> consent'[b]]
        BY <1>1
    <2> QED BY <1>6, <2>1
<1>8. \A b \in Attempts : (consent'[b].status = "consumed") = (consent'[b].uses > 0)
    <2>1. (Started(asOf).status = "consumed") = (Started(asOf).uses > 0)
        BY <1>3
    <2> QED BY <1>4, <1>5, <2>1 DEF ConsentInv, ConsentTypeOK
<1>9. ConsentTypeOK'
    BY <1>1, <1>7, <1>8, CreationEnds DEF ConsentInv, ConsentTypeOK
<1>10. ASSUME NEW b \in ForAgent, IsValid(b)' PROVE b = a
    <2>1. ASSUME b # a PROVE FALSE
        <3>1. consent'[b].status = "pending" /\ consent'[b].expiresAt > clock
            BY <1>1, <1>10 DEF IsValid
        <3>2. b \in creation[a].expires /\ consent'[b].expiresAt = asOf
            BY <1>2, <1>5, <2>1, <3>1
        <3> QED BY <1>2, <3>1, <3>2, ConsentKinds
    <2> QED BY <2>1
<1>11. ASSUME NEW c \in Callbacks PROVE CallbackOK(c)'
    <2>1. callback[c].pc # "idle" => callback[c].attempt # a /\ callback[c].attempt \in Attempts
        BY <1>2, ConsentKinds DEF ConsentInv, CallbackOK
    <2> QED BY <1>1, <1>5, <2>1, CallbackKept
<1>12. \A b \in ForAgent : CreationOK(b)'
    BY <1>1, CreationEnds
<1> QED BY <1>9, <1>10, <1>11, <1>12 DEF ConsentInv, OneAgentConsent

-----------------------------------------------------------------------------
(* The callbacks: only the last of their steps writes the row.               *)
LEMMA CallbackMoves ==
    ASSUME ConsentInv, NEW c \in Callbacks, NEW state \in CallbackType,
           callback' = [callback EXCEPT ![c] = state],
           UNCHANGED <<consent, creation, consentLock, clock>>,
           state.pc # "idle" => state.attempt \in Attempts,
           CallbackOK(c)'
    PROVE  ConsentInv'
<1>1. /\ callback' \in [Callbacks -> CallbackType] /\ callback'[c] = state
      /\ \A d \in Callbacks \ {c} : callback'[d] = callback[d]
    BY ConsentKinds
<1>2. ConsentTypeOK'
    BY <1>1 DEF ConsentInv, ConsentTypeOK
<1>3. OneAgentConsent' /\ \A a \in ForAgent : CreationOK(a)'
    BY DEF ConsentInv, OneAgentConsent, IsValid, CreationOK
<1>4. ASSUME NEW d \in Callbacks, d # c PROVE CallbackOK(d)'
    BY <1>1, <1>4, CallbackKept
<1> QED BY <1>2, <1>3, <1>4 DEF ConsentInv

LEMMA FindAttemptStep ==
    ASSUME ConsentInv, NEW c \in Callbacks, NEW a \in Attempts, FindAttempt(c, a) PROVE ConsentInv'
<1> DEFINE state == [NotCalled EXCEPT !.pc = "found", !.attempt = a]
<1>1. /\ callback' = [callback EXCEPT ![c] = state] /\ consent[a].status = "pending"
      /\ UNCHANGED <<consent, creation, consentLock, clock>>
    BY DEF FindAttempt, IsValid
<1>2. state \in CallbackType /\ state.pc = "found" /\ state.attempt = a
    BY DEF NotCalled, CallbackType
<1> HIDE DEF state
<1>3. callback'[c] = state
    BY <1>1, ConsentKinds
<1>4. CallbackOK(c)'
    BY <1>1, <1>2, <1>3 DEF CallbackOK
<1> QED BY <1>1, <1>2, <1>4, CallbackMoves

LEMMA ReadClockStep ==
    ASSUME ConsentInv, NEW c \in Callbacks, ReadClock(c) PROVE ConsentInv'
<1> DEFINE a == callback[c].attempt
           state == [callback[c] EXCEPT !.pc = "dated", !.asOf = clock, !.stood = IsValid(a)]
<1>1. /\ callback[c].pc = "found" /\ UNCHANGED <<consent, creation, consentLock, clock>>
      /\ callback' = [callback EXCEPT ![c] = state]
    BY ConsentKinds DEF ReadClock
<1>2. IsValid(a) \in BOOLEAN /\ clock \in Nat
    BY ConsentKinds DEF IsValid
<1>3. /\ state \in CallbackType /\ state.pc = "dated" /\ state.attempt = a /\ state.asOf = clock
      /\ state.stood = IsValid(a)
    BY <1>2, ConsentKinds DEF CallbackType
<1> HIDE DEF state
<1>4. callback'[c] = state
    BY <1>1, ConsentKinds
<1>5. a \in Attempts /\ consent[a].status # "none"
    BY <1>1, ConsentKinds DEF ConsentInv, CallbackOK
<1>6. CallbackOK(c)'
    BY <1>1, <1>3, <1>4, <1>5 DEF CallbackOK, IsValid
<1> QED BY <1>1, <1>3, <1>5, <1>6, CallbackMoves

LEMMA CallbackEnds ==
    ASSUME ConsentInv, NEW c \in Callbacks, callback' = [callback EXCEPT ![c] = NotCalled],
           UNCHANGED <<consent, creation, consentLock, clock>>
    PROVE  ConsentInv'
<1>1. NotCalled \in CallbackType /\ NotCalled.pc = "idle" /\ callback'[c] = NotCalled
    BY ConsentKinds DEF NotCalled, CallbackType
<1>2. CallbackOK(c)'
    BY <1>1 DEF CallbackOK
<1> QED BY <1>1, <1>2, CallbackMoves

(* A consent that is still pending has not been used.                        *)
LEMMA PendingUnused ==
    ASSUME ConsentInv, NEW a \in Attempts, consent[a].status = "pending"
    PROVE  consent[a].uses = 0
<1>1. ~(consent[a].uses > 0) /\ consent[a].uses \in 0 .. 2
    BY ConsentKinds DEF ConsentInv, ConsentTypeOK, ConsentType
<1> QED BY <1>1

LEMMA ConsumeStep ==
    ASSUME ConsentInv, NEW c \in Callbacks, ConsumeOAuthAttempt(c) PROVE ConsentInv'
<1> DEFINE a == callback[c].attempt
           row == [consent[a] EXCEPT !.status = "consumed", !.uses = @ + 1]
<1>1. /\ a \in Attempts /\ UNCHANGED <<creation, consentLock, clock>>
      /\ callback' = [callback EXCEPT ![c] = NotCalled]
    BY ConsentKinds DEF ConsumeOAuthAttempt
<1>2. ASSUME UNCHANGED consent PROVE ConsentInv'
    BY <1>1, <1>2, CallbackEnds
<1>3. ASSUME StillValid(c), consent' = [consent EXCEPT ![a] = row] PROVE ConsentInv'
    <2>1. consent[a] \in ConsentType /\ consent[a].status = "pending"
        BY <1>1, <1>3, ConsentKinds DEF StillValid
    <2>2. consent[a].uses = 0
        BY <1>1, <2>1, PendingUnused
    <2>3. row = [status |-> "consumed", expiresAt |-> consent[a].expiresAt,
                 replaced |-> consent[a].replaced, uses |-> consent[a].uses + 1]
        BY <2>1, UsedOnceMore
    <2>4. /\ row \in ConsentType /\ row.status = "consumed" /\ row.uses = 1
          /\ row.expiresAt = consent[a].expiresAt
        <3>1. consent[a].uses + 1 = 1 /\ 1 \in 0 .. 2
            BY <2>2
        <3>2. consent[a].expiresAt \in Nat /\ consent[a].replaced \in BOOLEAN
            BY <2>1 DEF ConsentType
        <3> HIDE DEF row
        <3> QED BY <2>3, <3>1, <3>2 DEF ConsentType
    <2>5. (row.status = "consumed") = (row.uses > 0)
        BY <2>4
    <2> HIDE DEF row
    <2>6. consent'[a] = row /\ \A b \in Attempts \ {a} : consent'[b] = consent[b]
        BY <1>1, <1>3, ConsentKinds
    <2>7. /\ NotCalled \in CallbackType /\ NotCalled.pc = "idle" /\ callback'[c] = NotCalled
          /\ \A d \in Callbacks \ {c} : callback'[d] = callback[d]
        BY <1>1, ConsentKinds DEF NotCalled, CallbackType
    <2>8. ASSUME NEW d \in Callbacks PROVE CallbackOK(d)'
        <3>1. CASE d = c
            BY <2>7, <3>1 DEF CallbackOK
        <3>2. CASE d # c
            BY <2>4, <2>6, <2>7, <3>2, ConsentKinds, CallbackKept
        <3> QED BY <3>1, <3>2
    <2>9. /\ callback' \in [Callbacks -> CallbackType]
          /\ \A d \in Callbacks : callback'[d].pc # "idle" => callback'[d].attempt \in Attempts
        BY <1>1, <2>7, ConsentKinds
    <2> HIDE DEF a
    <2> QED BY <1>1, <1>3, <2>1, <2>4, <2>5, <2>8, <2>9, OneRowWritten
<1>4. \/ UNCHANGED consent
      \/ StillValid(c) /\ consent' = [consent EXCEPT ![a] = row]
    BY <1>1, ConsentKinds DEF ConsumeOAuthAttempt
<1> QED BY <1>2, <1>3, <1>4

LEMMA TimePassesStep == ASSUME ConsentInv, TimePasses PROVE ConsentInv'
<1>1. clock' = clock + 1 /\ clock \in Nat /\ UNCHANGED <<consent, creation, consentLock, callback>>
    BY ConsentKinds DEF TimePasses
<1>2. ConsentTypeOK'
    BY <1>1 DEF ConsentInv, ConsentTypeOK
<1>3. \A a \in ForAgent : IsValid(a)' => IsValid(a)
    <2>1. \A a \in ForAgent : consent[a].expiresAt \in Nat
        BY ConsentKinds DEF ConsentType
    <2> QED BY <1>1, <2>1 DEF IsValid
<1>4. \A a \in ForAgent : CreationOK(a)'
    BY <1>1, ConsentKinds DEF ConsentInv, CreationOK
<1>5. \A c \in Callbacks : CallbackOK(c)'
    BY <1>1, CallbackKept
<1> QED BY <1>2, <1>3, <1>4, <1>5 DEF ConsentInv, OneAgentConsent

LEMMA ConsentInvStep == ConsentInv /\ [ConsentNext]_consentVars => ConsentInv'
<1> SUFFICES ASSUME ConsentInv, [ConsentNext]_consentVars
             PROVE  ConsentInv'
    OBVIOUS
<1>1. ASSUME NEW c \in Callbacks, CallbackDies(c) PROVE ConsentInv'
    BY <1>1, CallbackEnds DEF CallbackDies
<1>2. CASE UNCHANGED consentVars
    <2>1. UNCHANGED <<consent, creation, consentLock, callback, clock>>
        BY <1>2 DEF consentVars
    <2>2. \A c \in Callbacks : CallbackOK(c)'
        BY <2>1, CallbackKept
    <2> QED BY <2>1, <2>2 DEF ConsentInv, ConsentTypeOK, OneAgentConsent, IsValid, CreationOK
<1> QED BY <1>1, <1>2, CreatePlainStep, BeginAgentStep, ExpirePendingStep, AbandonAgentStep,
           CommitAgentStep, FindAttemptStep, ReadClockStep, ConsumeStep, TimePassesStep DEF ConsentNext

(* The consents, creations and callbacks keep their kinds.                   *)
LEMMA ConsentTyped == ConsentSpec => []ConsentTypeOK
<1>1. ConsentInv => ConsentTypeOK
    BY DEF ConsentInv
<1> QED BY <1>1, ConsentInvInit, ConsentInvStep, PTL DEF ConsentSpec

(* However many authorizations are started at once, one consent of an agent  *)
(* task can be used.                                                         *)
THEOREM OneConsentForAgents == ConsentSpec => []OneAgentConsent
<1>1. ConsentInv => OneAgentConsent
    BY DEF ConsentInv
<1> QED BY <1>1, ConsentInvInit, ConsentInvStep, PTL DEF ConsentSpec

(* A consent lets one callback through, and only one whose reading of the    *)
(* clock (consumeOAuthAttempt) came before the end of the consent.           *)
UsedRightly ==
    \A a \in Attempts : consent'[a].uses # consent[a].uses =>
       /\ consent[a].uses = 0
       /\ \E c \in Callbacks :
             /\ callback[c].attempt = a /\ callback'[c] # callback[c]
             /\ \/ callback[c].stood
                \/ consent[a].replaced /\ callback[c].asOf < consent[a].expiresAt

LEMMA UsedRightlyStep == ConsentInv /\ [ConsentNext]_consentVars => UsedRightly
<1> SUFFICES ASSUME ConsentInv, [ConsentNext]_consentVars, NEW a \in Attempts,
                    consent'[a].uses # consent[a].uses
             PROVE  /\ consent[a].uses = 0
                    /\ \E c \in Callbacks :
                          /\ callback[c].attempt = a /\ callback'[c] # callback[c]
                          /\ \/ callback[c].stood
                             \/ consent[a].replaced /\ callback[c].asOf < consent[a].expiresAt
    BY DEF UsedRightly
<1>1. ASSUME consent[a].status = "none" PROVE consent[a].uses = 0
    <2>1. ~(consent[a].uses > 0) /\ consent[a].uses \in 0 .. 2
        BY <1>1, ConsentKinds DEF ConsentInv, ConsentTypeOK, ConsentType
    <2> QED BY <2>1
<1>2. ASSUME NEW b \in Attempts, CreatePlainAttempt(b) PROVE FALSE
    <2>1. Started(clock).uses = 0
        BY DEF Started
    <2> QED BY <1>1, <1>2, <2>1, ConsentKinds DEF CreatePlainAttempt
<1>3. ASSUME NEW b \in ForAgent, CommitAgentAttempt(b) PROVE FALSE
    <2>1. consent[b].status = "none" /\ Started(creation[b].asOf).uses = 0
        BY <1>3 DEF CommitAgentAttempt, ConsentInv, CreationOK, Started
    <2>2. Replaced(consent[a], creation[b].asOf).uses = consent[a].uses
        BY ConsentKinds, ReplacedKind
    <2> QED BY <1>1, <1>3, <2>1, <2>2 DEF CommitAgentAttempt
<1>4. PICK c \in Callbacks : ConsumeOAuthAttempt(c)
    <2>1. UNCHANGED consent \/ \E c \in Callbacks : ConsumeOAuthAttempt(c)
        BY <1>2, <1>3 DEF ConsentNext, consentVars, BeginAgentAttempt, ExpirePending,
           AbandonAgentAttempt, CallbackDies, FindAttempt, ReadClock, TimePasses
    <2> QED BY <2>1
<1>5. callback[c].pc = "dated" /\ callback'[c].pc = "idle"
    BY <1>4, ConsentKinds DEF ConsumeOAuthAttempt, NotCalled
<1>6. callback[c].attempt = a /\ StillValid(c)
    BY <1>4, <1>5, ConsentKinds DEF ConsumeOAuthAttempt
<1>7. consent[a].status = "pending" /\ callback[c].asOf < consent[a].expiresAt
    BY <1>6, ConsentKinds DEF StillValid, ConsentType
<1>8. CallbackOK(c)
    BY DEF ConsentInv
<1>9. callback[c].stood \/ consent[a].replaced
    BY <1>5, <1>6, <1>7, <1>8 DEF CallbackOK, StillValid
<1> QED BY <1>5, <1>6, <1>7, <1>9, PendingUnused

THEOREM ConsentsUsedOnce == ConsentSpec => UsedWhileValid
<1>1. ConsentSpec => [][UsedRightly]_consentVars
    BY UsedRightlyStep, ConsentInvInit, ConsentInvStep, PTL DEF ConsentSpec
<1> QED BY <1>1 DEF UsedRightly, UsedWhileValid

-----------------------------------------------------------------------------
(* UserSessions.  A transaction on the sessions of the user holds the lock;  *)
(* while it does nobody logs in, so the sessions it counted still include    *)
(* all that are active.  A login that takes over a grace deadline takes that *)
(* of every window that runs.                                                *)
InTransaction(j) == work[j].pc \in {"register", "clean"}
CountIsCurrent(j) == InTransaction(j) => userLock = j /\ Active \subseteq work[j].seen
CountIsCapped(j) == work[j].pc = "register" =>
                        /\ IsFiniteSet(work[j].seen) /\ j \notin work[j].seen
                        /\ Cardinality(work[j].seen) <= Limit + GraceSlots
DeadlineIsTheirs(j) == work[j].pc = "register" /\ work[j].grace # 0 =>
                           \A k \in Active : Runs24h(session[k].grace)
                                               => session[k].grace = work[j].grace

SessionInv == /\ SessionTypeOK
              /\ IsFiniteSet(Active) /\ SessionsCapped
              /\ \A j \in Sessions : CountIsCurrent(j) /\ CountIsCapped(j) /\ DeadlineIsTheirs(j)

LEMMA RestingWork == NoWork \in WorkType /\ NoWork.pc = "idle"
BY DEF NoWork, WorkType

LEMMA SessionInvInit == SessionInit => SessionInv
<1> SUFFICES ASSUME SessionInit PROVE SessionInv
    OBVIOUS
<1>1. \A j \in Sessions : session[j].status = "none" /\ work[j] = NoWork
    BY DEF SessionInit
<1>2. Active = {}
    BY <1>1 DEF Active
<1>3. IsFiniteSet(Active) /\ SessionsCapped
    BY <1>2, FS_EmptySet DEF SessionsCapped, GraceSlots
<1>4. SessionTypeOK
    BY RestingWork DEF SessionInit, SessionTypeOK, SessionType, CheckAnswers
<1> QED BY <1>1, <1>3, <1>4, RestingWork
        DEF SessionInv, CountIsCurrent, CountIsCapped, DeadlineIsTheirs, InTransaction

(* Fewer sessions that are active, with deadlines they had, and windows that *)
(* only end, stay under the ceiling.                                         *)
FewerActive == /\ Active' \subseteq Active
               /\ \A k \in Active' : session'[k].grace = session[k].grace
               /\ windows'.over >= windows.over

LEMMA FewerStayCapped ==
    ASSUME SessionInv, FewerActive, windows'.over \in Nat
    PROVE  /\ IsFiniteSet(Active') /\ SessionsCapped'
           /\ \A k \in Active' : Runs24h(session[k].grace)' => Runs24h(session[k].grace)
<1>1. IsFiniteSet(Active) /\ Active' \subseteq Active /\ Cardinality(Active) <= Limit + GraceSlots
    BY DEF SessionInv, FewerActive, SessionsCapped
<1>2. /\ IsFiniteSet(Active') /\ Cardinality(Active') <= Cardinality(Active)
      /\ Cardinality(Active') \in Nat /\ Cardinality(Active) \in Nat
    BY <1>1, FS_Subset, FS_CardinalityType
<1>3. Cardinality(Active') <= Limit + GraceSlots
    BY <1>1, <1>2 DEF GraceSlots
<1>4. ASSUME NEW k \in Active', Runs24h(session[k].grace)'
      PROVE  Runs24h(session[k].grace)
  <2>1. session'[k].grace = session[k].grace /\ session[k].grace \in Nat
      BY <1>1 DEF FewerActive, SessionInv, SessionTypeOK, SessionType, Active
  <2>2. windows.over \in Nat
      BY DEF SessionInv, SessionTypeOK
  <2> QED BY <1>4, <2>1, <2>2 DEF Runs24h, FewerActive
<1>5. \A j, k \in Active' : Runs24h(session[j].grace)' /\ Runs24h(session[k].grace)'
          => session'[j].grace = session'[k].grace
  <2> SUFFICES ASSUME NEW j \in Active', NEW k \in Active',
                      Runs24h(session[j].grace)', Runs24h(session[k].grace)'
               PROVE  session'[j].grace = session'[k].grace
      OBVIOUS
  <2>1. Runs24h(session[j].grace) /\ Runs24h(session[k].grace) /\ j \in Active /\ k \in Active
      BY <1>1, <1>4
  <2>2. session[j].grace = session[k].grace
      BY <2>1 DEF SessionInv, SessionsCapped
  <2> QED BY <2>2 DEF FewerActive
<1> QED BY <1>2, <1>3, <1>4, <1>5 DEF SessionsCapped, GraceSlots

(* Such a step keeps the invariant, when transactions go on as they were or  *)
(* end.                                                                      *)
LEMMA FewerStep ==
    ASSUME SessionInv, SessionTypeOK', FewerActive,
           \A j \in Sessions : InTransaction(j)' => work'[j] = work[j] /\ userLock' = userLock
    PROVE  SessionInv'
<1>1. windows'.over \in Nat
    BY DEF SessionTypeOK
<1>2. /\ IsFiniteSet(Active') /\ SessionsCapped'
      /\ \A k \in Active' : Runs24h(session[k].grace)' => Runs24h(session[k].grace)
    BY <1>1, FewerStayCapped
<1>3. ASSUME NEW j \in Sessions
      PROVE  (CountIsCurrent(j) /\ CountIsCapped(j) /\ DeadlineIsTheirs(j))'
  <2>1. CASE ~InTransaction(j)'
      BY <2>1 DEF InTransaction, CountIsCurrent, CountIsCapped, DeadlineIsTheirs
  <2>2. CASE InTransaction(j)'
    <3>1. work'[j] = work[j] /\ userLock' = userLock /\ InTransaction(j)
        BY <2>2 DEF InTransaction
    <3>2. CountIsCurrent(j)'
        BY <3>1 DEF SessionInv, CountIsCurrent, FewerActive
    <3>3. CountIsCapped(j)'
        BY <3>1 DEF SessionInv, CountIsCapped
    <3>4. DeadlineIsTheirs(j)'
        BY <3>1, <1>2 DEF SessionInv, DeadlineIsTheirs, FewerActive
    <3> QED BY <3>2, <3>3, <3>4
  <2> QED BY <2>1, <2>2
<1> QED BY <1>2, <1>3 DEF SessionInv

(* A login takes the lock and counts.                                        *)
LEMMA GraceIsTheirs ==
    ASSUME SessionInv
    PROVE  /\ GraceFor(Active) \in Nat
           /\ \A k \in Active : Runs24h(session[k].grace) => session[k].grace = GraceFor(Active)
<1> DEFINE live == {session[j].grace : j \in {k \in Active : Runs24h(session[k].grace)}}
<1>1. live \subseteq Nat
    BY DEF SessionInv, SessionTypeOK, SessionType, Active
<1>2. CASE live = {}
  <2>1. GraceFor(Active) = windows.set + 1 /\ windows.set \in Nat
      BY <1>2 DEF GraceFor, SessionInv, SessionTypeOK
  <2>2. \A k \in Active : ~Runs24h(session[k].grace)
      BY <1>2
  <2> QED BY <2>1, <2>2
<1>3. CASE live # {}
  <2>1. PICK j \in Active : Runs24h(session[j].grace)
      BY <1>3
  <2>2. live = {session[j].grace}
      BY <2>1 DEF SessionInv, SessionsCapped
  <2>3. session[j].grace \in Nat
      BY <1>1, <2>2
  <2>4. GraceFor(Active) = CHOOSE d \in live : \A e \in live : d <= e
      BY <1>3 DEF GraceFor
  <2>5. (CHOOSE d \in live : \A e \in live : d <= e) = session[j].grace
      BY <2>2, <2>3
  <2>6. \A k \in Active : Runs24h(session[k].grace) => session[k].grace \in live
      OBVIOUS
  <2> HIDE DEF live
  <2> QED BY <2>2, <2>3, <2>4, <2>5, <2>6
<1> QED BY <1>2, <1>3

LEMMA RegisterStep ==
    ASSUME SessionInv, NEW j \in Sessions, RegisterSession(j) PROVE SessionInv'
<1>1. /\ session[j].status = "none" /\ work[j].pc = "idle" /\ userLock = NoSession
      /\ userLock' = j /\ UNCHANGED <<session, windows, cache, check>>
    BY DEF RegisterSession, LockFree
<1> DEFINE grace == IF Cardinality(Active) < Limit THEN 0 ELSE GraceFor(Active)
           counted == [NoWork EXCEPT !.pc = "register", !.seen = Active, !.grace = grace]
<1>2. grace \in Nat /\ Active \subseteq Sessions
    BY GraceIsTheirs DEF Active
<1>3. counted \in WorkType /\ counted.pc = "register" /\ counted.seen = Active /\ counted.grace = grace
    BY <1>2 DEF NoWork, WorkType
<1>4. work' = [work EXCEPT ![j] = counted]
    BY DEF RegisterSession
<1> HIDE DEF counted
<1>5. /\ work' \in [Sessions -> WorkType] /\ work'[j] = counted
      /\ \A k \in Sessions \ {j} : work'[k] = work[k]
    BY <1>3, <1>4 DEF SessionInv, SessionTypeOK
<1>6. SessionTypeOK'
    BY <1>1, <1>3, <1>5 DEF SessionInv, SessionTypeOK
<1>7. Active' = Active /\ SessionsCapped'
    BY <1>1 DEF SessionInv, SessionsCapped, Active, Runs24h
<1>8. ASSUME NEW k \in Sessions
      PROVE  (CountIsCurrent(k) /\ CountIsCapped(k) /\ DeadlineIsTheirs(k))'
  <2>1. CASE k = j
    <3>1. j \notin Active
        BY <1>1 DEF Active
    <3>2. CountIsCurrent(j)'
        BY <1>1, <1>3, <1>5, <1>7 DEF CountIsCurrent
    <3>3. CountIsCapped(j)'
        BY <1>3, <1>5, <3>1 DEF SessionInv, SessionsCapped, CountIsCapped
    <3>4. grace # 0 => \A i \in Active : Runs24h(session[i].grace) => session[i].grace = grace
        BY GraceIsTheirs
    <3>5. DeadlineIsTheirs(j)'
        BY <1>1, <1>3, <1>5, <1>7, <3>4 DEF DeadlineIsTheirs, Runs24h
    <3> QED BY <2>1, <3>2, <3>3, <3>5
  <2>2. CASE k # j
    <3>1. work'[k] = work[k]
        BY <2>2, <1>5
    <3>2. ~InTransaction(k)
        BY <1>1 DEF SessionInv, CountIsCurrent
    <3> QED BY <3>1, <3>2 DEF InTransaction, CountIsCurrent, CountIsCapped, DeadlineIsTheirs
  <2> QED BY <2>1, <2>2
<1> QED BY <1>6, <1>7, <1>8 DEF SessionInv

(* Nothing is revoked but what was active, and what stays active keeps its   *)
(* deadline.                                                                 *)
LEMMA RevokeLeaves ==
    ASSUME SessionTypeOK, NEW some
    PROVE  /\ Revoke(some) \in [Sessions -> SessionType]
           /\ \A k \in Sessions : \/ k \in some /\ Revoke(some)[k].status # "active"
                                  \/ k \notin some /\ Revoke(some)[k] = session[k]
<1>1. [status |-> "revoked", grace |-> 0] \in SessionType
    BY DEF SessionType
<1>2. Revoke(some) \in [Sessions -> SessionType]
    BY <1>1 DEF Revoke, SessionTypeOK
<1>3. ASSUME NEW k \in Sessions
      PROVE  \/ k \in some /\ Revoke(some)[k].status # "active"
             \/ k \notin some /\ Revoke(some)[k] = session[k]
    BY DEF Revoke, Active
<1> QED BY <1>2, <1>3

LEMMA RevokeFewer ==
    ASSUME SessionInv, NEW some, session' = Revoke(some), UNCHANGED windows
    PROVE  FewerActive
<1>1. \A k \in Sessions : \/ k \in some /\ session'[k].status # "active"
                          \/ k \notin some /\ session'[k] = session[k]
    BY RevokeLeaves DEF SessionInv
<1> QED BY <1>1 DEF FewerActive, Active, SessionInv, SessionTypeOK

(* The login commits: it revokes what exceeds the ceiling with it.           *)
LEMMA OverflowRoom ==
    ASSUME SessionInv, NEW j \in Sessions, work[j].pc = "register", NEW some \in Overflow(j)
    PROVE  /\ IsFiniteSet((work[j].seen \ some) \cup {j})
           /\ Cardinality((work[j].seen \ some) \cup {j}) <= Limit + GraceSlots
<1> DEFINE seen == work[j].seen
           left == seen \ some
<1>1. IsFiniteSet(seen) /\ j \notin seen /\ Cardinality(seen) <= Limit + GraceSlots
    BY DEF SessionInv, CountIsCapped
<1>2. /\ some \subseteq seen
      /\ Cardinality(some) + Limit + GraceSlots
           = IF Cardinality(seen) >= Limit + GraceSlots THEN Cardinality(seen) + 1
             ELSE Limit + GraceSlots
    BY DEF Overflow
<1>3. /\ IsFiniteSet(some) /\ Cardinality(some) \in Nat
      /\ IsFiniteSet(left) /\ Cardinality(left) \in Nat /\ Cardinality(seen) \in Nat
    BY <1>1, <1>2, FS_Subset, FS_CardinalityType
<1>4. Cardinality(left) = Cardinality(seen) - Cardinality(some)
  <2>1. left \cup some = seen /\ left \cap some = {}
      BY <1>2
  <2>2. Cardinality(left \cup some)
            = Cardinality(left) + Cardinality(some) - Cardinality(left \cap some)
      BY <1>3, FS_Union
  <2>3. Cardinality(left \cap some) = 0
      BY <2>1, FS_EmptySet
  <2>4. Cardinality(seen) = Cardinality(left) + Cardinality(some) - 0
      BY <2>1, <2>2, <2>3
  <2> HIDE DEF left, seen
  <2> QED BY <1>3, <2>4
<1>5. IsFiniteSet(left \cup {j}) /\ Cardinality(left \cup {j}) = Cardinality(left) + 1
    BY <1>1, <1>3, FS_AddElement
<1> HIDE DEF left, seen
<1>6. Cardinality(left) + 1 <= Limit + GraceSlots
    BY <1>1, <1>2, <1>3, <1>4 DEF GraceSlots
<1> QED BY <1>5, <1>6 DEF left, seen

LEMMA CommitRegistrationStep ==
    ASSUME SessionInv, NEW j \in Sessions, CommitRegistration(j) PROVE SessionInv'
<1>1. /\ work[j].pc = "register" /\ userLock' = NoSession /\ UNCHANGED <<cache, check>>
      /\ windows' = IF work[j].grace > windows.set THEN [windows EXCEPT !.set = work[j].grace]
                                                   ELSE windows
    BY DEF CommitRegistration
<1>2. PICK some \in Overflow(j) :
          /\ session' = [Revoke(some) EXCEPT ![j] = [status |-> "active", grace |-> work[j].grace]]
          /\ work' = [work EXCEPT ![j] = [NoWork EXCEPT !.pc = "publish", !.revoked = some]]
    BY DEF CommitRegistration
<1>3. work[j] \in WorkType /\ work[j].grace \in Nat /\ some \subseteq Sessions
    BY DEF SessionInv, SessionTypeOK, WorkType, Overflow
<1> DEFINE row == [status |-> "active", grace |-> work[j].grace]
           publishing == [NoWork EXCEPT !.pc = "publish", !.revoked = some]
<1>4. row \in SessionType /\ publishing \in WorkType /\ publishing.pc = "publish"
    BY <1>3 DEF SessionType, NoWork, WorkType
<1>5. /\ session' \in [Sessions -> SessionType] /\ session'[j] = row
      /\ \A k \in Sessions \ {j} : session'[k] = Revoke(some)[k]
    BY <1>2, <1>4, RevokeLeaves DEF SessionInv
<1>6. /\ work' \in [Sessions -> WorkType] /\ work'[j] = publishing
      /\ \A k \in Sessions \ {j} : work'[k] = work[k]
    BY <1>2, <1>4 DEF SessionInv, SessionTypeOK
<1>7. /\ windows' \in [set : Nat, over : Nat] /\ windows'.over <= windows'.set
      /\ windows'.over = windows.over
    BY <1>1, <1>3 DEF SessionInv, SessionTypeOK
<1>8. SessionTypeOK'
    BY <1>1, <1>5, <1>6, <1>7 DEF SessionInv, SessionTypeOK
<1>9. \A k \in Active' \ {j} : k \in Active \ some /\ session'[k] = session[k]
    BY <1>5, RevokeLeaves DEF SessionInv, Active
<1>10. Active' \subseteq (work[j].seen \ some) \cup {j}
    BY <1>1, <1>9 DEF SessionInv, CountIsCurrent, InTransaction
<1>11. IsFiniteSet(Active') /\ Cardinality(Active') <= Limit + GraceSlots
  <2> DEFINE room == (work[j].seen \ some) \cup {j}
  <2>1. IsFiniteSet(room) /\ Cardinality(room) <= Limit + GraceSlots
      BY <1>1, OverflowRoom
  <2>2. IsFiniteSet(Active') /\ Cardinality(Active') <= Cardinality(room)
      BY <1>10, <2>1, FS_Subset
  <2>3. Cardinality(Active') \in Nat /\ Cardinality(room) \in Nat
      BY <2>1, <2>2, FS_CardinalityType
  <2> HIDE DEF room
  <2> QED BY <2>1, <2>2, <2>3 DEF GraceSlots
<1>12. \A i, k \in Active' : Runs24h(session[i].grace)' /\ Runs24h(session[k].grace)'
          => session'[i].grace = session'[k].grace
  <2>1. ASSUME NEW k \in Active', k # j, Runs24h(session[k].grace)'
        PROVE  k \in Active /\ session'[k].grace = session[k].grace /\ Runs24h(session[k].grace)
      BY <2>1, <1>7, <1>9 DEF Runs24h
  <2>2. session'[j].grace = work[j].grace
      BY <1>5
  <2>3. ASSUME NEW k \in Active', k # j, Runs24h(session[k].grace)', Runs24h(session[j].grace)'
        PROVE  session'[k].grace = session'[j].grace
    <3>1. work[j].grace # 0
        BY <2>2, <2>3, <1>7 DEF Runs24h, SessionInv, SessionTypeOK
    <3> QED BY <2>1, <2>2, <2>3, <3>1, <1>1 DEF SessionInv, DeadlineIsTheirs
  <2>4. ASSUME NEW i \in Active', NEW k \in Active', i # j, k # j,
               Runs24h(session[i].grace)', Runs24h(session[k].grace)'
        PROVE  session'[i].grace = session'[k].grace
      BY <2>1, <2>4 DEF SessionInv, SessionsCapped
  <2> QED BY <2>3, <2>4
<1>13. ASSUME NEW k \in Sessions
       PROVE  (CountIsCurrent(k) /\ CountIsCapped(k) /\ DeadlineIsTheirs(k))'
  <2>1. ~InTransaction(k)'
    <3>1. CASE k = j
        BY <3>1, <1>4, <1>6 DEF InTransaction
    <3>2. CASE k # j
        BY <3>2, <1>1, <1>6 DEF InTransaction, SessionInv, CountIsCurrent
    <3> QED BY <3>1, <3>2
  <2> QED BY <2>1 DEF InTransaction, CountIsCurrent, CountIsCapped, DeadlineIsTheirs
<1> QED BY <1>8, <1>11, <1>12, <1>13 DEF SessionInv, SessionsCapped

(* The clean-up of a heartbeat takes the lock, counts and revokes.           *)
LEMMA HeartbeatStep == ASSUME SessionInv, NEW j \in Sessions, Heartbeat(j) PROVE SessionInv'
<1>1. /\ userLock = NoSession /\ userLock' = j /\ UNCHANGED <<session, windows, cache, check>>
      /\ work' = [work EXCEPT ![j] = [NoWork EXCEPT !.pc = "clean", !.seen = Active]]
    BY DEF Heartbeat, LockFree
<1> DEFINE counted == [NoWork EXCEPT !.pc = "clean", !.seen = Active]
<1>2. counted \in WorkType /\ counted.pc = "clean" /\ counted.seen = Active
    BY DEF NoWork, WorkType, Active
<1>3. /\ work' \in [Sessions -> WorkType] /\ work'[j] = counted
      /\ \A k \in Sessions \ {j} : work'[k] = work[k]
    BY <1>1, <1>2 DEF SessionInv, SessionTypeOK
<1> HIDE DEF counted
<1>4. SessionTypeOK'
    BY <1>1, <1>2, <1>3 DEF SessionInv, SessionTypeOK
<1>5. Active' = Active /\ SessionsCapped'
    BY <1>1 DEF SessionInv, SessionsCapped, Active, Runs24h
<1>6. ASSUME NEW k \in Sessions
      PROVE  (CountIsCurrent(k) /\ CountIsCapped(k) /\ DeadlineIsTheirs(k))'
  <2>1. CASE k = j
      BY <2>1, <1>1, <1>2, <1>3, <1>5 DEF CountIsCurrent, CountIsCapped, DeadlineIsTheirs
  <2>2. CASE k # j
    <3>1. ~InTransaction(k)'
        BY <2>2, <1>1, <1>3 DEF InTransaction, SessionInv, CountIsCurrent
    <3> QED BY <3>1 DEF InTransaction, CountIsCurrent, CountIsCapped, DeadlineIsTheirs
  <2> QED BY <2>1, <2>2
<1> QED BY <1>4, <1>5, <1>6 DEF SessionInv

(* A request that ends leaves the other transactions alone.                  *)
LEMMA SessionRequestEnds ==
    ASSUME SessionInv, NEW j \in Sessions, work' = [work EXCEPT ![j] = NoWork],
           \/ userLock' = userLock /\ userLock # j
           \/ userLock' = NoSession /\ userLock \in {j, NoSession}
    PROVE  /\ work' \in [Sessions -> WorkType]
           /\ userLock' \in {NoSession} \cup {k \in Sessions : work'[k].pc \in {"register", "clean"}}
           /\ \A k \in Sessions : InTransaction(k)' => work'[k] = work[k] /\ userLock' = userLock
<1>1. /\ work' \in [Sessions -> WorkType] /\ work'[j] = NoWork
      /\ \A k \in Sessions \ {j} : work'[k] = work[k]
    BY RestingWork DEF SessionInv, SessionTypeOK
<1>2. userLock' \in {NoSession} \cup {k \in Sessions : work'[k].pc \in {"register", "clean"}}
    BY <1>1 DEF SessionInv, SessionTypeOK
<1>3. ASSUME NEW k \in Sessions, InTransaction(k)' PROVE work'[k] = work[k] /\ userLock' = userLock
  <2>1. k # j
      BY <1>1, <1>3, RestingWork DEF InTransaction
  <2> QED BY <1>1, <1>3, <2>1 DEF InTransaction, SessionInv, CountIsCurrent
<1> QED BY <1>1, <1>2, <1>3

LEMMA CommitCleanupStep ==
    ASSUME SessionInv, NEW j \in Sessions, CommitCleanup(j) PROVE SessionInv'
<1>1. /\ work[j].pc = "clean" /\ work' = [work EXCEPT ![j] = NoWork] /\ userLock' = NoSession
      /\ UNCHANGED <<windows, check>>
    BY DEF CommitCleanup
<1>2. PICK some : session' = Revoke(some) /\ (CacheRevoked(some) \/ UNCHANGED cache)
    BY DEF CommitCleanup
<1>3. userLock = j
    BY <1>1 DEF SessionInv, CountIsCurrent, InTransaction
<1>4. /\ work' \in [Sessions -> WorkType]
      /\ userLock' \in {NoSession} \cup {k \in Sessions : work'[k].pc \in {"register", "clean"}}
      /\ \A k \in Sessions : InTransaction(k)' => work'[k] = work[k] /\ userLock' = userLock
    BY <1>1, <1>3, SessionRequestEnds
<1>5. session' \in [Sessions -> SessionType] /\ FewerActive
    BY <1>1, <1>2, RevokeLeaves, RevokeFewer DEF SessionInv
<1>6. SessionTypeOK'
    BY <1>1, <1>2, <1>4, <1>5 DEF SessionInv, SessionTypeOK, CacheRevoked, CheckAnswers
<1> QED BY <1>4, <1>5, <1>6, FewerStep

LEMMA UserRevokesStep ==
    ASSUME SessionInv, NEW some \in SUBSET Sessions, RevokeByUser(some) PROVE SessionInv'
<1>1. /\ session' = Revoke(some) /\ (CacheRevoked(some) \/ UNCHANGED cache)
      /\ UNCHANGED <<windows, work, userLock, check>>
    BY DEF RevokeByUser
<1>2. session' \in [Sessions -> SessionType] /\ FewerActive
    BY <1>1, RevokeLeaves, RevokeFewer DEF SessionInv
<1>3. SessionTypeOK'
    BY <1>1, <1>2 DEF SessionInv, SessionTypeOK, CacheRevoked, CheckAnswers
<1> QED BY <1>1, <1>2, <1>3, FewerStep

LEMMA PublishStep ==
    ASSUME SessionInv, NEW j \in Sessions, Publish(j) \/ SessionRequestDies(j) PROVE SessionInv'
<1>1. /\ work' = [work EXCEPT ![j] = NoWork] /\ UNCHANGED <<session, windows, check>>
      /\ cache' \in {cache, "active", "revoked"}
    BY DEF Publish, SessionRequestDies, CacheRevoked
<1>2. \/ userLock' = userLock /\ userLock # j
      \/ userLock' = NoSession /\ userLock \in {j, NoSession}
  <2>1. CASE Publish(j)
    <3>1. userLock # j
        BY <2>1 DEF Publish, SessionInv, SessionTypeOK
    <3> QED BY <2>1, <3>1 DEF Publish
  <2>2. CASE SessionRequestDies(j)
      BY <2>2 DEF SessionRequestDies
  <2> QED BY <2>1, <2>2
<1>3. /\ work' \in [Sessions -> WorkType]
      /\ userLock' \in {NoSession} \cup {k \in Sessions : work'[k].pc \in {"register", "clean"}}
      /\ \A k \in Sessions : InTransaction(k)' => work'[k] = work[k] /\ userLock' = userLock
    BY <1>1, <1>2, SessionRequestEnds
<1>4. SessionTypeOK'
    BY <1>1, <1>3 DEF SessionInv, SessionTypeOK, CheckAnswers
<1>5. FewerActive
    BY <1>1 DEF FewerActive, Active, SessionInv, SessionTypeOK
<1> QED BY <1>3, <1>4, <1>5, FewerStep

LEMMA SessionClockStep ==
    ASSUME SessionInv, WindowEnds \/ ReadRevocation \/ CacheRevocation \/ EntryExpires
    PROVE  SessionInv'
<1>1. UNCHANGED <<session, work, userLock>>
    BY DEF WindowEnds, ReadRevocation, CacheRevocation, EntryExpires
<1>2. /\ windows' \in [set : Nat, over : Nat] /\ windows'.over <= windows'.set
      /\ windows'.over >= windows.over
    BY DEF WindowEnds, ReadRevocation, CacheRevocation, EntryExpires, SessionInv, SessionTypeOK
<1>3. cache' \in CheckAnswers /\ check' \in CheckAnswers
  <2>1. session[Watched].status \in CheckAnswers
      BY DEF SessionInv, SessionTypeOK, SessionType, CheckAnswers
  <2>2. "none" \in CheckAnswers
      BY DEF CheckAnswers
  <2> QED BY <2>1, <2>2 DEF WindowEnds, ReadRevocation, CacheRevocation, EntryExpires, SessionInv, SessionTypeOK
<1>4. SessionTypeOK'
    BY <1>1, <1>2, <1>3 DEF SessionInv, SessionTypeOK
<1>5. FewerActive
    BY <1>1, <1>2 DEF FewerActive, Active
<1> QED BY <1>1, <1>4, <1>5, FewerStep

LEMMA SessionInvStep == SessionInv /\ [SessionNext]_sessionVars => SessionInv'
<1> SUFFICES ASSUME SessionInv, [SessionNext]_sessionVars PROVE SessionInv'
    OBVIOUS
<1>1. CASE UNCHANGED sessionVars
    BY <1>1 DEF sessionVars, SessionInv, SessionTypeOK, SessionsCapped, Active, Runs24h,
                CountIsCurrent, CountIsCapped, DeadlineIsTheirs, InTransaction
<1>2. ASSUME NEW j \in Sessions,
             \/ RegisterSession(j) \/ Heartbeat(j) \/ Commit(j) \/ Publish(j)
             \/ SessionRequestDies(j)
      PROVE  SessionInv'
    BY <1>2, RegisterStep, HeartbeatStep, CommitRegistrationStep, CommitCleanupStep, PublishStep
       DEF Commit
<1>3. ASSUME NEW some \in SUBSET Sessions, RevokeByUser(some) PROVE SessionInv'
    BY <1>3, UserRevokesStep
<1> QED BY <1>1, <1>2, <1>3, SessionClockStep DEF SessionNext

(* The sessions, windows and requests keep their kinds.                      *)
LEMMA SessionTyped == SessionSpec => []SessionTypeOK
<1>1. SessionInv => SessionTypeOK
    BY DEF SessionInv
<1> QED BY <1>1, SessionInvInit, SessionInvStep, PTL DEF SessionSpec

(* No interleaving of logins, clean-ups, revocations and crashes leaves a    *)
(* user more active sessions than the ceiling of the plan, or two grace      *)
(* deadlines that run, for every plan and any number of logins.              *)
THEOREM SessionsStayCapped == SessionSpec => []SessionsCapped
<1>1. SessionInv => SessionsCapped
    BY DEF SessionInv
<1> QED BY <1>1, SessionInvInit, SessionInvStep, PTL DEF SessionSpec
=============================================================================
