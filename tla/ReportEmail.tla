----------------------------- MODULE ReportEmail ------------------------------
(* POST /api/reports/email: requests to mail one approved report snapshot.   *)
(* An action is one statement; nothing holds the requests apart but the two  *)
(* unique columns of ReportEmailDeliveryAttempt.                             *)
CONSTANTS Requests,
          Key,        \* idempotencyKey of each request: retries share it
          NoRequestId

ASSUME MailAssumption == NoRequestId \notin Requests

VARIABLES attempt,    \* the row each request created
          request,    \* the requests
          mailed      \* history: what the provider really delivered

mailVars == <<attempt, request, mailed>>

AttemptType == [status : {"none", "PROVIDER_STARTED", "ACCEPTED", "DEFINITIVE_FAILED", "AMBIGUOUS"},
                claims : BOOLEAN,      \* activeClaimKey is the snapshot's, not null
                old : BOOLEAN]         \* started more than STALE_CLAIM_MS ago

RequestType == [pc : {"new", "check", "active", "declare", "create", "send", "record", "ended"},
                stale : Requests \cup {NoRequestId},   \* the attempt to declare ambiguous
                outcome : {"none", "ACCEPTED", "DEFINITIVE_FAILED", "AMBIGUOUS"}]

(* The columns hold values of their kinds, and the claim is held while the   *)
(* outcome of a send is open, and no longer.                                 *)
MailTypeOK ==
    /\ attempt \in [Requests -> AttemptType]
    /\ request \in [Requests -> RequestType]
    /\ mailed \subseteq Requests
    /\ \A r \in Requests : attempt[r].claims = (attempt[r].status \in {"PROVIDER_STARTED", "AMBIGUOUS"})

MailInit ==
    /\ attempt = [r \in Requests |-> [status |-> "none", claims |-> FALSE, old |-> FALSE]]
    /\ request = [r \in Requests |-> [pc |-> "new", stale |-> NoRequestId, outcome |-> "none"]]
    /\ mailed = {}

Sends == {r \in Requests : attempt[r].status # "none"}
Claiming == {r \in Requests : attempt[r].claims}
IsStale(r) == attempt[r].status = "PROVIDER_STARTED" /\ attempt[r].old

Goes(r, point) == request' = [request EXCEPT ![r].pc = point]
Declares(r, q) == request' = [request EXCEPT ![r].pc = "declare", ![r].stale = q]

-----------------------------------------------------------------------------
(* A key that is known is answered with the row it made.                     *)
LookUpKey(r) ==
    /\ request[r].pc = "new"
    /\ LET same == {q \in Sends : Key[q] = Key[r]}
       IN  \/ \E q \in same : IF IsStale(q) THEN Declares(r, q) ELSE Goes(r, "ended")
           \/ same = {} /\ Goes(r, "check")
    /\ UNCHANGED <<attempt, mailed>>

(* The snapshot is not sendable any more, or a send of it is ambiguous.      *)
CheckSnapshot(r) ==
    /\ request[r].pc = "check"
    /\ \/ Goes(r, "ended")
       \/ (\A q \in Sends : attempt[q].status # "AMBIGUOUS") /\ Goes(r, "active")
    /\ UNCHANGED <<attempt, mailed>>

(* reportEmailClaimDisposition of the attempt that holds the claim.          *)
CheckClaim(r) ==
    /\ request[r].pc = "active"
    /\ \/ Claiming = {} /\ Goes(r, "create")
       \/ \E q \in Claiming : IF IsStale(q) THEN Declares(r, q) ELSE Goes(r, "ended")
    /\ UNCHANGED <<attempt, mailed>>

(* The update repeats its condition: the send may have answered meanwhile.   *)
StillStartedUnguarded(q) == TRUE
StillStarted(q) == attempt[q].status = "PROVIDER_STARTED"

DeclareAmbiguous(r) ==
    LET q == request[r].stale IN
    /\ request[r].pc = "declare"
    /\ attempt' = IF StillStarted(q) THEN [attempt EXCEPT ![q].status = "AMBIGUOUS"] ELSE attempt
    /\ request' = [request EXCEPT ![r].pc = "ended", ![r].stale = NoRequestId]
    /\ UNCHANGED mailed

(* create, which either unique column can refuse (P2002).                    *)
Unique(r) == Claiming = {} /\ \A q \in Sends : Key[q] # Key[r]

CreateAttempt(r) ==
    /\ request[r].pc = "create"
    /\ \/ /\ Unique(r)
          /\ attempt' = [attempt EXCEPT ![r].status = "PROVIDER_STARTED", ![r].claims = TRUE]
          /\ Goes(r, "send")
       \/ ~Unique(r) /\ Goes(r, "ended") /\ UNCHANGED attempt
    /\ UNCHANGED mailed

(* The provider takes the mail, refuses it or was never reached, or nobody   *)
(* knows (classifyTransportFailure).                                         *)
Outcomes == {[taken |-> TRUE, says |-> "ACCEPTED"],
             [taken |-> FALSE, says |-> "DEFINITIVE_FAILED"],
             [taken |-> TRUE, says |-> "AMBIGUOUS"], [taken |-> FALSE, says |-> "AMBIGUOUS"]}

SendMail(r) ==
    /\ request[r].pc = "send"
    /\ \E o \in Outcomes :
        /\ mailed' = IF o.taken THEN mailed \cup {r} ELSE mailed
        /\ request' = [request EXCEPT ![r].pc = "record", ![r].outcome = o.says]
    /\ UNCHANGED attempt

(* The outcome is written by id alone, whatever was declared meanwhile.      *)
KeepsClaimNever(outcome) == FALSE
KeepsClaim(outcome) == outcome = "AMBIGUOUS"
RecordOutcome(r) ==
    /\ request[r].pc = "record"
    /\ attempt' = [attempt EXCEPT ![r].status = request[r].outcome,
                                  ![r].claims = KeepsClaim(request[r].outcome)]
    /\ request' = [request EXCEPT ![r].pc = "ended", ![r].outcome = "none"]
    /\ UNCHANGED mailed

-----------------------------------------------------------------------------
(* A statement throws or the process dies; a mail that was being sent may    *)
(* have been taken.                                                          *)
RequestEnds(r) ==
    /\ request[r].pc \notin {"new", "ended"}
    /\ request' = [request EXCEPT ![r] = [pc |-> "ended", stale |-> NoRequestId, outcome |-> "none"]]
    /\ mailed' \in IF request[r].pc = "send" THEN {mailed, mailed \cup {r}} ELSE {mailed}
    /\ UNCHANGED attempt

TenMinutesPass ==
    /\ \E r \in Requests : attempt[r].status = "PROVIDER_STARTED" /\ ~attempt[r].old
    /\ attempt' = [r \in Requests |-> IF attempt[r].status = "PROVIDER_STARTED"
                                      THEN [attempt[r] EXCEPT !.old = TRUE] ELSE attempt[r]]
    /\ UNCHANGED <<request, mailed>>

MailNext ==
    \/ \E r \in Requests :
        \/ LookUpKey(r) \/ CheckSnapshot(r) \/ CheckClaim(r) \/ DeclareAmbiguous(r)
        \/ CreateAttempt(r) \/ SendMail(r) \/ RecordOutcome(r) \/ RequestEnds(r)
    \/ TenMinutesPass

MailSpec == MailInit /\ [][MailNext]_mailVars

-----------------------------------------------------------------------------
(* While nobody knows what became of a send, no other send of the snapshot   *)
(* starts, and retries of a request deliver one mail, whatever the order of  *)
(* late answers, declarations and retries: the reader gets the report twice  *)
(* only by a decision of the sender.                                         *)
Open == {r \in Requests : attempt[r].status \in {"PROVIDER_STARTED", "AMBIGUOUS"}}

NoSecondMail == /\ \A q, r \in Open : q = r
                /\ \A q, r \in mailed : Key[q] = Key[r] => q = r

(* What a send was answered is not taken back by a request that judged it    *)
(* stale before the answer came.                                             *)
AnswersStand ==
    [][\A r \in Requests : attempt[r].status \in {"ACCEPTED", "DEFINITIVE_FAILED"}
                             => attempt'[r].status = attempt[r].status]_mailVars
=============================================================================
