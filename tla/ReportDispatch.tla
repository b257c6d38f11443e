---------------------------- MODULE ReportDispatch ----------------------------
(***************************************************************************)
(* The scheduled client briefs: overlapping sweeps of the report-schedules *)
(* cron over one enabled schedule, with its dispatch lease, its durable    *)
(* attempt row per occurrence and the providers it delivers to.  A sweep   *)
(* draws a fresh UUID as token for the schedule, so the token is the sweep.*)
(* One action is one statement, or one request to a provider.              *)
(***************************************************************************)
EXTENDS Integers, FiniteSets

CONSTANTS Sweeps,        \* calls of the cron route
          NoSweep,       \* the null token
          Destinations,  \* Slack webhooks, Telegram chats and e-mail addresses
          LastDay        \* bound: the occurrences are the days 1 .. LastDay

ASSUME NoSweepAssumption == NoSweep \notin Sweeps
ASSUME LastDayAssumption == LastDay \in Nat \ {0}

VARIABLES
    schedule,  \* the ReportSchedule row: lease, its expiry, lastSentAt
    attempt,   \* the ReportScheduleDispatchAttempt row of each occurrence
    sweep,     \* the local state of each sweep
    today,     \* the UTC date
    accepted   \* history: the briefs each provider accepted per occurrence

vars == <<schedule, attempt, sweep, today, accepted>>

Days == 1 .. LastDay
Closed == {"CONFIRMED", "AMBIGUOUS"}
Retryable == {"none", "CLAIMED", "DEFINITIVE_FAILED"}
AttemptStatus == Closed \cup Retryable \cup {"PROVIDER_STARTED"}

Active == {"claim", "begin", "create", "orphan", "reclaim", "start", "send", "finish",
           "complete", "release"}

(* lastSent counts the completions: lastSentAt never takes a value twice.  *)
ScheduleType == [lease : Sweeps \cup {NoSweep}, live : BOOLEAN, lastSent : Nat]
AttemptType == [status : AttemptStatus, token : Sweeps \cup {NoSweep}]
SweepType ==
    [pc : Active \cup {"idle", "ended"},
     day : Days,               \* occurrenceDate, read once per sweep
     seen : Nat,               \* lastSentAt of the scanned row
     read : AttemptStatus,     \* status of the attempt row that was found
     todo : SUBSET Destinations,
     delivered : BOOLEAN,      \* some destination confirmed
     ambiguous : BOOLEAN]      \* some outcome is unknown

TypeOK ==
    /\ schedule \in ScheduleType
    /\ attempt \in [Days -> AttemptType]
    /\ sweep \in [Sweeps -> SweepType]
    /\ today \in Days
    /\ accepted \in [Days -> [Destinations -> Nat]]

Local(pc, day, seen, read) ==
    [pc |-> pc, day |-> day, seen |-> seen, read |-> read, todo |-> {}, delivered |-> FALSE,
     ambiguous |-> FALSE]

Init ==
    /\ schedule = [lease |-> NoSweep, live |-> FALSE, lastSent |-> 0]
    /\ attempt = [d \in Days |-> [status |-> "none", token |-> NoSweep]]
    /\ sweep = [s \in Sweeps |-> Local("idle", 1, 0, "none")]
    /\ today = 1
    /\ accepted = [d \in Days |-> [x \in Destinations |-> 0]]

At(s, point) == sweep[s].pc = point
Goto(s, point) == sweep' = [sweep EXCEPT ![s].pc = point]
End(s) == sweep' = [sweep EXCEPT ![s] = Local("ended", 1, 0, "none")]
Day(s) == sweep[s].day
Status(s) == attempt[Day(s)].status
SetAttempt(s, status, token) ==
    attempt' = [attempt EXCEPT ![Day(s)] = [status |-> status, token |-> token]]

-----------------------------------------------------------------------------
(* The route lists the schedules and the date once, then works through     *)
(* them: whether this one is due (isScheduleDue) depends on its cron       *)
(* expression, which is left open.                                         *)
Scan(s) ==
    /\ At(s, "idle")
    /\ sweep' = [sweep EXCEPT ![s] = Local("claim", today, schedule.lastSent, "none")]
    /\ UNCHANGED <<schedule, attempt, today, accepted>>

(* claimScheduleDispatch: compare-and-set on lastSentAt, and no live lease.*)
Claimable(s) == /\ schedule.lastSent = sweep[s].seen
                /\ schedule.lease = NoSweep \/ ~schedule.live
Claim(s) ==
    /\ At(s, "claim")
    /\ IF Claimable(s)
       THEN /\ schedule' = [lease |-> s, live |-> TRUE, lastSent |-> schedule.lastSent]
            /\ Goto(s, "begin")
       ELSE End(s) /\ UNCHANGED schedule
    /\ UNCHANGED <<attempt, today, accepted>>

-----------------------------------------------------------------------------
(* beginDispatchAttempt: read the row of the occurrence, then act on it.   *)
Begin(s) ==
    /\ At(s, "begin")
    /\ sweep' = [sweep EXCEPT ![s] =
          Local(CASE Status(s) = "none" -> "create"
                  [] Status(s) \in Closed -> "release"
                  [] Status(s) = "PROVIDER_STARTED" -> "orphan"
                  [] OTHER -> "reclaim", Day(s), 0, Status(s))]
    /\ UNCHANGED <<schedule, attempt, today, accepted>>

(* The unique key of the occurrence refuses a second row: the insert throws*)
(* and the route gives up without a release.                               *)
Create(s) ==
    /\ At(s, "create")
    /\ IF Status(s) = "none"
       THEN SetAttempt(s, "CLAIMED", s) /\ Goto(s, "start")
       ELSE End(s) /\ UNCHANGED attempt
    /\ UNCHANGED <<schedule, today, accepted>>

(* A worker that started and lost its lease cannot be disproved.           *)
Orphan(s) ==
    /\ At(s, "orphan")
    /\ IF Status(s) = "PROVIDER_STARTED" THEN SetAttempt(s, "AMBIGUOUS", attempt[Day(s)].token)
       ELSE UNCHANGED attempt
    /\ Goto(s, "release")
    /\ UNCHANGED <<schedule, today, accepted>>

(* Guarded by the status that was read, not by the token.                  *)
Reclaim(s) ==
    /\ At(s, "reclaim")
    /\ IF Status(s) = sweep[s].read
       THEN SetAttempt(s, "CLAIMED", s) /\ Goto(s, "start")
       ELSE Goto(s, "release") /\ UNCHANGED attempt
    /\ UNCHANGED <<schedule, today, accepted>>

-----------------------------------------------------------------------------
(* executeScheduleDispatch: the brief is compiled, then                    *)
(* markDispatchAttemptProviderStarted commits the crash boundary.  A lost  *)
(* ownership returns a result, so the route does not release the lease.    *)
Sending(s, todo, delivered, ambiguous) ==
    sweep' = [sweep EXCEPT ![s] =
        [pc |-> "send", day |-> Day(s), seen |-> 0, read |-> "none", todo |-> todo,
         delivered |-> delivered, ambiguous |-> ambiguous]]
OwnsAttemptAnyStatus(s, status) == attempt[Day(s)].token = s
OwnsAttempt(s, status) == attempt[Day(s)].token = s /\ Status(s) = status
Start(s) ==
    /\ At(s, "start")
    /\ IF OwnsAttempt(s, "CLAIMED")
       THEN /\ SetAttempt(s, "PROVIDER_STARTED", s)
            /\ Sending(s, Destinations, FALSE, FALSE)
       ELSE End(s) /\ UNCHANGED attempt
    /\ UNCHANGED <<schedule, today, accepted>>

(* One request.  A rejected brief was not accepted; of a time-out, an abort*)
(* or a broken connection nothing is known.                                *)
SentRetrying(s, x, delivered, ambiguous) ==
    Sending(s, IF ambiguous THEN sweep[s].todo ELSE sweep[s].todo \ {x},
            sweep[s].delivered \/ delivered, sweep[s].ambiguous \/ ambiguous)
Sent(s, x, delivered, ambiguous) ==
    Sending(s, sweep[s].todo \ {x}, sweep[s].delivered \/ delivered,
            sweep[s].ambiguous \/ ambiguous)
Accept(s, x) ==
    accepted' = [accepted EXCEPT ![Day(s)] =
        [y \in Destinations |-> IF y = x THEN accepted[Day(s)][y] + 1 ELSE accepted[Day(s)][y]]]
Send(s) ==
    /\ At(s, "send")
    /\ \E x \in sweep[s].todo :
          \/ Sent(s, x, TRUE, FALSE) /\ Accept(s, x)
          \/ Sent(s, x, FALSE, FALSE) /\ UNCHANGED accepted
          \/ Sent(s, x, FALSE, TRUE) /\ (Accept(s, x) \/ UNCHANGED accepted)
    /\ UNCHANGED <<schedule, attempt, today>>

(* The overall deadline: the destinations that are left count as ambiguous *)
(* without a request.                                                      *)
DeadlinePasses(s) ==
    /\ At(s, "send") /\ sweep[s].todo # {}
    /\ Sending(s, {}, sweep[s].delivered, TRUE)
    /\ UNCHANGED <<schedule, attempt, today, accepted>>

(* resolveDispatchAttempt: one confirmed destination is enough.            *)
ResolutionPartial(s) == IF sweep[s].delivered /\ sweep[s].ambiguous THEN "PARTIAL"
                        ELSE IF sweep[s].delivered THEN "CONFIRMED"
                        ELSE IF sweep[s].ambiguous THEN "AMBIGUOUS" ELSE "DEFINITIVE_FAILED"
ResolutionForgetsAmbiguous(s) == IF sweep[s].delivered THEN "CONFIRMED" ELSE "DEFINITIVE_FAILED"
Resolution(s) == IF sweep[s].delivered THEN "CONFIRMED"
                 ELSE IF sweep[s].ambiguous THEN "AMBIGUOUS" ELSE "DEFINITIVE_FAILED"
SucceededPerhaps(s) == sweep[s].delivered \/ sweep[s].ambiguous
Succeeded(s) == sweep[s].delivered
Resolve(s) ==
    /\ At(s, "send") /\ sweep[s].todo = {}
    /\ IF OwnsAttempt(s, "PROVIDER_STARTED") THEN SetAttempt(s, Resolution(s), s)
       ELSE UNCHANGED attempt
    /\ Goto(s, IF Succeeded(s) THEN "complete" ELSE "release")
    /\ UNCHANGED <<schedule, today, accepted>>

(* completeScheduleDispatch and releaseScheduleDispatch, by token.         *)
Complete(s) ==
    /\ At(s, "complete")
    /\ IF schedule.lease = s
       THEN schedule' = [lease |-> NoSweep, live |-> FALSE, lastSent |-> schedule.lastSent + 1]
       ELSE UNCHANGED schedule
    /\ End(s)
    /\ UNCHANGED <<attempt, today, accepted>>

Release(s) ==
    /\ At(s, "release")
    /\ IF schedule.lease = s
       THEN schedule' = [lease |-> NoSweep, live |-> FALSE, lastSent |-> schedule.lastSent]
       ELSE UNCHANGED schedule
    /\ End(s)
    /\ UNCHANGED <<attempt, today, accepted>>

-----------------------------------------------------------------------------
(* A statement throws: inside executeScheduleDispatch the route releases   *)
(* the lease, before it and in a release nobody does.                      *)
StatementFails(s) ==
    /\ \/ sweep[s].pc \in {"start", "send", "complete"} /\ Goto(s, "release")
       \/ sweep[s].pc \in {"claim", "begin", "create", "orphan", "reclaim", "release"} /\ End(s)
    /\ UNCHANGED <<schedule, attempt, today, accepted>>

Crash(s) ==
    /\ sweep[s].pc \in Active
    /\ End(s)
    /\ UNCHANGED <<schedule, attempt, today, accepted>>

LeaseExpires ==
    /\ schedule.live
    /\ schedule' = [lease |-> schedule.lease, live |-> FALSE, lastSent |-> schedule.lastSent]
    /\ UNCHANGED <<attempt, sweep, today, accepted>>

DayEnds ==
    /\ today < LastDay
    /\ today' = today + 1
    /\ UNCHANGED <<schedule, attempt, sweep, accepted>>

Next ==
    \/ \E s \in Sweeps :
          \/ Scan(s) \/ Claim(s) \/ Begin(s) \/ Create(s) \/ Orphan(s) \/ Reclaim(s)
          \/ Start(s) \/ Send(s) \/ DeadlinePasses(s) \/ Resolve(s)
          \/ Complete(s) \/ Release(s) \/ StatementFails(s) \/ Crash(s)
    \/ LeaseExpires \/ DayEnds

Spec == Init /\ [][Next]_vars
-----------------------------------------------------------------------------
(* Nobody receives the brief of an occurrence twice, whatever sweeps       *)
(* overlap, crash, lose their lease or span midnight.                      *)
AtMostOnce == \A d \in Days, x \in Destinations : accepted[d][x] <= 1

(* As long as an occurrence may be tried again no provider has accepted    *)
(* anything for it.                                                        *)
RetryableMeansUndelivered ==
    \A d \in Days : attempt[d].status \in Retryable => \A x \in Destinations : accepted[d][x] = 0

(* A confirmed or ambiguous occurrence is closed: no later sweep, and no   *)
(* stale one, moves its row again.                                         *)
OccurrenceStaysClosed ==
    [][\A d \in Days : attempt[d].status \in Closed => attempt'[d] = attempt[d]]_vars

(* lastSentAt moves at most once for each occurrence that reached somebody.*)
Reached == {d \in Days : \E x \in Destinations : accepted[d][x] > 0}
SentOncePerOccurrence == schedule.lastSent <= Cardinality(Reached)

(* The dispatch implements the promise of BriefLedger: an occurrence has one *)
(* sender, also while another sweep gives its row up for lost, nobody is     *)
(* sent its brief twice, and what its row says of the deliveries is true.    *)
PhaseOf(status) == CASE status = "PROVIDER_STARTED" -> "begun" [] status = "CONFIRMED" -> "delivered"
                     [] status = "AMBIGUOUS" -> "unknown" [] OTHER -> "open"
Phases == [d \in Days |-> PhaseOf(attempt[d].status)]
BeingSent == {Day(s) : s \in {t \in Sweeps : At(t, "send")}}
Briefs == INSTANCE BriefLedger WITH
    Occurrences <- Days, Recipients <- Destinations,
    phase <- Phases, sending <- BeingSent, received <- accepted, counted <- schedule.lastSent
ImplementsBriefLedger == Briefs!Spec
=============================================================================
