------------------------ MODULE ReportDispatch_proofs ------------------------
(***************************************************************************)
(* Theorems about ReportDispatch, for every set of sweeps and destinations *)
(* and any number of days.                                                 *)
(***************************************************************************)
EXTENDS ReportDispatch, FiniteSetTheorems, TLAPS

USE NoSweepAssumption, LastDayAssumption

-----------------------------------------------------------------------------
(* The local state of a sweep.                                             *)

LEMMA LocalType ==
    ASSUME NEW pc \in Active \cup {"idle", "ended"}, NEW day \in Days, NEW seen \in Nat,
           NEW read \in AttemptStatus
    PROVE  Local(pc, day, seen, read) \in SweepType
BY DEF Local, SweepType

LEMMA OneIsADay == 1 \in Days
BY DEF Days

(* What Goto and End do to the sweeps.                                     *)
LEMMA GotoType ==
    ASSUME TypeOK, NEW s \in Sweeps, NEW point \in Active, Goto(s, point)
    PROVE  /\ sweep' \in [Sweeps -> SweepType]
           /\ sweep'[s].pc = point
           /\ \A t \in Sweeps \ {s} : sweep'[t] = sweep[t]
<1>1. sweep[s] \in SweepType
    BY DEF TypeOK
<1>2. sweep' = [sweep EXCEPT ![s] = [sweep[s] EXCEPT !.pc = point]]
    BY DEF Goto
<1>3. [sweep[s] EXCEPT !.pc = point] \in SweepType
    BY <1>1 DEF SweepType
<1>4. [sweep[s] EXCEPT !.pc = point].pc = point
    BY <1>1 DEF SweepType
<1>5. \A t \in Sweeps \ {s} : sweep'[t] = sweep[t]
    BY <1>2 DEF TypeOK
<1>6. sweep'[s] = [sweep[s] EXCEPT !.pc = point]
    BY <1>2 DEF TypeOK
<1> QED BY <1>2, <1>3, <1>4, <1>5, <1>6 DEF TypeOK

LEMMA EndType ==
    ASSUME TypeOK, NEW s \in Sweeps, End(s)
    PROVE  /\ sweep' \in [Sweeps -> SweepType]
           /\ sweep'[s].pc = "ended"
           /\ \A t \in Sweeps \ {s} : sweep'[t] = sweep[t]
<1>1. Local("ended", 1, 0, "none") \in SweepType
    BY LocalType, OneIsADay DEF AttemptStatus, Retryable
<1>2. Local("ended", 1, 0, "none").pc = "ended"
    BY DEF Local
<1> QED BY <1>1, <1>2 DEF TypeOK, End

LEMMA AttemptTypeKept ==
    ASSUME TypeOK, NEW s \in Sweeps, NEW status \in AttemptStatus,
           NEW token \in Sweeps \cup {NoSweep}, SetAttempt(s, status, token)
    PROVE  /\ attempt' \in [Days -> AttemptType]
           /\ attempt'[Day(s)] = [status |-> status, token |-> token]
           /\ \A d \in Days \ {Day(s)} : attempt'[d] = attempt[d]
<1>1. Day(s) \in Days
    BY DEF TypeOK, SweepType, Day
<1> QED BY <1>1 DEF TypeOK, AttemptType, SetAttempt

LEMMA AcceptKept ==
    ASSUME TypeOK, NEW s \in Sweeps, NEW x \in Destinations, Accept(s, x)
    PROVE  /\ accepted' \in [Days -> [Destinations -> Nat]]
           /\ accepted'[Day(s)][x] = accepted[Day(s)][x] + 1
           /\ \A y \in Destinations \ {x} : accepted'[Day(s)][y] = accepted[Day(s)][y]
           /\ \A d \in Days \ {Day(s)} : accepted'[d] = accepted[d]
<1>1. Day(s) \in Days
    BY DEF TypeOK, SweepType, Day
<1> DEFINE row == [y \in Destinations |-> IF y = x THEN accepted[Day(s)][y] + 1
                                          ELSE accepted[Day(s)][y]]
<1>2. accepted \in [Days -> [Destinations -> Nat]]
    BY DEF TypeOK
<1>3. accepted[Day(s)] \in [Destinations -> Nat]
    BY <1>1, <1>2
<1>4. row \in [Destinations -> Nat]
    BY <1>3
<1>5. row[x] = accepted[Day(s)][x] + 1 /\ \A y \in Destinations \ {x} : row[y] = accepted[Day(s)][y]
    OBVIOUS
<1>6. accepted' = [accepted EXCEPT ![Day(s)] = row]
    BY DEF Accept
<1>7. accepted'[Day(s)] = row /\ \A d \in Days \ {Day(s)} : accepted'[d] = accepted[d]
    BY <1>1, <1>2, <1>6
<1>8. accepted' \in [Days -> [Destinations -> Nat]]
    BY <1>2, <1>4, <1>6
<1> HIDE DEF row
<1> QED BY <1>5, <1>7, <1>8

-----------------------------------------------------------------------------
(* The inductive invariant.  A sweep that sends owns the row of its        *)
(* occurrence, which somebody else may only have closed as ambiguous; it   *)
(* has something to send to those that have received nothing; and as long  *)
(* as it knows of no confirmed or unknown outcome nobody has received      *)
(* anything.                                                               *)
SenderOwns(s) == At(s, "send") => /\ attempt[Day(s)].token = s
                                  /\ Status(s) \in {"PROVIDER_STARTED", "AMBIGUOUS"}
TodoUntouched(s) == At(s, "send") => \A x \in sweep[s].todo : accepted[Day(s)][x] = 0
SenderKnows(s) == At(s, "send") /\ ~sweep[s].delivered /\ ~sweep[s].ambiguous =>
                      \A x \in Destinations : accepted[Day(s)][x] = 0
ReclaimsRetryable(s) == At(s, "reclaim") => sweep[s].read \in {"CLAIMED", "DEFINITIVE_FAILED"}
SweepOK(s) == SenderOwns(s) /\ TodoUntouched(s) /\ SenderKnows(s) /\ ReclaimsRetryable(s)

IInv == /\ TypeOK
        /\ AtMostOnce
        /\ RetryableMeansUndelivered
        /\ \A s \in Sweeps : SweepOK(s)

(* A sweep that neither sends nor reclaims has nothing to show.            *)
LEMMA RestingSweep ==
    ASSUME NEW s \in Sweeps, sweep'[s].pc \notin {"send", "reclaim"}
    PROVE  SweepOK(s)'
BY DEF SweepOK, SenderOwns, TodoUntouched, SenderKnows, ReclaimsRetryable, At

(* A step of sweep s that sends nothing keeps the invariant when it leaves *)
(* the other senders their rows and reopens no occurrence that reached     *)
(* somebody.                                                               *)
LEMMA LocalStep ==
    ASSUME IInv, TypeOK', NEW s \in Sweeps, UNCHANGED accepted,
           \A t \in Sweeps \ {s} : sweep'[t] = sweep[t],
           \A d \in Days : attempt'[d].status \in Retryable =>
               attempt[d].status \in Retryable \/ \A x \in Destinations : accepted[d][x] = 0,
           \A t \in Sweeps \ {s} : At(t, "send") =>
               attempt'[Day(t)].token = t
               /\ attempt'[Day(t)].status \in {"PROVIDER_STARTED", "AMBIGUOUS"},
           SweepOK(s)'
    PROVE  IInv'
<1>1. AtMostOnce'
    BY DEF IInv, AtMostOnce
<1>2. RetryableMeansUndelivered'
    BY DEF IInv, RetryableMeansUndelivered
<1>3. ASSUME NEW t \in Sweeps, t # s
      PROVE  SweepOK(t)'
  <2>1. sweep'[t] = sweep[t] /\ SweepOK(t)
      BY <1>3 DEF IInv
  <2>2. SenderOwns(t)'
      BY <2>1, <1>3 DEF SweepOK, SenderOwns, At, Day, Status
  <2>3. TodoUntouched(t)' /\ SenderKnows(t)' /\ ReclaimsRetryable(t)'
      BY <2>1 DEF SweepOK, TodoUntouched, SenderKnows, ReclaimsRetryable, At, Day
  <2> QED BY <2>2, <2>3 DEF SweepOK
<1> QED BY <1>1, <1>2, <1>3 DEF IInv

(* Such a step that touches no row.                                        *)
LEMMA QuietStep ==
    ASSUME IInv, TypeOK', NEW s \in Sweeps, UNCHANGED <<attempt, accepted>>,
           \A t \in Sweeps \ {s} : sweep'[t] = sweep[t],
           SweepOK(s)'
    PROVE  IInv'
<1>1. \A t \in Sweeps \ {s} : At(t, "send") =>
          attempt'[Day(t)].token = t
          /\ attempt'[Day(t)].status \in {"PROVIDER_STARTED", "AMBIGUOUS"}
    BY DEF IInv, SweepOK, SenderOwns, Status
<1>2. \A d \in Days : attempt'[d].status \in Retryable =>
          attempt[d].status \in Retryable \/ \A x \in Destinations : accepted[d][x] = 0
    OBVIOUS
<1> QED BY <1>1, <1>2, LocalStep

(* Such a step that sets the row of its occurrence, which no other sender  *)
(* owns.                                                                   *)
LEMMA RowStep ==
    ASSUME IInv, TypeOK', NEW s \in Sweeps, UNCHANGED accepted,
           NEW status \in AttemptStatus, NEW token \in Sweeps \cup {NoSweep},
           SetAttempt(s, status, token),
           status \in Retryable =>
               Status(s) \in Retryable \/ \A x \in Destinations : accepted[Day(s)][x] = 0,
           \A t \in Sweeps \ {s} : At(t, "send") /\ Day(t) = Day(s) =>
               token = t /\ status \in {"PROVIDER_STARTED", "AMBIGUOUS"},
           \A t \in Sweeps \ {s} : sweep'[t] = sweep[t],
           SweepOK(s)'
    PROVE  IInv'
<1>1. /\ attempt'[Day(s)] = [status |-> status, token |-> token]
      /\ \A d \in Days \ {Day(s)} : attempt'[d] = attempt[d]
    BY AttemptTypeKept DEF IInv
<1>2. attempt'[Day(s)].status = status /\ attempt'[Day(s)].token = token
    BY <1>1
<1>3. \A d \in Days : attempt'[d].status \in Retryable =>
          attempt[d].status \in Retryable \/ \A x \in Destinations : accepted[d][x] = 0
    BY <1>1, <1>2 DEF Status
<1>4. ASSUME NEW t \in Sweeps, t # s, At(t, "send")
      PROVE  attempt'[Day(t)].token = t
             /\ attempt'[Day(t)].status \in {"PROVIDER_STARTED", "AMBIGUOUS"}
  <2>1. Day(t) \in Days
      BY DEF IInv, TypeOK, SweepType, Day
  <2>2. attempt[Day(t)].token = t /\ attempt[Day(t)].status \in {"PROVIDER_STARTED", "AMBIGUOUS"}
      BY <1>4 DEF IInv, SweepOK, SenderOwns, Status
  <2>3. CASE Day(t) = Day(s)
      BY <2>3, <1>2, <1>4
  <2>4. CASE Day(t) # Day(s)
      BY <2>1, <2>2, <2>4, <1>1
  <2> QED BY <2>3, <2>4
<1> QED BY <1>3, <1>4, LocalStep

-----------------------------------------------------------------------------
(* The sweep before it talks to a provider.                                *)

LEMMA ScanStep == ASSUME IInv, NEW s \in Sweeps, Scan(s) PROVE IInv'
<1>1. Local("claim", today, schedule.lastSent, "none") \in SweepType
    BY LocalType DEF IInv, TypeOK, ScheduleType, Active, AttemptStatus, Retryable
<1>2. sweep' = [sweep EXCEPT ![s] = Local("claim", today, schedule.lastSent, "none")]
    BY DEF Scan
<1>3. sweep'[s].pc = "claim" /\ \A t \in Sweeps \ {s} : sweep'[t] = sweep[t]
    BY <1>2 DEF IInv, TypeOK, Local
<1>4. TypeOK'
    BY <1>1, <1>2 DEF IInv, TypeOK, Scan
<1> QED BY <1>3, <1>4, RestingSweep, QuietStep DEF Scan

LEMMA ClaimStep == ASSUME IInv, NEW s \in Sweeps, Claim(s) PROVE IInv'
<1>1. CASE Claimable(s)
  <2>1. schedule' = [lease |-> s, live |-> TRUE, lastSent |-> schedule.lastSent] /\ Goto(s, "begin")
      BY <1>1 DEF Claim
  <2>2. schedule' \in ScheduleType
      BY <2>1 DEF IInv, TypeOK, ScheduleType
  <2>3. /\ sweep' \in [Sweeps -> SweepType] /\ sweep'[s].pc = "begin"
        /\ \A t \in Sweeps \ {s} : sweep'[t] = sweep[t]
      BY <2>1, GotoType DEF IInv, Active
  <2>4. TypeOK'
      BY <2>2, <2>3 DEF IInv, TypeOK, Claim
  <2> QED BY <2>3, <2>4, RestingSweep, QuietStep DEF Claim
<1>2. CASE ~Claimable(s)
  <2>1. /\ sweep' \in [Sweeps -> SweepType] /\ sweep'[s].pc = "ended"
        /\ \A t \in Sweeps \ {s} : sweep'[t] = sweep[t]
      BY <1>2, EndType DEF IInv, Claim
  <2>2. TypeOK'
      BY <1>2, <2>1 DEF IInv, TypeOK, Claim
  <2> QED BY <2>1, <2>2, RestingSweep, QuietStep DEF Claim
<1> QED BY <1>1, <1>2

LEMMA BeginStep == ASSUME IInv, NEW s \in Sweeps, Begin(s) PROVE IInv'
<1>1. Day(s) \in Days /\ Status(s) \in AttemptStatus
  <2>1. Day(s) \in Days
      BY DEF IInv, TypeOK, SweepType, Day
  <2> QED BY <2>1 DEF IInv, TypeOK, AttemptType, Status
<1> DEFINE point == CASE Status(s) = "none" -> "create"
                      [] Status(s) \in Closed -> "release"
                      [] Status(s) = "PROVIDER_STARTED" -> "orphan"
                      [] OTHER -> "reclaim"
<1>2. /\ point \in {"create", "release", "orphan", "reclaim"}
      /\ point = "reclaim" => Status(s) \in {"CLAIMED", "DEFINITIVE_FAILED"}
    BY <1>1 DEF AttemptStatus, Closed, Retryable
<1>3. sweep' = [sweep EXCEPT ![s] = Local(point, Day(s), 0, Status(s))]
    BY DEF Begin
<1> HIDE DEF point
<1>4. Local(point, Day(s), 0, Status(s)) \in SweepType
    BY <1>1, <1>2, LocalType DEF Active
<1>5. sweep'[s] = Local(point, Day(s), 0, Status(s)) /\ \A t \in Sweeps \ {s} : sweep'[t] = sweep[t]
    BY <1>3 DEF IInv, TypeOK
<1>6. sweep'[s].pc = point /\ sweep'[s].read = Status(s)
    BY <1>5 DEF Local
<1>7. SweepOK(s)'
    BY <1>2, <1>6 DEF SweepOK, SenderOwns, TodoUntouched, SenderKnows, ReclaimsRetryable, At
<1>8. TypeOK'
    BY <1>3, <1>4 DEF IInv, TypeOK, Begin
<1> QED BY <1>5, <1>7, <1>8, QuietStep DEF Begin

(* A sweep that gives up, and one that goes to its release.                *)
LEMMA EndStep ==
    ASSUME IInv, NEW s \in Sweeps, End(s), UNCHANGED <<attempt, today, accepted>>,
           schedule' \in ScheduleType
    PROVE  IInv'
<1>1. /\ sweep' \in [Sweeps -> SweepType] /\ sweep'[s].pc = "ended"
      /\ \A t \in Sweeps \ {s} : sweep'[t] = sweep[t]
    BY EndType DEF IInv
<1>2. TypeOK'
    BY <1>1 DEF IInv, TypeOK
<1> QED BY <1>1, <1>2, RestingSweep, QuietStep

LEMMA ReleaseNext ==
    ASSUME IInv, NEW s \in Sweeps, NEW point \in {"start", "complete", "release"}, Goto(s, point),
           UNCHANGED <<schedule, attempt, today, accepted>>
    PROVE  IInv'
<1>1. /\ sweep' \in [Sweeps -> SweepType] /\ sweep'[s].pc = point
      /\ \A t \in Sweeps \ {s} : sweep'[t] = sweep[t]
    BY GotoType DEF IInv, Active
<1>2. TypeOK'
    BY <1>1 DEF IInv, TypeOK
<1> QED BY <1>1, <1>2, RestingSweep, QuietStep

(* One that sets its row and goes on without sending.                      *)
LEMMA SetAndGo ==
    ASSUME IInv, NEW s \in Sweeps, NEW point \in {"start", "complete", "release"}, Goto(s, point),
           NEW status \in AttemptStatus, NEW token \in Sweeps \cup {NoSweep},
           SetAttempt(s, status, token), UNCHANGED <<schedule, today, accepted>>,
           status \in Retryable =>
               Status(s) \in Retryable \/ \A x \in Destinations : accepted[Day(s)][x] = 0,
           \A t \in Sweeps \ {s} : At(t, "send") /\ Day(t) = Day(s) =>
               token = t /\ status \in {"PROVIDER_STARTED", "AMBIGUOUS"}
    PROVE  IInv'
<1>1. /\ sweep' \in [Sweeps -> SweepType] /\ sweep'[s].pc = point
      /\ \A t \in Sweeps \ {s} : sweep'[t] = sweep[t]
    BY GotoType DEF IInv, Active
<1>2. attempt' \in [Days -> AttemptType]
    BY AttemptTypeKept DEF IInv
<1>3. TypeOK'
    BY <1>1, <1>2 DEF IInv, TypeOK
<1> QED BY <1>1, <1>3, RestingSweep, RowStep

(* The senders of an occurrence are the owner of its row.                  *)
LEMMA OtherSenders ==
    ASSUME IInv, NEW s \in Sweeps, NEW t \in Sweeps \ {s}, At(t, "send"), Day(t) = Day(s)
    PROVE  attempt[Day(s)].token = t /\ Status(s) \in {"PROVIDER_STARTED", "AMBIGUOUS"}
BY DEF IInv, SweepOK, SenderOwns, Status

LEMMA CreateStep == ASSUME IInv, NEW s \in Sweeps, Create(s) PROVE IInv'
<1>1. CASE Status(s) = "none"
  <2>1. \A t \in Sweeps \ {s} : ~(At(t, "send") /\ Day(t) = Day(s))
      BY <1>1, OtherSenders
  <2>2. SetAttempt(s, "CLAIMED", s) /\ Goto(s, "start") /\ UNCHANGED <<schedule, today, accepted>>
      BY <1>1 DEF Create
  <2> QED BY <1>1, <2>1, <2>2, SetAndGo DEF AttemptStatus, Retryable
<1>2. CASE Status(s) # "none"
    BY <1>2, EndStep DEF Create, IInv, TypeOK
<1> QED BY <1>1, <1>2

LEMMA OrphanStep == ASSUME IInv, NEW s \in Sweeps, Orphan(s) PROVE IInv'
<1>1. CASE Status(s) = "PROVIDER_STARTED"
  <2>1. Day(s) \in Days
      BY DEF IInv, TypeOK, SweepType, Day
  <2>2. attempt[Day(s)].token \in Sweeps \cup {NoSweep}
      BY <2>1 DEF IInv, TypeOK, AttemptType
  <2>3. SetAttempt(s, "AMBIGUOUS", attempt[Day(s)].token) /\ Goto(s, "release")
      BY <1>1 DEF Orphan
  <2>4. \A t \in Sweeps \ {s} : At(t, "send") /\ Day(t) = Day(s) => attempt[Day(s)].token = t
      BY OtherSenders
  <2> QED BY <2>2, <2>3, <2>4, SetAndGo DEF Orphan, AttemptStatus, Closed, Retryable
<1>2. CASE Status(s) # "PROVIDER_STARTED"
    BY <1>2, ReleaseNext DEF Orphan
<1> QED BY <1>1, <1>2

LEMMA ReclaimStep == ASSUME IInv, NEW s \in Sweeps, Reclaim(s) PROVE IInv'
<1>1. CASE Status(s) = sweep[s].read
  <2>1. Status(s) \in {"CLAIMED", "DEFINITIVE_FAILED"}
      BY <1>1 DEF IInv, SweepOK, ReclaimsRetryable, Reclaim
  <2>2. \A t \in Sweeps \ {s} : ~(At(t, "send") /\ Day(t) = Day(s))
      BY <2>1, OtherSenders
  <2>3. SetAttempt(s, "CLAIMED", s) /\ Goto(s, "start") /\ UNCHANGED <<schedule, today, accepted>>
      BY <1>1 DEF Reclaim
  <2> QED BY <2>1, <2>2, <2>3, SetAndGo DEF AttemptStatus, Retryable
<1>2. CASE Status(s) # sweep[s].read
    BY <1>2, ReleaseNext DEF Reclaim
<1> QED BY <1>1, <1>2

-----------------------------------------------------------------------------
(* What Sending leaves in the sweep.                                       *)
LEMMA SendingKept ==
    ASSUME IInv, NEW s \in Sweeps, NEW todo \in SUBSET Destinations,
           NEW delivered \in BOOLEAN, NEW ambiguous \in BOOLEAN,
           Sending(s, todo, delivered, ambiguous)
    PROVE  /\ sweep' \in [Sweeps -> SweepType]
           /\ \A t \in Sweeps \ {s} : sweep'[t] = sweep[t]
           /\ sweep'[s].pc = "send" /\ sweep'[s].day = Day(s) /\ sweep'[s].todo = todo
           /\ sweep'[s].delivered <=> delivered
           /\ sweep'[s].ambiguous <=> ambiguous
<1>1. Day(s) \in Days
    BY DEF IInv, TypeOK, SweepType, Day
<1> DEFINE sending == [pc |-> "send", day |-> Day(s), seen |-> 0, read |-> "none",
                       todo |-> todo, delivered |-> delivered, ambiguous |-> ambiguous]
<1>2. sending \in SweepType
    BY <1>1 DEF SweepType, Active, AttemptStatus, Retryable
<1>3. sweep' = [sweep EXCEPT ![s] = sending]
    BY DEF Sending
<1>4. sweep'[s] = sending /\ \A t \in Sweeps \ {s} : sweep'[t] = sweep[t]
    BY <1>3 DEF IInv, TypeOK
<1>5. sweep' \in [Sweeps -> SweepType]
    BY <1>2, <1>3 DEF IInv, TypeOK
<1> QED BY <1>4, <1>5

(* The crash boundary: the row of a sweep that starts to send is retryable *)
(* until then, so nobody has received the brief.                           *)
LEMMA StartStep == ASSUME IInv, NEW s \in Sweeps, Start(s) PROVE IInv'
<1>1. CASE OwnsAttempt(s, "CLAIMED")
  <2>1. Day(s) \in Days /\ At(s, "start")
      BY DEF IInv, TypeOK, SweepType, Day, Start
  <2>2. attempt[Day(s)].token = s /\ Status(s) = "CLAIMED"
      BY <1>1 DEF OwnsAttempt
  <2>3. \A x \in Destinations : accepted[Day(s)][x] = 0
      BY <2>1, <2>2 DEF IInv, RetryableMeansUndelivered, Status, Retryable
  <2>4. \A t \in Sweeps \ {s} : ~(At(t, "send") /\ Day(t) = Day(s))
      BY <2>2, OtherSenders
  <2>5. /\ SetAttempt(s, "PROVIDER_STARTED", s) /\ UNCHANGED <<schedule, today, accepted>>
        /\ Sending(s, Destinations, FALSE, FALSE)
      BY <1>1 DEF Start
  <2>6. /\ sweep' \in [Sweeps -> SweepType]
        /\ \A t \in Sweeps \ {s} : sweep'[t] = sweep[t]
        /\ sweep'[s].pc = "send" /\ sweep'[s].day = Day(s) /\ sweep'[s].todo = Destinations
      BY <2>5, SendingKept
  <2>7. /\ attempt' \in [Days -> AttemptType]
        /\ attempt'[Day(s)] = [status |-> "PROVIDER_STARTED", token |-> s]
      BY <2>5, AttemptTypeKept DEF IInv, AttemptStatus
  <2>8. attempt'[Day(s)].status = "PROVIDER_STARTED" /\ attempt'[Day(s)].token = s
      BY <2>7
  <2>9. TypeOK'
      BY <2>5, <2>6, <2>7 DEF IInv, TypeOK
  <2>10. SenderOwns(s)'
      BY <2>6, <2>8 DEF SenderOwns, At, Day, Status
  <2>11. TodoUntouched(s)' /\ SenderKnows(s)'
      BY <2>3, <2>5, <2>6 DEF TodoUntouched, SenderKnows, At, Day
  <2>12. ReclaimsRetryable(s)'
      BY <2>6 DEF ReclaimsRetryable, At
  <2>13. SweepOK(s)'
      BY <2>10, <2>11, <2>12 DEF SweepOK
  <2> QED BY <2>4, <2>5, <2>6, <2>9, <2>13, RowStep DEF AttemptStatus, Retryable
<1>2. CASE ~OwnsAttempt(s, "CLAIMED")
    BY <1>2, EndStep DEF Start, IInv, TypeOK
<1> QED BY <1>1, <1>2

LEMMA SendStep == ASSUME IInv, NEW s \in Sweeps, Send(s) PROVE IInv'
<1>1. At(s, "send") /\ UNCHANGED <<schedule, attempt, today>>
    BY DEF Send
<1>2. sweep[s] \in SweepType /\ Day(s) \in Days
    BY DEF IInv, TypeOK, SweepType, Day
<1>3. PICK x \in sweep[s].todo :
          \/ Sent(s, x, TRUE, FALSE) /\ Accept(s, x)
          \/ Sent(s, x, FALSE, FALSE) /\ UNCHANGED accepted
          \/ Sent(s, x, FALSE, TRUE) /\ (Accept(s, x) \/ UNCHANGED accepted)
    BY DEF Send
<1>4. x \in Destinations
    BY <1>2 DEF SweepType
<1>5. accepted[Day(s)][x] = 0
    BY <1>1 DEF IInv, SweepOK, TodoUntouched
<1>6. PICK delivered \in BOOLEAN, ambiguous \in BOOLEAN :
          /\ Sent(s, x, delivered, ambiguous)
          /\ Accept(s, x) \/ UNCHANGED accepted
          /\ ~delivered /\ ~ambiguous => UNCHANGED accepted
    BY <1>3
<1>7. /\ sweep' \in [Sweeps -> SweepType]
      /\ \A t \in Sweeps \ {s} : sweep'[t] = sweep[t]
      /\ sweep'[s].pc = "send" /\ sweep'[s].day = Day(s)
      /\ sweep'[s].todo = sweep[s].todo \ {x}
      /\ sweep'[s].delivered <=> sweep[s].delivered \/ delivered
      /\ sweep'[s].ambiguous <=> sweep[s].ambiguous \/ ambiguous
    BY <1>2, <1>6, SendingKept DEF Sent, SweepType
<1>8. /\ accepted' \in [Days -> [Destinations -> Nat]]
      /\ accepted'[Day(s)][x] <= 1
      /\ \A y \in Destinations \ {x} : accepted'[Day(s)][y] = accepted[Day(s)][y]
      /\ \A d \in Days \ {Day(s)} : accepted'[d] = accepted[d]
  <2>1. CASE UNCHANGED accepted
      BY <2>1, <1>5 DEF IInv, TypeOK
  <2>2. CASE Accept(s, x)
      BY <2>2, <1>4, <1>5, AcceptKept DEF IInv
  <2> QED BY <2>1, <2>2, <1>6
<1>9. TypeOK'
    BY <1>1, <1>7, <1>8 DEF IInv, TypeOK
<1>10. AtMostOnce'
  <2> SUFFICES ASSUME NEW d \in Days, NEW y \in Destinations PROVE accepted'[d][y] <= 1
      BY DEF AtMostOnce
  <2>1. accepted[d][y] <= 1
      BY DEF IInv, AtMostOnce
  <2> QED BY <1>8, <2>1
<1>11. attempt[Day(s)].token = s /\ Status(s) \in {"PROVIDER_STARTED", "AMBIGUOUS"}
    BY <1>1 DEF IInv, SweepOK, SenderOwns
<1>12. RetryableMeansUndelivered'
  <2> SUFFICES ASSUME NEW d \in Days, attempt[d].status \in Retryable
               PROVE  \A y \in Destinations : accepted'[d][y] = 0
      BY <1>1 DEF RetryableMeansUndelivered
  <2>1. d # Day(s)
      BY <1>11 DEF Status, Retryable
  <2> QED BY <1>8, <2>1 DEF IInv, RetryableMeansUndelivered
<1>13. SweepOK(s)'
  <2>1. SenderOwns(s)'
      BY <1>1, <1>7, <1>11 DEF SenderOwns, At, Day, Status
  <2>2. TodoUntouched(s)'
      BY <1>1, <1>2, <1>7, <1>8 DEF IInv, SweepOK, TodoUntouched, At, Day, SweepType
  <2>3. SenderKnows(s)'
      BY <1>1, <1>6, <1>7 DEF IInv, SweepOK, SenderKnows, At, Day
  <2>4. ReclaimsRetryable(s)'
      BY <1>7 DEF ReclaimsRetryable, At
  <2> QED BY <2>1, <2>2, <2>3, <2>4 DEF SweepOK
<1>14. ASSUME NEW t \in Sweeps, t # s PROVE SweepOK(t)'
  <2>1. sweep'[t] = sweep[t] /\ SweepOK(t)
      BY <1>7, <1>14 DEF IInv
  <2>2. At(t, "send") => Day(t) \in Days /\ Day(t) # Day(s)
      BY <1>11, <1>14, OtherSenders DEF IInv, TypeOK, SweepType, Day
  <2>3. At(t, "send") => accepted'[Day(t)] = accepted[Day(t)]
      BY <2>2, <1>8
  <2>4. SenderOwns(t)' /\ ReclaimsRetryable(t)'
      BY <2>1, <1>1 DEF SweepOK, SenderOwns, ReclaimsRetryable, At, Day, Status
  <2>5. TodoUntouched(t)' /\ SenderKnows(t)'
      BY <2>1, <2>3 DEF SweepOK, TodoUntouched, SenderKnows, At, Day
  <2> QED BY <2>4, <2>5 DEF SweepOK
<1> QED BY <1>9, <1>10, <1>12, <1>13, <1>14 DEF IInv

(* The rest of the requests is given up.                                   *)
LEMMA DeadlineStep == ASSUME IInv, NEW s \in Sweeps, DeadlinePasses(s) PROVE IInv'
<1>1. At(s, "send") /\ UNCHANGED <<schedule, attempt, today, accepted>>
    BY DEF DeadlinePasses
<1>2. Day(s) \in Days /\ sweep[s].delivered \in BOOLEAN
    BY DEF IInv, TypeOK, SweepType, Day
<1> DEFINE stopped == [pc |-> "send", day |-> Day(s), seen |-> 0, read |-> "none", todo |-> {},
                       delivered |-> sweep[s].delivered, ambiguous |-> TRUE]
<1>3. /\ sweep' \in [Sweeps -> SweepType]
      /\ \A t \in Sweeps \ {s} : sweep'[t] = sweep[t]
      /\ sweep'[s].pc = "send" /\ sweep'[s].day = Day(s) /\ sweep'[s].todo = {}
      /\ sweep'[s].ambiguous
  <2>1. stopped \in SweepType
      BY <1>2 DEF SweepType, Active, AttemptStatus, Retryable
  <2>2. sweep' = [sweep EXCEPT ![s] = stopped]
      BY DEF DeadlinePasses, Sending
  <2>3. sweep'[s] = stopped
      BY <2>2 DEF IInv, TypeOK
  <2>4. sweep' \in [Sweeps -> SweepType] /\ \A t \in Sweeps \ {s} : sweep'[t] = sweep[t]
      BY <2>1, <2>2 DEF IInv, TypeOK
  <2> QED BY <2>3, <2>4
<1>4. TypeOK'
    BY <1>1, <1>3 DEF IInv, TypeOK
<1>5. SenderOwns(s)'
    BY <1>1, <1>3 DEF IInv, SweepOK, SenderOwns, At, Day, Status
<1>6. TodoUntouched(s)' /\ SenderKnows(s)' /\ ReclaimsRetryable(s)'
    BY <1>3 DEF TodoUntouched, SenderKnows, ReclaimsRetryable, At
<1> QED BY <1>1, <1>3, <1>4, <1>5, <1>6, QuietStep DEF SweepOK

(* A resolution reopens the occurrence only when the sender knows that     *)
(* every destination rejected the brief.                                   *)
LEMMA ResolveStep == ASSUME IInv, NEW s \in Sweeps, Resolve(s) PROVE IInv'
<1>1. At(s, "send") /\ UNCHANGED <<schedule, today, accepted>>
    BY DEF Resolve
<1>2. PICK point \in {"complete", "release"} : Goto(s, point)
    BY DEF Resolve
<1>3. CASE OwnsAttempt(s, "PROVIDER_STARTED")
  <2>1. Resolution(s) \in {"CONFIRMED", "AMBIGUOUS", "DEFINITIVE_FAILED"}
      BY DEF Resolution
  <2>2. Resolution(s) \in Retryable => ~sweep[s].delivered /\ ~sweep[s].ambiguous
      BY DEF Resolution, Retryable
  <2>3. Resolution(s) \in Retryable => \A x \in Destinations : accepted[Day(s)][x] = 0
      BY <1>1, <2>2 DEF IInv, SweepOK, SenderKnows
  <2>4. \A t \in Sweeps \ {s} : ~(At(t, "send") /\ Day(t) = Day(s))
      BY <1>3, OtherSenders DEF OwnsAttempt
  <2>5. SetAttempt(s, Resolution(s), s)
      BY <1>3 DEF Resolve
  <2>6. Resolution(s) \in AttemptStatus
      BY <2>1 DEF AttemptStatus, Closed, Retryable
  <2> HIDE DEF Resolution
  <2> QED BY <1>1, <1>2, <2>3, <2>4, <2>5, <2>6, SetAndGo
<1>4. CASE ~OwnsAttempt(s, "PROVIDER_STARTED")
    BY <1>1, <1>2, <1>4, ReleaseNext DEF Resolve
<1> QED BY <1>3, <1>4

-----------------------------------------------------------------------------
LEMMA ScheduleSet ==
    ASSUME IInv, NEW moved \in Nat,
           schedule' = [lease |-> NoSweep, live |-> FALSE, lastSent |-> moved]
    PROVE  schedule' \in ScheduleType
BY DEF ScheduleType

LEMMA CompleteStep == ASSUME IInv, NEW s \in Sweeps, Complete(s) PROVE IInv'
<1>1. schedule \in ScheduleType
    BY DEF IInv, TypeOK
<1>2. schedule.lastSent + 1 \in Nat
    BY <1>1 DEF ScheduleType
<1>3. \/ schedule' = [lease |-> NoSweep, live |-> FALSE, lastSent |-> schedule.lastSent + 1]
      \/ schedule' = schedule
    BY DEF Complete
<1>4. schedule' \in ScheduleType
    BY <1>1, <1>2, <1>3, ScheduleSet
<1> QED BY <1>4, EndStep DEF Complete

LEMMA ReleaseStep == ASSUME IInv, NEW s \in Sweeps, Release(s) PROVE IInv'
<1>1. schedule \in ScheduleType
    BY DEF IInv, TypeOK
<1>2. schedule.lastSent \in Nat
    BY <1>1 DEF ScheduleType
<1>3. \/ schedule' = [lease |-> NoSweep, live |-> FALSE, lastSent |-> schedule.lastSent]
      \/ schedule' = schedule
    BY DEF Release
<1>4. schedule' \in ScheduleType
    BY <1>1, <1>2, <1>3, ScheduleSet
<1> QED BY <1>4, EndStep DEF Release

LEMMA FailureStep == ASSUME IInv, NEW s \in Sweeps, StatementFails(s) \/ Crash(s) PROVE IInv'
<1>1. CASE Goto(s, "release") /\ UNCHANGED <<schedule, attempt, today, accepted>>
    BY <1>1, ReleaseNext
<1>2. CASE End(s) /\ UNCHANGED <<schedule, attempt, today, accepted>>
    BY <1>2, EndStep DEF IInv, TypeOK
<1> QED BY <1>1, <1>2 DEF StatementFails, Crash

(* The clock and the calendar touch no sweep and no row.                   *)
LEMMA ClockStep ==
    ASSUME IInv, UNCHANGED <<attempt, sweep, accepted>>, schedule' \in ScheduleType, today' \in Days
    PROVE  IInv'
<1>1. TypeOK' /\ AtMostOnce' /\ RetryableMeansUndelivered'
    BY DEF IInv, TypeOK, AtMostOnce, RetryableMeansUndelivered
<1>2. \A s \in Sweeps : SweepOK(s)'
    BY DEF IInv, SweepOK, SenderOwns, TodoUntouched, SenderKnows, ReclaimsRetryable, At, Day, Status
<1> QED BY <1>1, <1>2 DEF IInv

-----------------------------------------------------------------------------
LEMMA InitIInv == Init => IInv
<1> SUFFICES ASSUME Init PROVE IInv
    OBVIOUS
<1>1. Local("idle", 1, 0, "none") \in SweepType
    BY LocalType, OneIsADay DEF AttemptStatus, Retryable
<1>2. \A s \in Sweeps : sweep[s] = Local("idle", 1, 0, "none")
    BY DEF Init
<1>3. \A s \in Sweeps : sweep[s].pc = "idle"
    BY <1>2 DEF Local
<1>4. schedule \in ScheduleType /\ today \in Days
    BY OneIsADay DEF Init, ScheduleType
<1>5. attempt \in [Days -> AttemptType]
    BY DEF Init, AttemptType, AttemptStatus, Retryable
<1>6. \A d \in Days, x \in Destinations : accepted[d][x] = 0
    BY DEF Init
<1>7. TypeOK
    BY <1>1, <1>4, <1>5 DEF Init, TypeOK
<1>8. AtMostOnce /\ RetryableMeansUndelivered
    BY <1>6 DEF AtMostOnce, RetryableMeansUndelivered
<1>9. \A s \in Sweeps : SweepOK(s)
    BY <1>3 DEF SweepOK, SenderOwns, TodoUntouched, SenderKnows, ReclaimsRetryable, At
<1> QED BY <1>7, <1>8, <1>9 DEF IInv

LEMMA NextIInv == IInv /\ [Next]_vars => IInv'
<1> SUFFICES ASSUME IInv, [Next]_vars PROVE IInv'
    OBVIOUS
<1>1. CASE UNCHANGED vars
    BY <1>1, ClockStep DEF vars, IInv, TypeOK
<1>2. CASE LeaseExpires
  <2>1. schedule' \in ScheduleType
      BY <1>2 DEF IInv, TypeOK, ScheduleType, LeaseExpires
  <2> QED BY <1>2, <2>1, ClockStep DEF LeaseExpires, IInv, TypeOK
<1>3. CASE DayEnds
  <2>1. today' \in Days
      BY <1>3 DEF IInv, TypeOK, Days, DayEnds
  <2> QED BY <1>3, <2>1, ClockStep DEF DayEnds, IInv, TypeOK
<1>4. ASSUME NEW s \in Sweeps,
             \/ Scan(s) \/ Claim(s) \/ Begin(s) \/ Create(s) \/ Orphan(s) \/ Reclaim(s)
             \/ Start(s) \/ Send(s) \/ DeadlinePasses(s) \/ Resolve(s)
             \/ Complete(s) \/ Release(s) \/ StatementFails(s) \/ Crash(s)
      PROVE  IInv'
    BY <1>4, ScanStep, ClaimStep, BeginStep, CreateStep, OrphanStep, ReclaimStep, StartStep, SendStep,
       DeadlineStep, ResolveStep, CompleteStep, ReleaseStep, FailureStep
<1> QED BY <1>1, <1>2, <1>3, <1>4 DEF Next

(* The inductive invariant holds in every state that overlapping sweeps    *)
(* can reach.                                                              *)
THEOREM IInvAlways == Spec => []IInv
BY InitIInv, NextIInv, PTL DEF Spec

(* The state of the sweeps, of the schedule and of its rows stays well     *)
(* typed.                                                                  *)
THEOREM TypeInvariant == Spec => []TypeOK
<1>1. IInv => TypeOK
    BY DEF IInv
<1> QED BY <1>1, IInvAlways, PTL

(* No destination receives the brief of one occurrence twice, however many *)
(* sweeps overlap, crash, lose their lease or span midnight.               *)
THEOREM AtMostOnceInvariant == Spec => []AtMostOnce
<1>1. IInv => AtMostOnce
    BY DEF IInv
<1> QED BY <1>1, IInvAlways, PTL

(* An occurrence that may be tried again has reached nobody.               *)
THEOREM RetryableInvariant == Spec => []RetryableMeansUndelivered
<1>1. IInv => RetryableMeansUndelivered
    BY DEF IInv
<1> QED BY <1>1, IInvAlways, PTL

-----------------------------------------------------------------------------
(* A row is only set from a status that is not closed.                     *)
LEMMA SetKeepsClosed ==
    ASSUME TypeOK, NEW s \in Sweeps, NEW status, NEW token, SetAttempt(s, status, token),
           Status(s) \notin Closed, NEW d \in Days, attempt[d].status \in Closed
    PROVE  attempt'[d] = attempt[d]
<1>1. d # Day(s)
    BY DEF Status
<1> QED BY <1>1 DEF TypeOK, SetAttempt

LEMMA ClosedStep ==
    ASSUME IInv, [Next]_vars, NEW d \in Days, attempt[d].status \in Closed
    PROVE  attempt'[d] = attempt[d]
<1>1. TypeOK
    BY DEF IInv
<1>2. CASE UNCHANGED attempt
    BY <1>2
<1>3. ASSUME NEW s \in Sweeps, Create(s) PROVE attempt'[d] = attempt[d]
    BY <1>1, <1>2, <1>3, SetKeepsClosed DEF Create, Closed
<1>4. ASSUME NEW s \in Sweeps, Orphan(s) PROVE attempt'[d] = attempt[d]
    BY <1>1, <1>2, <1>4, SetKeepsClosed DEF Orphan, Closed
<1>5. ASSUME NEW s \in Sweeps, Reclaim(s) PROVE attempt'[d] = attempt[d]
  <2>1. sweep[s].read \notin Closed
      BY <1>5 DEF IInv, SweepOK, ReclaimsRetryable, Reclaim, Closed
  <2> QED BY <1>1, <1>2, <1>5, <2>1, SetKeepsClosed DEF Reclaim
<1>6. ASSUME NEW s \in Sweeps, Start(s) PROVE attempt'[d] = attempt[d]
    BY <1>1, <1>2, <1>6, SetKeepsClosed DEF Start, OwnsAttempt, Closed
<1>7. ASSUME NEW s \in Sweeps, Resolve(s) PROVE attempt'[d] = attempt[d]
    BY <1>1, <1>2, <1>7, SetKeepsClosed DEF Resolve, OwnsAttempt, Closed
<1>8. ASSUME NEW s \in Sweeps,
             \/ Scan(s) \/ Claim(s) \/ Begin(s) \/ Send(s) \/ DeadlinePasses(s)
             \/ Complete(s) \/ Release(s) \/ StatementFails(s) \/ Crash(s)
      PROVE  UNCHANGED attempt
    BY <1>8 DEF Scan, Claim, Begin, Send, DeadlinePasses, Complete, Release, StatementFails, Crash
<1>9. LeaseExpires \/ DayEnds \/ UNCHANGED vars => UNCHANGED attempt
    BY DEF LeaseExpires, DayEnds, vars
<1> QED BY <1>2, <1>3, <1>4, <1>5, <1>6, <1>7, <1>8, <1>9 DEF Next

(* A confirmed or ambiguous occurrence keeps its row for ever.             *)
THEOREM ClosedForEver == Spec => OccurrenceStaysClosed
<1>1. IInv /\ [Next]_vars =>
          [\A d \in Days : attempt[d].status \in Closed => attempt'[d] = attempt[d]]_vars
    BY ClosedStep
<1> QED BY <1>1, IInvAlways, PTL DEF Spec, OccurrenceStaysClosed

-----------------------------------------------------------------------------
(* Counting the completions.  A sweep that is between its first request and*)
(* its completion holds its occurrence; an occurrence that has reached     *)
(* somebody and that no sweep holds is settled.  lastSentAt has moved at   *)
(* most once for each settled occurrence.                                  *)
Holds(s, d) == sweep[s].pc \in {"send", "complete"} /\ Day(s) = d
Settled == {d \in Reached : \A s \in Sweeps : ~Holds(s, d)}
HasReached(s) == /\ At(s, "send") /\ sweep[s].delivered => Day(s) \in Reached
                 /\ At(s, "complete") => /\ Day(s) \in Reached
                                        /\ Status(s) \in Closed /\ attempt[Day(s)].token = s
Counted == schedule.lastSent <= Cardinality(Settled)

CInv == /\ IInv
        /\ \A s \in Sweeps : HasReached(s)
        /\ Counted

LEMMA DaysAreFinite ==
    /\ IsFiniteSet(Reached) /\ Cardinality(Reached) \in Nat
    /\ IsFiniteSet(Settled) /\ Cardinality(Settled) \in Nat
    /\ Cardinality(Settled) <= Cardinality(Reached)
<1>1. IsFiniteSet(Days)
    BY FS_Interval DEF Days
<1>2. Reached \subseteq Days /\ Settled \subseteq Reached
    BY DEF Reached, Settled
<1> QED BY <1>1, <1>2, FS_Subset, FS_CardinalityType

LEMMA DaysAreFiniteNext ==
    IsFiniteSet(Settled') /\ Cardinality(Settled') \in Nat
<1>1. IsFiniteSet(Days)
    BY FS_Interval DEF Days
<1>2. Settled' \subseteq Days
    BY DEF Reached, Settled
<1> QED BY <1>1, <1>2, FS_Subset, FS_CardinalityType

(* No delivery is taken back.                                              *)
LEMMA ReachedGrows ==
    ASSUME TypeOK, UNCHANGED accepted \/ (\E s \in Sweeps, x \in Destinations : Accept(s, x))
    PROVE  Reached \subseteq Reached'
<1>1. ASSUME NEW s \in Sweeps, NEW x \in Destinations, Accept(s, x), NEW d \in Reached
      PROVE  d \in Reached'
  <2>1. PICK y \in Destinations : accepted[d][y] > 0
      BY DEF Reached
  <2>2. d \in Days /\ accepted[d][y] \in Nat
      BY DEF Reached, TypeOK
  <2>3. accepted'[d][y] > 0
    <3>1. CASE d # Day(s)
        BY <2>1, <2>2, <3>1, <1>1, AcceptKept
    <3>2. CASE d = Day(s) /\ y # x
        BY <2>1, <2>2, <3>2, <1>1, AcceptKept
    <3>3. CASE d = Day(s) /\ y = x
        BY <2>1, <2>2, <3>3, <1>1, AcceptKept
    <3> QED BY <3>1, <3>2, <3>3
  <2> QED BY <2>2, <2>3 DEF Reached
<1> QED BY <1>1 DEF Reached

(* A step that holds no further occurrence that has reached somebody and   *)
(* completes nothing keeps the count.                                      *)
LEMMA CountKept ==
    ASSUME CInv, UNCHANGED schedule.lastSent, Reached \subseteq Reached',
           \A t \in Sweeps, d \in Reached : Holds(t, d)' => \E u \in Sweeps : Holds(u, d)
    PROVE  Counted'
<1>1. Settled \subseteq Settled'
    BY DEF Settled
<1>2. Cardinality(Settled) <= Cardinality(Settled')
    BY <1>1, DaysAreFiniteNext, FS_Subset
<1>3. schedule.lastSent \in Nat
    BY DEF CInv, IInv, TypeOK, ScheduleType
<1> QED BY <1>2, <1>3, DaysAreFinite, DaysAreFiniteNext DEF CInv, Counted

(* What a sweep that the step leaves alone knows stays true, because its   *)
(* row stays closed.                                                       *)
LEMMA OthersKept ==
    ASSUME CInv, [Next]_vars, Reached \subseteq Reached',
           NEW t \in Sweeps, sweep'[t] = sweep[t]
    PROVE  HasReached(t)'
<1>1. HasReached(t) /\ Day(t) \in Days
    BY DEF CInv, IInv, TypeOK, SweepType, Day
<1>2. At(t, "complete") => attempt'[Day(t)] = attempt[Day(t)]
    BY <1>1, ClosedStep DEF CInv, HasReached, Status
<1> QED BY <1>1, <1>2 DEF HasReached, At, Day, Status

(* A step after which its sweep holds nothing.                             *)
LEMMA RestingStep ==
    ASSUME CInv, [Next]_vars, IInv', UNCHANGED <<schedule.lastSent, accepted>>, NEW s \in Sweeps,
           \A t \in Sweeps \ {s} : sweep'[t] = sweep[t],
           sweep'[s].pc \notin {"send", "complete"} \/ sweep'[s] = sweep[s]
    PROVE  CInv'
<1>1. Reached \subseteq Reached'
    BY DEF Reached
<1>2. \A t \in Sweeps : sweep'[t].pc \in {"send", "complete"} => sweep'[t] = sweep[t]
    OBVIOUS
<1>3. Counted'
  <2>1. \A t \in Sweeps, d \in Reached : Holds(t, d)' => Holds(t, d)
      BY <1>2 DEF Holds, Day
  <2> QED BY <1>1, <2>1, CountKept
<1>4. ASSUME NEW t \in Sweeps PROVE HasReached(t)'
  <2>1. CASE sweep'[t] = sweep[t]
      BY <1>1, <2>1, OthersKept
  <2>2. CASE sweep'[t].pc \notin {"send", "complete"}
      BY <2>2 DEF HasReached, At
  <2> QED BY <1>2, <2>1, <2>2
<1> QED BY <1>3, <1>4 DEF CInv

(* A step of a sweep that sends, before and after.                         *)
LEMMA SendingStep ==
    ASSUME CInv, [Next]_vars, IInv', UNCHANGED schedule, NEW s \in Sweeps,
           Reached \subseteq Reached', \A t \in Sweeps \ {s} : sweep'[t] = sweep[t],
           sweep'[s].pc = "send", sweep'[s].day = Day(s),
           sweep'[s].delivered => Day(s) \in Reached',
           At(s, "send") \/ Day(s) \notin Reached
    PROVE  CInv'
<1>1. Counted'
  <2>1. ASSUME NEW t \in Sweeps, NEW d \in Reached, Holds(t, d)'
        PROVE  \E u \in Sweeps : Holds(u, d)
    <3>1. CASE t = s
        BY <2>1, <3>1 DEF Holds, Day, At
    <3>2. CASE t # s
        BY <2>1, <3>2 DEF Holds, Day
    <3> QED BY <3>1, <3>2
  <2> QED BY <2>1, CountKept
<1>2. HasReached(s)'
    BY DEF HasReached, At, Day
<1>3. \A t \in Sweeps \ {s} : HasReached(t)'
    BY OthersKept
<1> QED BY <1>1, <1>2, <1>3 DEF CInv

(* The row of a sweep that starts is retryable: its occurrence has reached *)
(* nobody.                                                                 *)
LEMMA StartCounted == ASSUME CInv, [Next]_vars, IInv', NEW s \in Sweeps, Start(s) PROVE CInv'
<1>1. IInv /\ Day(s) \in Days
    BY DEF CInv, IInv, TypeOK, SweepType, Day
<1>2. CASE OwnsAttempt(s, "CLAIMED")
  <2>1. Sending(s, Destinations, FALSE, FALSE) /\ UNCHANGED <<schedule, accepted>>
      BY <1>2 DEF Start
  <2>2. /\ \A t \in Sweeps \ {s} : sweep'[t] = sweep[t]
        /\ sweep'[s].pc = "send" /\ sweep'[s].day = Day(s) /\ ~sweep'[s].delivered
      BY <1>1, <2>1, SendingKept
  <2>3. Day(s) \notin Reached
      BY <1>1, <1>2 DEF IInv, RetryableMeansUndelivered, Retryable, Reached, OwnsAttempt, Status
  <2>4. Reached \subseteq Reached'
      BY <2>1 DEF Reached
  <2> QED BY <2>1, <2>2, <2>3, <2>4, SendingStep
<1>3. CASE ~OwnsAttempt(s, "CLAIMED")
  <2>1. End(s) /\ UNCHANGED <<schedule, accepted>>
      BY <1>3 DEF Start
  <2> QED BY <1>1, <2>1, EndType, RestingStep DEF IInv
<1> QED BY <1>2, <1>3

LEMMA SendCounted == ASSUME CInv, [Next]_vars, IInv', NEW s \in Sweeps, Send(s) PROVE CInv'
<1>1. IInv /\ sweep[s] \in SweepType /\ Day(s) \in Days /\ At(s, "send")
    BY DEF CInv, IInv, TypeOK, SweepType, Day, Send
<1>2. PICK x \in sweep[s].todo, delivered \in BOOLEAN, ambiguous \in BOOLEAN :
          /\ Sent(s, x, delivered, ambiguous)
          /\ Accept(s, x) \/ UNCHANGED accepted
          /\ delivered => Accept(s, x)
  <2>1. PICK x \in sweep[s].todo :
            \/ Sent(s, x, TRUE, FALSE) /\ Accept(s, x)
            \/ Sent(s, x, FALSE, FALSE) /\ UNCHANGED accepted
            \/ Sent(s, x, FALSE, TRUE) /\ (Accept(s, x) \/ UNCHANGED accepted)
      BY DEF Send
  <2> QED BY <2>1
<1>3. x \in Destinations
    BY <1>1 DEF SweepType
<1>4. /\ \A t \in Sweeps \ {s} : sweep'[t] = sweep[t]
      /\ sweep'[s].pc = "send" /\ sweep'[s].day = Day(s)
      /\ sweep'[s].delivered <=> sweep[s].delivered \/ delivered
    BY <1>1, <1>2, SendingKept DEF Sent, SweepType
<1>5. Reached \subseteq Reached'
    BY <1>1, <1>2, <1>3, ReachedGrows DEF IInv
<1>6. Accept(s, x) => Day(s) \in Reached'
  <2>1. accepted[Day(s)][x] \in Nat
      BY <1>1, <1>3 DEF IInv, TypeOK
  <2> QED BY <1>1, <1>3, <2>1, AcceptKept DEF IInv, Reached
<1>7. sweep'[s].delivered => Day(s) \in Reached'
    BY <1>1, <1>2, <1>4, <1>5, <1>6 DEF CInv, HasReached
<1> QED BY <1>1, <1>4, <1>5, <1>7, SendingStep DEF Send

LEMMA DeadlineCounted ==
    ASSUME CInv, [Next]_vars, IInv', NEW s \in Sweeps, DeadlinePasses(s) PROVE CInv'
<1>1. IInv /\ sweep[s].delivered \in BOOLEAN /\ At(s, "send")
    BY DEF CInv, IInv, TypeOK, SweepType, DeadlinePasses
<1>2. /\ \A t \in Sweeps \ {s} : sweep'[t] = sweep[t]
      /\ sweep'[s].pc = "send" /\ sweep'[s].day = Day(s)
      /\ sweep'[s].delivered = sweep[s].delivered
  <2> DEFINE stopped == [pc |-> "send", day |-> Day(s), seen |-> 0, read |-> "none", todo |-> {},
                         delivered |-> sweep[s].delivered, ambiguous |-> TRUE]
  <2>1. sweep' = [sweep EXCEPT ![s] = stopped]
      BY DEF DeadlinePasses, Sending
  <2>2. sweep'[s] = stopped /\ \A t \in Sweeps \ {s} : sweep'[t] = sweep[t]
      BY <1>1, <2>1 DEF IInv, TypeOK
  <2>3. stopped.pc = "send" /\ stopped.day = Day(s) /\ stopped.delivered = sweep[s].delivered
      OBVIOUS
  <2> QED BY <2>2, <2>3
<1>3. Reached \subseteq Reached' /\ UNCHANGED schedule
    BY DEF Reached, DeadlinePasses
<1> QED BY <1>1, <1>2, <1>3, SendingStep DEF CInv, HasReached

(* A delivered brief closes its occurrence, as confirmed by its sweep or as*)
(* ambiguous by a later one, and no other sweep holds it.                  *)
LEMMA ResolveCounted == ASSUME CInv, [Next]_vars, IInv', NEW s \in Sweeps, Resolve(s) PROVE CInv'
<1>1. /\ IInv /\ Day(s) \in Days /\ At(s, "send")
      /\ HasReached(s) /\ SenderOwns(s)
      /\ UNCHANGED <<schedule, accepted>>
    BY DEF CInv, IInv, SweepOK, TypeOK, SweepType, Day, Resolve
<1>2. Reached \subseteq Reached'
    BY <1>1 DEF Reached
<1>3. CASE ~sweep[s].delivered
  <2>1. Goto(s, "release")
      BY <1>3 DEF Resolve, Succeeded
  <2> QED BY <1>1, <2>1, GotoType, RestingStep DEF IInv, Active
<1>4. CASE sweep[s].delivered
  <2>1. Goto(s, "complete")
      BY <1>4 DEF Resolve, Succeeded
  <2>2. sweep'[s].pc = "complete" /\ \A t \in Sweeps \ {s} : sweep'[t] = sweep[t]
      BY <1>1, <2>1, GotoType DEF IInv, Active
  <2>3. sweep'[s].day = Day(s)
      BY <1>1, <2>1 DEF IInv, TypeOK, SweepType, Goto, Day
  <2>4. Counted'
    <3>1. ASSUME NEW t \in Sweeps, NEW d \in Reached, Holds(t, d)' PROVE Holds(t, d)
        BY <3>1, <1>1, <2>2, <2>3 DEF Holds, Day, At
    <3> QED BY <1>1, <1>2, <3>1, CountKept
  <2>5. attempt'[Day(s)].status \in Closed /\ attempt'[Day(s)].token = s
    <3>1. CASE OwnsAttempt(s, "PROVIDER_STARTED")
      <4>1. SetAttempt(s, "CONFIRMED", s)
          BY <3>1, <1>4 DEF Resolve, Resolution
      <4>2. attempt'[Day(s)] = [status |-> "CONFIRMED", token |-> s]
          BY <1>1, <4>1, AttemptTypeKept DEF IInv, Closed, AttemptStatus
      <4> QED BY <4>2 DEF Closed
    <3>2. CASE ~OwnsAttempt(s, "PROVIDER_STARTED")
      <4>1. UNCHANGED attempt /\ Status(s) = "AMBIGUOUS" /\ attempt[Day(s)].token = s
          BY <3>2, <1>1 DEF Resolve, OwnsAttempt, SenderOwns
      <4> QED BY <4>1 DEF Closed, Status
    <3> QED BY <3>1, <3>2
  <2>6. HasReached(s)'
      BY <1>1, <1>2, <1>4, <2>2, <2>3, <2>5 DEF HasReached, At, Day, Status
  <2>7. ASSUME NEW t \in Sweeps, t # s PROVE HasReached(t)'
      BY <1>2, <2>2, <2>7, OthersKept
  <2> QED BY <1>1, <2>4, <2>6, <2>7 DEF CInv
<1> QED BY <1>3, <1>4

(* The occurrence of a completion becomes settled: nobody else holds it.   *)
LEMMA CompleteCounted == ASSUME CInv, [Next]_vars, IInv', NEW s \in Sweeps, Complete(s) PROVE CInv'
<1>1. /\ IInv /\ Day(s) \in Reached /\ attempt[Day(s)].token = s
      /\ At(s, "complete") /\ UNCHANGED accepted
    BY DEF CInv, HasReached, Complete
<1>2. sweep'[s].pc = "ended" /\ \A t \in Sweeps \ {s} : sweep'[t] = sweep[t]
    BY <1>1, EndType DEF IInv, Complete
<1>3. CASE schedule.lease # s
    BY <1>1, <1>2, <1>3, RestingStep DEF Complete
<1>4. CASE schedule.lease = s
  <2>1. Reached' = Reached
      BY <1>1 DEF Reached
  <2>2. \A t \in Sweeps \ {s} : ~Holds(t, Day(s))
      BY <1>1 DEF CInv, IInv, SweepOK, SenderOwns, HasReached, Holds, At
  <2>3. \A t \in Sweeps, d \in Reached : Holds(t, d)' => t # s /\ Holds(t, d)
      BY <1>2 DEF Holds, Day
  <2>4. Day(s) \notin Settled /\ Settled \cup {Day(s)} \subseteq Settled'
      BY <1>1, <2>1, <2>2, <2>3 DEF Settled, Holds, At
  <2>5. Cardinality(Settled \cup {Day(s)}) = Cardinality(Settled) + 1
      BY <2>4, DaysAreFinite, FS_AddElement
  <2>6. Cardinality(Settled) + 1 <= Cardinality(Settled')
      BY <2>4, <2>5, DaysAreFiniteNext, FS_Subset
  <2>7. schedule'.lastSent = schedule.lastSent + 1 /\ schedule.lastSent \in Nat
      BY <1>1, <1>4 DEF Complete, IInv, TypeOK, ScheduleType
  <2>8. Counted'
      BY <2>6, <2>7, DaysAreFinite, DaysAreFiniteNext DEF CInv, Counted
  <2>9. ASSUME NEW t \in Sweeps PROVE HasReached(t)'
    <3>1. CASE t = s
        BY <3>1, <1>2 DEF HasReached, At
    <3>2. CASE t # s
        BY <3>2, <1>2, <2>1, OthersKept
    <3> QED BY <3>1, <3>2
  <2> QED BY <2>8, <2>9 DEF CInv
<1> QED BY <1>3, <1>4

(* Every other step leaves its sweep with nothing to hold.                 *)
LEMMA RestingCounted ==
    ASSUME CInv, [Next]_vars, IInv', NEW s \in Sweeps,
           \/ Scan(s) \/ Claim(s) \/ Begin(s) \/ Create(s) \/ Orphan(s) \/ Reclaim(s)
           \/ Release(s) \/ StatementFails(s) \/ Crash(s)
    PROVE  CInv'
<1>1. IInv /\ sweep \in [Sweeps -> SweepType]
    BY DEF CInv, IInv, TypeOK
<1>2. UNCHANGED <<schedule.lastSent, accepted>>
    BY DEF Scan, Claim, Begin, Create, Orphan, Reclaim, Release, StatementFails, Crash
<1>3. \/ End(s)
      \/ \E point \in {"begin", "start", "release"} : Goto(s, point)
      \/ \E point \in {"claim", "create", "release", "orphan", "reclaim"} : \E seen, read, day :
             sweep' = [sweep EXCEPT ![s] = Local(point, day, seen, read)]
    BY DEF Scan, Claim, Begin, Create, Orphan, Reclaim, Release, StatementFails, Crash
<1>4. CASE End(s)
    BY <1>1, <1>2, <1>4, EndType, RestingStep DEF IInv
<1>5. CASE \E point \in {"begin", "start", "release"} : Goto(s, point)
    BY <1>1, <1>2, <1>5, GotoType, RestingStep DEF IInv, Active
<1>6. CASE \E point \in {"claim", "create", "release", "orphan", "reclaim"} : \E seen, read, day :
               sweep' = [sweep EXCEPT ![s] = Local(point, day, seen, read)]
  <2>1. sweep'[s].pc \notin {"send", "complete"} /\ \A t \in Sweeps \ {s} : sweep'[t] = sweep[t]
      BY <1>1, <1>6 DEF Local
  <2> QED BY <1>2, <2>1, RestingStep
<1> QED BY <1>3, <1>4, <1>5, <1>6

LEMMA InitCInv == Init => CInv
<1> SUFFICES ASSUME Init PROVE CInv
    OBVIOUS
<1>1. \A s \in Sweeps : sweep[s].pc = "idle"
    BY DEF Init, Local
<1>2. schedule.lastSent = 0
    BY DEF Init
<1> QED BY <1>1, <1>2, InitIInv, DaysAreFinite DEF CInv, HasReached, At, Counted

LEMMA NextCInv == CInv /\ [Next]_vars => CInv'
<1> SUFFICES ASSUME CInv, [Next]_vars PROVE CInv'
    OBVIOUS
<1>1. IInv'
    BY NextIInv DEF CInv
<1>2. CASE UNCHANGED vars \/ LeaseExpires \/ DayEnds
  <2>1. UNCHANGED <<schedule.lastSent, attempt, sweep, accepted>>
      BY <1>2 DEF vars, LeaseExpires, DayEnds
  <2>2. Reached \subseteq Reached'
      BY <2>1 DEF Reached
  <2>3. Counted'
    <3>1. \A t \in Sweeps, d \in Reached : Holds(t, d)' => Holds(t, d)
        BY <2>1 DEF Holds, Day
    <3> QED BY <2>1, <2>2, <3>1, CountKept
  <2>4. \A t \in Sweeps : HasReached(t)'
      BY <2>1, <2>2, OthersKept
  <2> QED BY <1>1, <2>3, <2>4 DEF CInv
<1>3. ASSUME NEW s \in Sweeps,
             \/ Scan(s) \/ Claim(s) \/ Begin(s) \/ Create(s) \/ Orphan(s) \/ Reclaim(s)
             \/ Start(s) \/ Send(s) \/ DeadlinePasses(s) \/ Resolve(s)
             \/ Complete(s) \/ Release(s) \/ StatementFails(s) \/ Crash(s)
      PROVE  CInv'
    BY <1>1, <1>3, RestingCounted, StartCounted, SendCounted, DeadlineCounted, ResolveCounted,
       CompleteCounted
<1> QED BY <1>2, <1>3 DEF Next

(* lastSentAt moves at most once for each occurrence that reached somebody,*)
(* for every number of sweeps that overlap, crash and take leases over.    *)
THEOREM SentOnceInvariant == Spec => []SentOncePerOccurrence
<1>1. CInv => SentOncePerOccurrence
  <2> SUFFICES ASSUME CInv PROVE SentOncePerOccurrence
      OBVIOUS
  <2>1. schedule.lastSent \in Nat
      BY DEF CInv, IInv, TypeOK, ScheduleType
  <2> QED BY <2>1, DaysAreFinite DEF CInv, Counted, SentOncePerOccurrence
<1> QED BY <1>1, InitCInv, NextCInv, PTL DEF Spec
-----------------------------------------------------------------------------
(* The dispatch implements BriefLedger.  First what a step does to the     *)
(* occurrences that have a sender: the owner of its row is the only one.   *)

LEMMA SendersSame ==
    ASSUME NEW s \in Sweeps, \A t \in Sweeps \ {s} : sweep'[t] = sweep[t],
           \/ ~At(s, "send") /\ ~At(s, "send")'
           \/ At(s, "send") /\ At(s, "send")' /\ Day(s)' = Day(s)
    PROVE  BeingSent' = BeingSent
<1>1. \A t \in Sweeps : At(t, "send")' <=> At(t, "send")
    BY DEF At
<1>2. \A t \in Sweeps : At(t, "send") => Day(t)' = Day(t)
    BY DEF At, Day
<1> QED BY <1>1, <1>2 DEF BeingSent

LEMMA SenderJoins ==
    ASSUME NEW s \in Sweeps, \A t \in Sweeps \ {s} : sweep'[t] = sweep[t],
           ~At(s, "send"), At(s, "send")', Day(s)' = Day(s)
    PROVE  BeingSent' = BeingSent \cup {Day(s)}
<1>1. \A t \in Sweeps : At(t, "send")' <=> At(t, "send") \/ t = s
    BY DEF At
<1>2. \A t \in Sweeps : At(t, "send")' => Day(t)' = Day(t)
    BY DEF At, Day
<1> QED BY <1>1, <1>2 DEF BeingSent

LEMMA SenderLeaves ==
    ASSUME IInv, NEW s \in Sweeps, \A t \in Sweeps \ {s} : sweep'[t] = sweep[t],
           At(s, "send"), ~At(s, "send")'
    PROVE  BeingSent' = BeingSent \ {Day(s)}
<1>1. \A t \in Sweeps : At(t, "send")' <=> At(t, "send") /\ t # s
    BY DEF At
<1>2. \A t \in Sweeps : At(t, "send")' => Day(t)' = Day(t)
    BY DEF At, Day
<1>3. \A t \in Sweeps \ {s} : At(t, "send") => Day(t) # Day(s)
    BY OtherSenders DEF IInv, SweepOK, SenderOwns
<1> QED BY <1>1, <1>2, <1>3 DEF BeingSent

LEMMA SenderSends ==
    ASSUME NEW s \in Sweeps, At(s, "send") PROVE Day(s) \in BeingSent
BY DEF BeingSent

(* An occurrence that has a sender was begun or doubted.                   *)
LEMMA SentIsBegun ==
    ASSUME IInv, NEW d \in BeingSent PROVE attempt[d].status \in {"PROVIDER_STARTED", "AMBIGUOUS"}
BY DEF IInv, SweepOK, SenderOwns, BeingSent, Status

(* The phase of an occurrence follows the status of its row.               *)
LEMMA PhasesMove ==
    ASSUME TypeOK, NEW s \in Sweeps, NEW status \in AttemptStatus,
           NEW token \in Sweeps \cup {NoSweep}, SetAttempt(s, status, token)
    PROVE  Phases' = [Phases EXCEPT ![Day(s)] = PhaseOf(status)]
<1>1. Day(s) \in Days
    BY DEF TypeOK, SweepType, Day
<1>2. /\ attempt'[Day(s)] = [status |-> status, token |-> token]
      /\ \A d \in Days \ {Day(s)} : attempt'[d] = attempt[d]
    BY AttemptTypeKept
<1>3. \A d \in Days : PhaseOf(attempt'[d].status)
          = IF d = Day(s) THEN PhaseOf(status) ELSE PhaseOf(attempt[d].status)
    BY <1>2
<1> HIDE DEF PhaseOf
<1> QED BY <1>1, <1>3 DEF Phases

LEMMA PhaseIs ==
    ASSUME NEW d \in Days PROVE Phases[d] = PhaseOf(attempt[d].status)
BY DEF Phases

(* A row that keeps its phase.                                             *)
LEMMA PhaseKept ==
    ASSUME TypeOK, NEW s \in Sweeps, NEW status \in AttemptStatus,
           NEW token \in Sweeps \cup {NoSweep}, SetAttempt(s, status, token),
           PhaseOf(status) = PhaseOf(Status(s))
    PROVE  Phases' = Phases
<1>1. Day(s) \in Days
    BY DEF TypeOK, SweepType, Day
<1>2. /\ attempt'[Day(s)] = [status |-> status, token |-> token]
      /\ \A d \in Days \ {Day(s)} : attempt'[d] = attempt[d]
    BY AttemptTypeKept
<1>3. \A d \in Days : PhaseOf(attempt'[d].status) = PhaseOf(attempt[d].status)
    BY <1>1, <1>2 DEF Status
<1> HIDE DEF PhaseOf
<1> QED BY <1>3 DEF Phases

-----------------------------------------------------------------------------
(* Each step is a step of BriefLedger or leaves its variables alone.       *)
BriefStep == Briefs!Next \/ UNCHANGED Briefs!ledger

LEMMA StutterStep ==
    ASSUME Phases' = Phases, BeingSent' = BeingSent, UNCHANGED <<accepted, schedule.lastSent>>
    PROVE  BriefStep
BY DEF BriefStep, Briefs!ledger

(* A sweep that neither sent nor sends, and touches no row.                *)
LEMMA RestingBrief ==
    ASSUME NEW s \in Sweeps, \A t \in Sweeps \ {s} : sweep'[t] = sweep[t],
           ~At(s, "send"), ~At(s, "send")', Phases' = Phases,
           UNCHANGED <<accepted, schedule.lastSent>>
    PROVE  BriefStep
BY SendersSame, StutterStep

(* A sender that gives up without a verdict.                               *)
LEMMA StopBrief ==
    ASSUME IInv, NEW s \in Sweeps, \A t \in Sweeps \ {s} : sweep'[t] = sweep[t],
           At(s, "send"), ~At(s, "send")', UNCHANGED <<attempt, accepted, schedule.lastSent>>
    PROVE  BriefStep
<1>1. Day(s) \in Days
    BY DEF IInv, TypeOK, SweepType, Day
<1>2. Day(s) \in BeingSent /\ BeingSent' = BeingSent \ {Day(s)} /\ Phases' = Phases
    BY SenderSends, SenderLeaves DEF Phases
<1>3. Briefs!Stop(Day(s))
    BY <1>2 DEF Briefs!Stop
<1> QED BY <1>1, <1>3 DEF BriefStep, Briefs!Next

LEMMA StartBrief == ASSUME IInv, NEW s \in Sweeps, Start(s) PROVE BriefStep
<1>1. Day(s) \in Days /\ At(s, "start") /\ ~At(s, "send") /\ UNCHANGED <<schedule, accepted>>
    BY DEF IInv, TypeOK, SweepType, Day, Start, At
<1>2. CASE OwnsAttempt(s, "CLAIMED")
  <2>1. SetAttempt(s, "PROVIDER_STARTED", s) /\ Sending(s, Destinations, FALSE, FALSE)
      BY <1>2 DEF Start
  <2>2. At(s, "send")' /\ Day(s)' = Day(s) /\ \A t \in Sweeps \ {s} : sweep'[t] = sweep[t]
      BY <2>1, SendingKept DEF At, Day
  <2>3. BeingSent' = BeingSent \cup {Day(s)}
      BY <1>1, <2>2, SenderJoins
  <2>4. Phases' = [Phases EXCEPT ![Day(s)] = "begun"]
    <3>1. Phases' = [Phases EXCEPT ![Day(s)] = PhaseOf("PROVIDER_STARTED")]
        BY <2>1, PhasesMove DEF IInv, AttemptStatus
    <3> QED BY <3>1 DEF PhaseOf
  <2>5. attempt[Day(s)].status = "CLAIMED"
      BY <1>2 DEF OwnsAttempt, Status
  <2>6. Phases[Day(s)] = "open" /\ Day(s) \notin BeingSent
      BY <1>1, <2>5, PhaseIs, SentIsBegun DEF PhaseOf
  <2>7. Briefs!Begin(Day(s))
      BY <1>1, <2>3, <2>4, <2>6 DEF Briefs!Begin
  <2> QED BY <1>1, <2>7 DEF BriefStep, Briefs!Next
<1>3. CASE ~OwnsAttempt(s, "CLAIMED")
  <2>1. End(s) /\ Phases' = Phases
      BY <1>3 DEF Start, Phases
  <2>2. ~At(s, "send")' /\ \A t \in Sweeps \ {s} : sweep'[t] = sweep[t]
      BY <2>1, EndType DEF IInv, At
  <2> QED BY <1>1, <2>1, <2>2, RestingBrief
<1> QED BY <1>2, <1>3

(* A request goes to a destination that has received nothing.              *)
LEMMA SendBrief == ASSUME IInv, NEW s \in Sweeps, Send(s) PROVE BriefStep
<1>1. At(s, "send") /\ UNCHANGED <<schedule, attempt>>
    BY DEF Send
<1>2. sweep[s] \in SweepType /\ Day(s) \in Days
    BY DEF IInv, TypeOK, SweepType, Day
<1>3. PICK x \in sweep[s].todo, delivered \in BOOLEAN, ambiguous \in BOOLEAN :
          Sent(s, x, delivered, ambiguous) /\ (Accept(s, x) \/ UNCHANGED accepted)
  <2>1. PICK x \in sweep[s].todo :
            \/ Sent(s, x, TRUE, FALSE) /\ Accept(s, x)
            \/ Sent(s, x, FALSE, FALSE) /\ UNCHANGED accepted
            \/ Sent(s, x, FALSE, TRUE) /\ (Accept(s, x) \/ UNCHANGED accepted)
      BY DEF Send
  <2> QED BY <2>1
<1>4. x \in Destinations /\ accepted[Day(s)][x] = 0
    BY <1>1, <1>2 DEF SweepType, IInv, SweepOK, TodoUntouched
<1>5. At(s, "send")' /\ Day(s)' = Day(s) /\ \A t \in Sweeps \ {s} : sweep'[t] = sweep[t]
    BY <1>2, <1>3, SendingKept DEF Sent, SweepType, At, Day
<1>6. BeingSent' = BeingSent /\ Phases' = Phases
    BY <1>1, <1>5, SendersSame DEF Phases
<1>7. CASE UNCHANGED accepted
    BY <1>1, <1>6, <1>7, StutterStep
<1>8. CASE Accept(s, x)
  <2>1. accepted' = [accepted EXCEPT ![Day(s)][x] = 1]
    <3>1. accepted \in [Days -> [Destinations -> Nat]] /\ accepted' \in [Days -> [Destinations -> Nat]]
        BY <1>4, <1>8, AcceptKept DEF IInv, TypeOK
    <3>2. /\ accepted'[Day(s)][x] = 1
          /\ \A y \in Destinations \ {x} : accepted'[Day(s)][y] = accepted[Day(s)][y]
          /\ \A d \in Days \ {Day(s)} : accepted'[d] = accepted[d]
        BY <1>4, <1>8, AcceptKept DEF IInv
    <3>3. accepted[Day(s)] \in [Destinations -> Nat] /\ accepted'[Day(s)] \in [Destinations -> Nat]
        BY <1>2, <3>1
    <3>4. accepted'[Day(s)] = [accepted[Day(s)] EXCEPT ![x] = 1]
        BY <1>4, <3>2, <3>3
    <3> QED BY <1>2, <3>1, <3>2, <3>4
  <2>2. Briefs!Deliver(Day(s), x)
      BY <1>1, <1>4, <1>6, <2>1, SenderSends DEF Briefs!Deliver
  <2> QED BY <1>2, <1>4, <2>2 DEF BriefStep, Briefs!Next
<1> QED BY <1>3, <1>7, <1>8

LEMMA DeadlineBrief == ASSUME IInv, NEW s \in Sweeps, DeadlinePasses(s) PROVE BriefStep
<1>1. At(s, "send") /\ sweep[s].delivered \in BOOLEAN /\ UNCHANGED <<schedule, attempt, accepted>>
    BY DEF IInv, TypeOK, SweepType, DeadlinePasses
<1>2. Sending(s, {}, sweep[s].delivered, TRUE)
    BY DEF DeadlinePasses
<1>3. At(s, "send")' /\ Day(s)' = Day(s) /\ \A t \in Sweeps \ {s} : sweep'[t] = sweep[t]
    BY <1>1, <1>2, SendingKept, ZenonT(30) DEF At, Day
<1> QED BY <1>1, <1>3, SendersSame, StutterStep DEF Phases

(* The verdict of a sender that nobody doubted is true; that of one that   *)
(* was given up for lost is dropped.                                       *)
LEMMA ResolveBrief == ASSUME CInv, NEW s \in Sweeps, Resolve(s) PROVE BriefStep
<1>1. /\ IInv /\ At(s, "send") /\ Day(s) \in Days
      /\ SenderKnows(s) /\ HasReached(s)
      /\ UNCHANGED <<schedule, accepted>>
    BY DEF CInv, IInv, SweepOK, TypeOK, SweepType, Day, Resolve
<1>2. PICK point \in {"complete", "release"} : Goto(s, point)
    BY DEF Resolve
<1>3. ~At(s, "send")' /\ \A t \in Sweeps \ {s} : sweep'[t] = sweep[t]
    BY <1>1, <1>2, GotoType DEF IInv, Active, At
<1>4. CASE OwnsAttempt(s, "PROVIDER_STARTED")
  <2> DEFINE verdict == PhaseOf(Resolution(s))
  <2>1. Resolution(s) \in {"CONFIRMED", "AMBIGUOUS", "DEFINITIVE_FAILED"}
      BY DEF Resolution
  <2>2. Phases' = [Phases EXCEPT ![Day(s)] = verdict]
    <3>1. SetAttempt(s, Resolution(s), s)
        BY <1>4 DEF Resolve
    <3> QED BY <1>1, <2>1, <3>1, PhasesMove DEF IInv, AttemptStatus, Closed, Retryable
  <2>3. verdict \in {"delivered", "open", "unknown"}
      BY <2>1 DEF PhaseOf
  <2>4. verdict = "delivered" => sweep[s].delivered
      BY DEF PhaseOf, Resolution
  <2>5. verdict = "open" => ~sweep[s].delivered /\ ~sweep[s].ambiguous
      BY DEF PhaseOf, Resolution
  <2> HIDE DEF verdict
  <2>6. verdict = "delivered" => Briefs!Got(Day(s))
      BY <1>1, <2>4 DEF HasReached, Reached, Briefs!Got
  <2>7. verdict = "open" => ~Briefs!Got(Day(s))
      BY <1>1, <2>5 DEF SenderKnows, Briefs!Got
  <2>8. Phases[Day(s)] = "begun"
      BY <1>1, <1>4, PhaseIs DEF OwnsAttempt, Status, PhaseOf
  <2>9. Day(s) \in BeingSent /\ BeingSent' = BeingSent \ {Day(s)}
      BY <1>1, <1>3, SenderSends, SenderLeaves
  <2>10. Briefs!Settle(Day(s), verdict)
      BY <1>1, <2>2, <2>6, <2>7, <2>8, <2>9 DEF Briefs!Settle
  <2> QED BY <1>1, <2>3, <2>10 DEF BriefStep, Briefs!Next
<1>5. CASE ~OwnsAttempt(s, "PROVIDER_STARTED")
    BY <1>1, <1>3, <1>5, StopBrief DEF Resolve
<1> QED BY <1>4, <1>5

(* A row that was started and has no lease is given up, whether or not its *)
(* sender still sends.                                                     *)
LEMMA OrphanBrief == ASSUME IInv, NEW s \in Sweeps, Orphan(s) PROVE BriefStep
<1>1. /\ At(s, "orphan") /\ Day(s) \in Days /\ attempt[Day(s)].token \in Sweeps \cup {NoSweep}
      /\ UNCHANGED <<schedule, accepted>> /\ Goto(s, "release")
  <2>1. Day(s) \in Days
      BY DEF IInv, TypeOK, SweepType, Day
  <2> QED BY <2>1 DEF IInv, TypeOK, AttemptType, Orphan
<1>2. /\ ~At(s, "send") /\ ~At(s, "send")'
      /\ \A t \in Sweeps \ {s} : sweep'[t] = sweep[t]
    BY <1>1, GotoType DEF IInv, Active, At
<1>3. CASE Status(s) = "PROVIDER_STARTED"
  <2>1. SetAttempt(s, "AMBIGUOUS", attempt[Day(s)].token)
      BY <1>3 DEF Orphan
  <2>2. Phases' = [Phases EXCEPT ![Day(s)] = "unknown"]
    <3>1. Phases' = [Phases EXCEPT ![Day(s)] = PhaseOf("AMBIGUOUS")]
        BY <1>1, <2>1, PhasesMove DEF IInv, AttemptStatus, Closed
    <3> QED BY <3>1 DEF PhaseOf
  <2>3. Phases[Day(s)] = "begun"
      BY <1>1, <1>3, PhaseIs DEF Status, PhaseOf
  <2>4. Briefs!Doubt(Day(s))
      BY <1>1, <1>2, <2>2, <2>3, SendersSame DEF Briefs!Doubt
  <2> QED BY <1>1, <2>4 DEF BriefStep, Briefs!Next
<1>4. CASE Status(s) # "PROVIDER_STARTED"
    BY <1>1, <1>2, <1>4, RestingBrief DEF Orphan, Phases
<1> QED BY <1>3, <1>4

(* BriefLedger counts as the dispatch does.                                *)
LEMMA SameCount == ASSUME NEW S PROVE Briefs!Cardinality(S) = Cardinality(S)
BY DEF Cardinality, Briefs!Cardinality

(* A completion counts an occurrence that reached somebody, once.          *)
LEMMA CompleteBrief == ASSUME CInv, CInv', NEW s \in Sweeps, Complete(s) PROVE BriefStep
<1>1. IInv /\ At(s, "complete") /\ UNCHANGED <<attempt, accepted>> /\ End(s)
    BY DEF CInv, Complete
<1>2. /\ ~At(s, "send") /\ ~At(s, "send")'
      /\ \A t \in Sweeps \ {s} : sweep'[t] = sweep[t]
    BY <1>1, EndType DEF IInv, At
<1>3. BeingSent' = BeingSent /\ Phases' = Phases
    BY <1>1, <1>2, SendersSame DEF Phases
<1>4. CASE schedule.lease # s
    BY <1>1, <1>3, <1>4, StutterStep DEF Complete
<1>5. CASE schedule.lease = s
  <2>1. schedule'.lastSent = schedule.lastSent + 1 /\ schedule.lastSent \in Nat
      BY <1>1, <1>5 DEF Complete, IInv, TypeOK, ScheduleType
  <2>2. Settled' \subseteq Reached /\ Counted'
      BY <1>1 DEF Settled, Reached, CInv
  <2>3. schedule.lastSent < Cardinality(Reached)
    <3>1. Cardinality(Settled') <= Cardinality(Reached)
        BY <2>2, DaysAreFinite, FS_Subset
    <3> QED BY <2>1, <2>2, <3>1, DaysAreFinite, DaysAreFiniteNext DEF Counted
  <2>4. Reached = {d \in Days : Briefs!Got(d)}
      BY DEF Reached, Briefs!Got
  <2>5. schedule.lastSent < Briefs!Cardinality({d \in Days : Briefs!Got(d)})
      BY <2>3, <2>4, SameCount
  <2>6. Briefs!Count
      BY <1>1, <1>3, <2>1, <2>5 DEF Briefs!Count
  <2> QED BY <2>6 DEF BriefStep, Briefs!Next
<1> QED BY <1>4, <1>5

(* A row that is claimed anew was open before.                             *)
LEMMA RowBrief == ASSUME IInv, NEW s \in Sweeps, Create(s) \/ Reclaim(s) PROVE BriefStep
<1>1. ~At(s, "send") /\ UNCHANGED <<schedule, accepted>>
    BY DEF Create, Reclaim, At
<1>2. \/ End(s) \/ \E point \in {"start", "release"} : Goto(s, point)
    BY DEF Create, Reclaim
<1>3. ~At(s, "send")' /\ \A t \in Sweeps \ {s} : sweep'[t] = sweep[t]
    BY <1>2, EndType, GotoType DEF IInv, Active, At
<1>4. Phases' = Phases
  <2>1. CASE UNCHANGED attempt
      BY <2>1 DEF Phases
  <2>2. CASE SetAttempt(s, "CLAIMED", s) /\ Status(s) \in {"none", "CLAIMED", "DEFINITIVE_FAILED"}
    <3>1. PhaseOf("CLAIMED") = PhaseOf(Status(s))
        BY <2>2 DEF PhaseOf
    <3> QED BY <2>2, <3>1, PhaseKept DEF IInv, AttemptStatus, Retryable
  <2> QED BY <2>1, <2>2 DEF Create, Reclaim, IInv, SweepOK, ReclaimsRetryable
<1> QED BY <1>1, <1>3, <1>4, RestingBrief

LEMMA QuietBrief ==
    ASSUME IInv, NEW s \in Sweeps, Scan(s) \/ Claim(s) \/ Begin(s) \/ Release(s) PROVE BriefStep
<1>1. ~At(s, "send") /\ UNCHANGED <<attempt, accepted, schedule.lastSent>>
    BY DEF Scan, Claim, Begin, Release, At
<1>2. sweep \in [Sweeps -> SweepType]
    BY DEF IInv, TypeOK
<1>3. \/ End(s) \/ Goto(s, "begin")
      \/ \E point \in {"claim", "create", "release", "orphan", "reclaim"} : \E seen, read, day :
             sweep' = [sweep EXCEPT ![s] = Local(point, day, seen, read)]
    BY DEF Scan, Claim, Begin, Release
<1>4. ~At(s, "send")' /\ \A t \in Sweeps \ {s} : sweep'[t] = sweep[t]
  <2>1. CASE End(s) \/ Goto(s, "begin")
      BY <2>1, EndType, GotoType DEF IInv, Active, At
  <2>2. CASE \E point \in {"claim", "create", "release", "orphan", "reclaim"} : \E seen, read, day :
                 sweep' = [sweep EXCEPT ![s] = Local(point, day, seen, read)]
      BY <1>2, <2>2 DEF Local, At
  <2> QED BY <1>3, <2>1, <2>2
<1> QED BY <1>1, <1>4, RestingBrief DEF Phases

LEMMA FailureBrief ==
    ASSUME IInv, NEW s \in Sweeps, StatementFails(s) \/ Crash(s) PROVE BriefStep
<1>1. UNCHANGED <<schedule, attempt, accepted>> /\ (End(s) \/ Goto(s, "release"))
    BY DEF StatementFails, Crash
<1>2. ~At(s, "send")' /\ \A t \in Sweeps \ {s} : sweep'[t] = sweep[t]
    BY <1>1, EndType, GotoType DEF IInv, Active, At
<1> QED BY <1>1, <1>2, StopBrief, RestingBrief DEF Phases

(* Whatever sweeps overlap, crash, lose their lease or are given up for    *)
(* lost while they still send: an occurrence has one sender, nobody is sent*)
(* its brief twice, what its row says of the deliveries is true, and what  *)
(* was delivered or doubted is never begun again.                          *)
THEOREM DispatchKeepsPromise == Spec => ImplementsBriefLedger
<1>1. Init => Briefs!Init
  <2> SUFFICES ASSUME Init PROVE Briefs!Init
      OBVIOUS
  <2>1. \A s \in Sweeps : ~At(s, "send")
      BY DEF Init, At, Local
  <2>2. BeingSent = {}
      BY <2>1 DEF BeingSent
  <2>3. Phases = [d \in Days |-> "open"]
      BY DEF Init, Phases, PhaseOf
  <2> QED BY <2>2, <2>3 DEF Init, Briefs!Init
<1>2. CInv /\ CInv' /\ [Next]_vars => [Briefs!Next]_(Briefs!ledger)
  <2> SUFFICES ASSUME CInv, CInv', [Next]_vars PROVE BriefStep
      BY DEF BriefStep
  <2>1. CASE UNCHANGED vars \/ LeaseExpires \/ DayEnds
    <3>1. UNCHANGED <<schedule.lastSent, attempt, sweep, accepted>>
        BY <2>1 DEF vars, LeaseExpires, DayEnds
    <3>2. Phases' = Phases /\ BeingSent' = BeingSent
        BY <3>1 DEF Phases, BeingSent, At, Day
    <3> QED BY <3>1, <3>2, StutterStep
  <2>2. ASSUME NEW s \in Sweeps,
               \/ Scan(s) \/ Claim(s) \/ Begin(s) \/ Create(s) \/ Orphan(s) \/ Reclaim(s)
               \/ Start(s) \/ Send(s) \/ DeadlinePasses(s) \/ Resolve(s)
               \/ Complete(s) \/ Release(s) \/ StatementFails(s) \/ Crash(s)
        PROVE  BriefStep
      BY <2>2, QuietBrief, RowBrief, OrphanBrief, StartBrief, SendBrief, DeadlineBrief, ResolveBrief,
         CompleteBrief, FailureBrief DEF CInv
  <2> QED BY <2>1, <2>2 DEF Next
<1> QED BY <1>1, <1>2, InitCInv, NextCInv, PTL DEF Spec, ImplementsBriefLedger, Briefs!Spec
=============================================================================
