------------------------------ MODULE MCServices ------------------------------
(* Instances for TLC of the services that share no row with each other: the  *)
(* pilot of extended backfills, payments, the alert outbox, report e-mails,  *)
(* browser sessions, provider consents and case recovery.  Every behaviour   *)
(* is of one of them, the others rest in their first state; so each service  *)
(* is explored as completely as on its own, and not once for every state of  *)
(* the rest.                                                                 *)
EXTENDS PilotBackfill, PaymentOrder, AlertOutbox, ReportEmail, UserSessions, OAuthAttempts,
        CaseRecovery

VARIABLE service   \* the one that runs

servicesVars == <<pilotVars, paymentVars, alertVars, mailVars, sessionVars, consentVars,
                  recoveryVars, service>>

Terms == [o \in Orders |-> o]                       \* a short term and a longer one
Keys == [r \in Requests |-> IF r <= 2 THEN 1 ELSE 2]   \* two requests are retries of one

Init ==
    /\ service \in {"pilot", "payments", "alerts", "mail", "sessions", "consents", "others",
                    "recovery", "recoveries", "episodes"}
    /\ PilotInit /\ PaymentInit /\ AlertInit /\ MailInit /\ SessionInit /\ ConsentInit
    /\ RecoveryInit
    /\ service # "payments" => workspace.source = "none"

(* Of equal executions, the first that claims is this one.                   *)
First == CHOOSE r \in Runs : TRUE
Claimed(r) == ~ExecAt(r, "idle")

PilotRuns == /\ service = "pilot" /\ PilotNext
             /\ \A r \in Runs : Claimed(r)' => Claimed(First)'
             /\ UNCHANGED <<paymentVars, alertVars, mailVars, sessionVars, consentVars, recoveryVars, service>>
PaymentRuns == /\ service = "payments" /\ PaymentNext
               /\ UNCHANGED <<pilotVars, alertVars, mailVars, sessionVars, consentVars, recoveryVars, service>>
AlertRuns == /\ service = "alerts" /\ AlertNext
             /\ UNCHANGED <<pilotVars, paymentVars, mailVars, sessionVars, consentVars, recoveryVars, service>>
MailRuns == /\ service = "mail" /\ MailNext
            /\ UNCHANGED <<pilotVars, paymentVars, alertVars, sessionVars, consentVars, recoveryVars, service>>
SessionRuns == /\ service = "sessions" /\ SessionNext
               /\ UNCHANGED <<pilotVars, paymentVars, alertVars, mailVars, consentVars, recoveryVars, service>>
(* Consents for agent tasks, or the others, which touch none of their rows.  *)
ConsentRuns == /\ service \in {"consents", "others"} /\ ConsentNext
               /\ service = "consents" => \A a \in Attempts \ ForAgent : consent'[a] = consent[a]
               /\ service = "others" => creation' = creation
               /\ UNCHANGED <<pilotVars, paymentVars, alertVars, mailVars, sessionVars, recoveryVars, service>>
(* Two executions for one operation, two operations of one case, or two      *)
(* cases: the bounds of case recovery, one at a time.                        *)
RecoveryRuns == /\ service \in {"recovery", "recoveries", "episodes"} /\ RecoveryNext
                /\ service # "recovery" => worker'[2].pc = "idle"
                /\ service # "recoveries" => ~Known(2)'
                /\ service # "episodes" => agentCase'[2] = "none"
                /\ UNCHANGED <<pilotVars, paymentVars, alertVars, mailVars, sessionVars, consentVars, service>>

Next == PilotRuns \/ PaymentRuns \/ AlertRuns \/ MailRuns \/ SessionRuns \/ ConsentRuns
        \/ RecoveryRuns

(* The rows and locals of every service hold values of their kinds.          *)
TypeOK == /\ PilotTypeOK /\ PaymentTypeOK /\ AlertTypeOK /\ MailTypeOK /\ SessionTypeOK
          /\ ConsentTypeOK /\ RecoveryTypeOK

(* Each service under its own fairness, which asks nothing of one that rests:*)
(* no action named in it is enabled in the first state.                      *)
Spec == /\ Init /\ [][Next]_servicesVars
        /\ PaymentFairness /\ AlertFairness /\ SessionFairness /\ RecoveryFairness
=============================================================================
