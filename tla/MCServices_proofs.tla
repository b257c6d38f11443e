-------------------------- MODULE MCServices_proofs ---------------------------
(* Theorems about the services side by side, for any number of actors of     *)
(* each: every service keeps its own specification in a behaviour of all of  *)
(* them, so what is proved of it alone holds there.                          *)
EXTENDS MCServices, Services_proofs, PaymentOrder_proofs, PilotBackfill_proofs, CaseRecovery_proofs

(* No service writes the rows of another.                                    *)
LEMMA StepsAreApart ==
    [Next]_servicesVars =>
        /\ [PilotNext]_pilotVars /\ [PaymentNext]_paymentVars /\ [AlertNext]_alertVars
        /\ [MailNext]_mailVars /\ [SessionNext]_sessionVars /\ [ConsentNext]_consentVars
        /\ [RecoveryNext]_recoveryVars
BY DEF Next, PilotRuns, PaymentRuns, AlertRuns, MailRuns, SessionRuns, ConsentRuns, RecoveryRuns,
   servicesVars

LEMMA ServicesAreApart ==
    Spec => /\ PilotSpec /\ PaymentSpec /\ AlertSpec /\ MailSpec /\ SessionSpec /\ ConsentSpec
            /\ RecoverySpec
<1>1. Init => /\ PilotInit /\ PaymentInit /\ AlertInit /\ MailInit /\ SessionInit /\ ConsentInit
              /\ RecoveryInit
    BY DEF Init
<1> QED BY <1>1, StepsAreApart, PTL DEF Spec, PilotSpec, PaymentSpec, AlertSpec, MailSpec,
           SessionSpec, ConsentSpec, RecoverySpec

(* The rows and locals of every service keep their kinds.                    *)
THEOREM ServicesTyped == Spec => []TypeOK
BY ServicesAreApart, PilotTyped, PaymentTyped, AlertTyped, MailTyped, SessionTyped, ConsentTyped,
   RecoveryTyped, PTL DEF TypeOK

(* And so do their promises: what is stopped stays stopped, verdicts are     *)
(* whole, true and final, nothing is sent or used twice, no user has more    *)
(* sessions than his limit and its grace, and paid time is kept.             *)
THEOREM ServicesSafe ==
    Spec => /\ [](/\ NoContactAfterStop /\ VerdictCoversAllSlices /\ EndedExecutionFreesJob
                  /\ AlertVerdictsAreTrue /\ LatestClaimStands /\ NoSecondMail
                  /\ SessionsCapped /\ OneAgentConsent /\ CompletedMeansImported)
            /\ ImplementsPilotLedger /\ ImplementsPaidTime
            /\ AnswersStand /\ UsedWhileValid /\ VerdictsStand
<1>1. Spec => [](/\ NoContactAfterStop /\ VerdictCoversAllSlices /\ EndedExecutionFreesJob
                 /\ AlertVerdictsAreTrue /\ LatestClaimStands /\ NoSecondMail
                 /\ SessionsCapped /\ OneAgentConsent /\ CompletedMeansImported)
    BY ServicesAreApart, StopReachesWorkers, VerdictsAreWhole, JobsAreGivenBack, AlertVerdictsTrue,
       LatestDispatcherDecides, NeverASecondMail, SessionsStayCapped, OneConsentForAgents,
       RecoveriesWereImported, PTL
<1>2. Spec => ImplementsPilotLedger /\ ImplementsPaidTime
    BY ServicesAreApart, PilotKeepsPromise, PaidTimeIsKept
<1>3. Spec => AnswersStand /\ UsedWhileValid /\ VerdictsStand
    BY ServicesAreApart, AnswersAreFinal, ConsentsUsedOnce, DecidedOnce
<1> QED BY <1>1, <1>2, <1>3
=============================================================================
