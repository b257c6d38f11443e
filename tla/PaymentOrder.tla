----------------------------- MODULE PaymentOrder -----------------------------
(* Prepaid orders of one workspace (vietqr-gateway.ts): checkout, webhook    *)
(* deliveries that fulfil an order in one transaction under two row locks,   *)
(* and the expiry cron.  An action is one statement together with what the   *)
(* code decides from it; a transaction shows its writes when it commits.     *)
EXTENDS Naturals

CONSTANTS Orders,
          Deliveries,  \* webhook invocations that can be in progress at once
          Nobody,      \* the holder of a row lock that is free
          NoOrder,
          Term,        \* accessDurationDays of each order
          TrialEnds,   \* the day the free trial ends
          LastDay      \* bound of the calendar

ASSUME PaymentAssumption ==
    /\ Nobody \notin Deliveries
    /\ NoOrder \notin Orders
    /\ Term \in [Orders -> Nat \ {0}]
    /\ TrialEnds \in Nat \ {0}
    /\ LastDay \in Nat \ {0}

VARIABLES order,       \* PaymentOrder rows
          workspace,   \* the billing columns of the workspace
          checkout,    \* where the request that creates each order stands
          paid,        \* what the payer of each order has transferred
          delivery,    \* the webhook invocations
          today

paymentVars == <<order, workspace, checkout, paid, delivery, today>>

Later(x, y) == IF x >= y THEN x ELSE y

OrderType == [status: {"none", "CREATING", "PENDING", "PAID", "EXPIRED", "FAILED"},
              live: BOOLEAN,                      \* expiresAt >= now
              lock: Deliveries \cup {Nobody}]

(* provider: vietqr_domestic or the trial, or an undated legacy entitlement. *)
WorkspaceType == [plan: {"free", "professional"},
                  source: {"none", "trial", "vietqr_domestic", "legacy"},
                  endsAt: Nat,                    \* 0 stands for null
                  lock: Deliveries \cup {Nobody}]

Idle == [pc |-> "idle", order |-> NoOrder, paidAt |-> 0, base |-> 0]

DeliveryType == [pc: {"idle", "order", "workspace", "commit"},
                 order: Orders \cup {NoOrder}, paidAt: Nat, base: Nat]

(* The columns and locals hold values of their kinds, and an invocation that *)
(* is past its first statement works on an order that exists.                *)
PaymentTypeOK ==
    /\ order \in [Orders -> OrderType]
    /\ workspace \in WorkspaceType
    /\ checkout \in [Orders -> {"none", "linking", "linked", "shown", "ended"}]
    /\ paid \in [Orders -> {"nothing", "short", "full"}]
    /\ delivery \in [Deliveries -> DeliveryType]
    /\ today \in 1..LastDay
    /\ \A d \in Deliveries : delivery[d].pc # "idle" => delivery[d].order \in Orders

Unlocked(plan, source, endsAt) ==
    [plan |-> plan, source |-> source, endsAt |-> endsAt, lock |-> Nobody]

PaymentInit ==
    /\ order = [o \in Orders |-> [status |-> "none", live |-> FALSE, lock |-> Nobody]]
    /\ workspace \in {Unlocked("free", "none", 0),
                      Unlocked("professional", "trial", TrialEnds),
                      Unlocked("professional", "legacy", 0)}
    /\ checkout = [o \in Orders |-> "none"]
    /\ paid = [o \in Orders |-> "nothing"]
    /\ delivery = [d \in Deliveries |-> Idle]
    /\ today = 1

-----------------------------------------------------------------------------
(* The checkout request.                                                     *)

(* canPurchaseAgencyPro, on the row as requireSelfServeAgencyPro reads it.   *)
CanPurchase ==
    /\ workspace.source # "legacy"
    /\ workspace.plan = "free" \/ workspace.source = "trial" \/ workspace.endsAt # 0

CreateVietQrOrder(o) ==
    /\ order[o].status = "none"
    /\ CanPurchase
    /\ order' = [order EXCEPT ![o].status = "CREATING", ![o].live = TRUE]
    /\ checkout' = [checkout EXCEPT ![o] = "linking"]
    /\ UNCHANGED <<workspace, paid, delivery, today>>

(* payOS answers with a link, or fails and the order is marked FAILED; that  *)
(* update may itself fail, which is swallowed.                               *)
RequestLink(o) ==
    /\ checkout[o] = "linking"
    /\ \/ checkout' = [checkout EXCEPT ![o] = "linked"] /\ UNCHANGED order
       \/ /\ checkout' = [checkout EXCEPT ![o] = "ended"]
          /\ \/ order[o].lock = Nobody /\ order' = [order EXCEPT ![o].status = "FAILED"]
             \/ UNCHANGED order
    /\ UNCHANGED <<workspace, paid, delivery, today>>

(* The update to PENDING names the order by id alone; the payer is shown the *)
(* link by the response that follows it.                                     *)
ShowLink(o) ==
    /\ checkout[o] = "linked"
    /\ order[o].lock = Nobody
    /\ order' = [order EXCEPT ![o].status = "PENDING"]
    /\ checkout' = [checkout EXCEPT ![o] = "shown"]
    /\ UNCHANGED <<workspace, paid, delivery, today>>

(* The update throws, or the process dies: nobody learns of the link.        *)
CheckoutEnds(o) ==
    /\ checkout[o] \in {"linking", "linked"}
    /\ checkout' = [checkout EXCEPT ![o] = "ended"]
    /\ UNCHANGED <<order, workspace, paid, delivery, today>>

-----------------------------------------------------------------------------
(* The outside: the payer, the provider's deliveries, time.                  *)

Pay(o) ==
    /\ checkout[o] = "shown" /\ order[o].live
    /\ paid[o] = "nothing"
    /\ \E amount \in {"short", "full"} : paid' = [paid EXCEPT ![o] = amount]
    /\ UNCHANGED <<order, workspace, checkout, delivery, today>>

(* A payment is announced any number of times, by either provider.           *)
Deliver(d, o) ==
    /\ delivery[d].pc = "idle"
    /\ paid[o] # "nothing"
    /\ delivery' = [delivery EXCEPT ![d] = [Idle EXCEPT !.pc = "order", !.order = o]]
    /\ UNCHANGED <<order, workspace, checkout, paid, today>>

OrderExpires(o) ==
    /\ order[o].live
    /\ order' = [order EXCEPT ![o].live = FALSE]
    /\ UNCHANGED <<workspace, checkout, paid, delivery, today>>

DayEnds ==
    /\ today < LastDay
    /\ today' = today + 1
    /\ UNCHANGED <<order, workspace, checkout, paid, delivery>>

-----------------------------------------------------------------------------
(* fulfillVietQrPayment: one transaction.                                    *)

FreeAlways(row, d) == TRUE
Free(row, d) == row.lock \in {Nobody, d}

AmountValid(o) == paid[o] = "full"

Fulfillable(o) == order[o].status \in {"PENDING", "CREATING"} /\ AmountValid(o)

End(d) == delivery' = [delivery EXCEPT ![d] = Idle]

(* What the locked row says: already paid, too late, refused, or go on.      *)
Verdict(o) ==
    IF order[o].status = "PAID" THEN "duplicate"
    ELSE IF ~order[o].live THEN "expired"
    ELSE IF Fulfillable(o) THEN "fulfil" ELSE "refuse"

(* SELECT ... FOR UPDATE on the order, and the checks; a verdict that ends   *)
(* the transaction releases the lock at once.                                *)
LockOrder(d) ==
    LET o == delivery[d].order IN
    /\ delivery[d].pc = "order"
    /\ Free(order[o], d)
    /\ \/ /\ Verdict(o) \in {"duplicate", "refuse"}
          /\ End(d) /\ UNCHANGED order
       \/ /\ Verdict(o) = "expired"
          /\ order' = [order EXCEPT ![o].status = "EXPIRED"]
          /\ End(d)
       \/ /\ Verdict(o) = "fulfil"
          /\ order' = [order EXCEPT ![o].lock = d]
          /\ delivery' = [delivery EXCEPT ![d].pc = "workspace", ![d].paidAt = today]
    /\ UNCHANGED <<workspace, checkout, paid, today>>

(* SELECT ... FOR UPDATE on the workspace, then the deadline as it is now.   *)
LockWorkspace(d) ==
    /\ delivery[d].pc = "workspace"
    /\ Free(workspace, d)
    /\ workspace' = [workspace EXCEPT !.lock = d]
    /\ delivery' = [delivery EXCEPT ![d].pc = "commit", ![d].base = workspace.endsAt]
    /\ UNCHANGED <<order, checkout, paid, today>>

PaidThrough(d) == Later(delivery[d].base, delivery[d].paidAt) + Term[delivery[d].order]

(* Plan, deadline, order and audit event become visible together.            *)
CommitFulfillment(d) ==
    /\ delivery[d].pc = "commit"
    /\ workspace' = Unlocked("professional", "vietqr_domestic", PaidThrough(d))
    /\ order' = [order EXCEPT ![delivery[d].order].status = "PAID",
                              ![delivery[d].order].lock = Nobody]
    /\ End(d)
    /\ UNCHANGED <<checkout, paid, today>>

(* With locks held outside the transaction a failure would leave them taken. *)
RollbackKeepsLocks(d) ==
    /\ delivery[d].pc # "idle"
    /\ End(d)
    /\ UNCHANGED <<order, workspace, checkout, paid, today>>

(* A statement fails, the transaction times out or the process dies: the     *)
(* database rolls back and releases the locks.                               *)
Rollback(d) ==
    LET unlock(row) == IF row.lock = d THEN [row EXCEPT !.lock = Nobody] ELSE row IN
    /\ delivery[d].pc # "idle"
    /\ order' = [o \in Orders |-> unlock(order[o])]
    /\ workspace' = unlock(workspace)
    /\ End(d)
    /\ UNCHANGED <<checkout, paid, today>>

-----------------------------------------------------------------------------
(* The cron: one updateMany, which waits for the lock of the row.            *)
TermOver ==
    /\ workspace.endsAt # 0 /\ workspace.endsAt <= today
    /\ workspace.plan # "free"
    /\ workspace.source \in {"trial", "vietqr_domestic"}

ExpireBilling ==
    /\ TermOver
    /\ workspace.lock = Nobody
    /\ workspace' = Unlocked("free", "none", 0)
    /\ UNCHANGED <<order, checkout, paid, delivery, today>>

-----------------------------------------------------------------------------
Step(d) == LockOrder(d) \/ LockWorkspace(d) \/ CommitFulfillment(d)

PaymentNext ==
    \/ \E o \in Orders : \/ CreateVietQrOrder(o) \/ RequestLink(o) \/ ShowLink(o)
                         \/ CheckoutEnds(o) \/ Pay(o) \/ OrderExpires(o)
                         \/ \E d \in Deliveries : Deliver(d, o)
    \/ \E d \in Deliveries : Step(d) \/ Rollback(d)
    \/ ExpireBilling
    \/ DayEnds

PaymentSpec == PaymentInit /\ [][PaymentNext]_paymentVars

(* payOS repeats an announcement until it is answered with success, which it *)
(* is once the order is PAID.                                                *)
Redeliver(o) == order[o].status # "PAID" /\ \E d \in Deliveries : Deliver(d, o)

(* Row locks are granted and transactions end, a transaction that is retried *)
(* does not fail for ever (a step of it may do what a failure would), and    *)
(* the cron keeps running.                                                   *)
For(o) == {d \in Deliveries : delivery[d].order = o}

PaymentFairness ==
    /\ \A o \in Orders : /\ SF_paymentVars(Redeliver(o))
                         /\ WF_paymentVars(\E d \in For(o) : Step(d))
    /\ WF_paymentVars(ExpireBilling)
    /\ <>[][\A d \in Deliveries : Rollback(d) => LockOrder(d)]_paymentVars

-----------------------------------------------------------------------------
(* Fulfilment and expiry implement an account that counts each payment once  *)
(* and from the deadline in force: concurrent duplicates add one term,       *)
(* concurrent renewals add both (security-boundaries.pg.integration.test.ts),*)
(* an order that was paid stays so, and time that is paid for or promised by *)
(* the trial is never taken back, though cron and renewal write the same row.*)
PaidOrders == {o \in Orders : order[o].status = "PAID" /\ paid[o] = "full"}

Account == INSTANCE PaidTime
           WITH until <- IF workspace.plan = "professional" THEN workspace.endsAt ELSE 0,
                counted <- PaidOrders

ImplementsPaidTime == Account!AccountSpec

(* Money and time are settled: a full payment adds its term, or was announced*)
(* too late and is left for reconciliation, and a dated plan whose time is   *)
(* over ends unless it is renewed.                                           *)
FullPaymentSettled(o) == paid[o] = "full" => order[o].status \in {"PAID", "EXPIRED"}

PaymentsSettle == /\ []<>(\A o \in Orders : FullPaymentSettled(o))
                  /\ []<>~TermOver
=============================================================================
