------------------------- MODULE PaymentOrder_proofs --------------------------
(* PaymentOrder implements PaidTime, for any number of orders and webhook    *)
(* deliveries, any terms and any calendar.                                   *)
EXTENDS PaymentOrder, TLAPS

USE PaymentAssumption

-----------------------------------------------------------------------------
(* The inductive invariant.  A payment is of a link that was shown, an order *)
(* that is PAID was paid in full, and a free plan has no deadline.           *)
OrdersOK == /\ order \in [Orders -> OrderType]
            /\ checkout \in [Orders -> {"none", "linking", "linked", "shown", "ended"}]
            /\ paid \in [Orders -> {"nothing", "short", "full"}]
            /\ today \in Nat \ {0}

OrderOK(o) == /\ order[o].status = "none" => checkout[o] = "none"
              /\ paid[o] # "nothing" => checkout[o] = "shown"
              /\ order[o].status = "PAID" => paid[o] = "full"

WorkspaceOK == /\ workspace \in WorkspaceType
               /\ workspace.plan = "free" => workspace.endsAt = 0

(* A transaction that decided to fulfil an order has its row, which nobody   *)
(* else changes then, and knows the deadline once it has the workspace.      *)
DeliveriesOK == /\ delivery \in [Deliveries -> DeliveryType]
                /\ \A d \in Deliveries : delivery[d].pc # "idle" => delivery[d].order \in Orders

HoldsOrder(d) ==
    delivery[d].pc \in {"workspace", "commit"} =>
        LET o == delivery[d].order IN
        /\ order[o].lock = d /\ order[o].status \in {"PENDING", "CREATING"} /\ paid[o] = "full"
        /\ delivery[d].paidAt \in 1 .. today

HoldsWorkspace(d) ==
    delivery[d].pc = "commit" => workspace.lock = d /\ delivery[d].base = workspace.endsAt

PaymentInv == /\ OrdersOK /\ WorkspaceOK /\ DeliveriesOK
              /\ \A o \in Orders : OrderOK(o)
              /\ \A d \in Deliveries : HoldsOrder(d) /\ HoldsWorkspace(d)

(* What PaidTime sees of a state, and a step of it.                          *)
Until == IF workspace.plan = "professional" THEN workspace.endsAt ELSE 0

AccountNext == \/ \E o \in Orders : Account!Extend(o)
               \/ Account!Lapse
               \/ Account!NextDay
               \/ UNCHANGED Account!AccountVars

LEMMA PaymentInvInit == PaymentInit => PaymentInv /\ Account!AccountInit
<1> SUFFICES ASSUME PaymentInit PROVE PaymentInv /\ Account!AccountInit
    OBVIOUS
<1>1. OrdersOK /\ \A o \in Orders : OrderOK(o)
    BY DEF PaymentInit, OrdersOK, OrderType, OrderOK
<1>2. WorkspaceOK /\ Until \in Nat
    BY DEF PaymentInit, Unlocked, WorkspaceOK, WorkspaceType, Until
<1>3. \A d \in Deliveries : delivery[d].pc = "idle"
    BY DEF PaymentInit, Idle
<1>4. DeliveriesOK
    BY <1>3 DEF PaymentInit, Idle, DeliveriesOK, DeliveryType
<1>5. \A d \in Deliveries : HoldsOrder(d) /\ HoldsWorkspace(d)
    BY <1>3 DEF HoldsOrder, HoldsWorkspace
<1>6. PaidOrders = {} /\ today = 1
    BY DEF PaymentInit, PaidOrders
<1> QED BY <1>1, <1>2, <1>4, <1>5, <1>6 DEF PaymentInv, Account!AccountInit, Until

-----------------------------------------------------------------------------
(* A column of one order row is written.                                     *)
LEMMA PutOrderStatus ==
    ASSUME NEW f \in [Orders -> OrderType], NEW o \in Orders,
           NEW v \in {"none", "CREATING", "PENDING", "PAID", "EXPIRED", "FAILED"}
    PROVE  LET g == [f EXCEPT ![o].status = v]
           IN  /\ g \in [Orders -> OrderType] /\ g[o].status = v /\ g[o].lock = f[o].lock
               /\ \A p \in Orders \ {o} : g[p] = f[p]
BY DEF OrderType

LEMMA PutOrderLive ==
    ASSUME NEW f \in [Orders -> OrderType], NEW o \in Orders, NEW v \in BOOLEAN
    PROVE  LET g == [f EXCEPT ![o].live = v]
           IN  /\ g \in [Orders -> OrderType] /\ g[o].status = f[o].status /\ g[o].lock = f[o].lock
               /\ \A p \in Orders \ {o} : g[p] = f[p]
BY DEF OrderType

LEMMA PutLock ==
    ASSUME NEW f \in [Orders -> OrderType], NEW o \in Orders, NEW v \in Deliveries \cup {Nobody}
    PROVE  LET g == [f EXCEPT ![o].lock = v]
           IN  /\ g \in [Orders -> OrderType] /\ g[o].status = f[o].status /\ g[o].lock = v
               /\ \A p \in Orders \ {o} : g[p] = f[p]
BY DEF OrderType

(* A step that leaves workspace, payments and transactions alone preserves   *)
(* the invariant and the account if it leaves alone what is locked or paid.  *)
Written(o, f) ==
    /\ f \in [Orders -> OrderType]
    /\ \A p \in Orders \ {o} : f[p] = order[p]
    /\ f[o].lock = order[o].lock
    /\ f[o].status # order[o].status => /\ order[o].status # "PAID"
                                        /\ order[o].status = "none" \/ order[o].lock = Nobody
                                        /\ f[o].status \notin {"none", "PAID"}

LEMMA OrderWritten ==
    ASSUME PaymentInv, NEW o \in Orders, Written(o, order'),
           UNCHANGED <<workspace, paid, delivery, today>>,
           checkout' \in [Orders -> {"none", "linking", "linked", "shown", "ended"}],
           \A p \in Orders \ {o} : checkout'[p] = checkout[p],
           checkout'[o] # checkout[o] => checkout[o] # "shown" /\ order'[o].status # "none"
    PROVE  PaymentInv' /\ UNCHANGED Account!AccountVars
<1>0. OrdersOK /\ WorkspaceOK /\ DeliveriesOK
    BY DEF PaymentInv
<1>1. OrdersOK' /\ WorkspaceOK' /\ DeliveriesOK'
    BY <1>0 DEF OrdersOK, WorkspaceOK, DeliveriesOK, Written
<1>2. ASSUME NEW p \in Orders PROVE OrderOK(p)'
    BY DEF PaymentInv, OrderOK, Written
<1>3. ASSUME NEW d \in Deliveries PROVE HoldsOrder(d)' /\ HoldsWorkspace(d)'
    <2>1. HoldsWorkspace(d)'
        BY DEF PaymentInv, HoldsWorkspace
    <2>2. HoldsOrder(d)'
        <3> SUFFICES ASSUME delivery[d].pc \in {"workspace", "commit"} PROVE HoldsOrder(d)'
            BY DEF HoldsOrder
        <3> DEFINE p == delivery[d].order
        <3>1. /\ p \in Orders /\ order[p].lock = d /\ order[p].status \in {"PENDING", "CREATING"}
              /\ paid[p] = "full" /\ delivery[d].paidAt \in 1 .. today
            BY <1>0 DEF PaymentInv, HoldsOrder, DeliveriesOK
        <3>2. order'[p].lock = order[p].lock /\ order'[p].status = order[p].status
            BY <3>1 DEF Written
        <3> QED BY <3>1, <3>2 DEF HoldsOrder
    <2> QED BY <2>1, <2>2
<1>4. PaidOrders' = PaidOrders
    <2>1. \A p \in Orders : (order'[p].status = "PAID") <=> (order[p].status = "PAID")
        BY DEF Written
    <2> QED BY <2>1 DEF PaidOrders
<1> QED BY <1>1, <1>2, <1>3, <1>4 DEF PaymentInv, Account!AccountVars

LEMMA NoOrderWritten == PaymentInv => \A o \in Orders : Written(o, order)
BY DEF PaymentInv, OrdersOK, Written

LEMMA CheckoutStep ==
    ASSUME PaymentInv, NEW o \in Orders,
           CreateVietQrOrder(o) \/ RequestLink(o) \/ ShowLink(o) \/ CheckoutEnds(o) \/ OrderExpires(o)
    PROVE  PaymentInv' /\ UNCHANGED Account!AccountVars
<1>0. OrdersOK /\ OrderOK(o) /\ Written(o, order) /\ UNCHANGED <<workspace, paid, delivery, today>>
    BY NoOrderWritten DEF PaymentInv, CreateVietQrOrder, RequestLink, ShowLink, CheckoutEnds, OrderExpires
<1>1. CASE CreateVietQrOrder(o)
    <2> DEFINE f == [order EXCEPT ![o].status = "CREATING"]
               g == [f EXCEPT ![o].live = TRUE]
    <2>1. order' = g
        BY <1>1, Zenon DEF CreateVietQrOrder
    <2>2. /\ f \in [Orders -> OrderType] /\ f[o].status = "CREATING" /\ f[o].lock = order[o].lock
          /\ \A p \in Orders \ {o} : f[p] = order[p]
        BY <1>0, PutOrderStatus, ZenonT(30) DEF OrdersOK
    <2> HIDE DEF f
    <2>3. /\ g \in [Orders -> OrderType] /\ g[o].status = "CREATING" /\ g[o].lock = order[o].lock
          /\ \A p \in Orders \ {o} : g[p] = order[p]
        BY <2>2, PutOrderLive
    <2> HIDE DEF g
    <2>4. order[o].status = "none" /\ checkout' = [checkout EXCEPT ![o] = "linking"]
        BY <1>1 DEF CreateVietQrOrder
    <2>5. Written(o, order')
        BY <2>1, <2>3, <2>4 DEF Written
    <2>6. checkout[o] = "none"
        BY <1>0, <2>4 DEF OrderOK
    <2> QED BY <1>0, <2>1, <2>3, <2>4, <2>5, <2>6, OrderWritten DEF OrdersOK
<1>2. CASE RequestLink(o)
    <2>1. /\ checkout[o] = "linking" /\ order[o].status # "none" /\ order[o].status # "PAID"
          /\ \/ checkout' = [checkout EXCEPT ![o] = "linked"]
             \/ checkout' = [checkout EXCEPT ![o] = "ended"]
        BY <1>0, <1>2 DEF RequestLink, OrderOK
    <2>2. CASE UNCHANGED order
        BY <1>0, <2>1, <2>2, OrderWritten DEF OrdersOK
    <2>3. CASE order[o].lock = Nobody /\ order' = [order EXCEPT ![o].status = "FAILED"]
        <3>1. /\ order' \in [Orders -> OrderType] /\ order'[o].status = "FAILED"
              /\ order'[o].lock = order[o].lock /\ \A p \in Orders \ {o} : order'[p] = order[p]
            <4>1. order \in [Orders -> OrderType]
                BY <1>0 DEF OrdersOK
            <4> DEFINE f == [order EXCEPT ![o].status = "FAILED"]
            <4>2. /\ f \in [Orders -> OrderType] /\ f[o].status = "FAILED" /\ f[o].lock = order[o].lock
                  /\ \A p \in Orders \ {o} : f[p] = order[p]
                BY <4>1, PutOrderStatus, ZenonT(30)
            <4> HIDE DEF f
            <4>3. order' = f
                BY <2>3 DEF f
            <4> QED BY <4>2, <4>3
        <3>2. Written(o, order')
            BY <2>1, <2>3, <3>1 DEF Written
        <3> QED BY <1>0, <2>1, <3>1, <3>2, OrderWritten DEF OrdersOK
    <2> QED BY <1>2, <2>2, <2>3 DEF RequestLink
<1>3. CASE ShowLink(o)
    <2>1. /\ checkout[o] = "linked" /\ order[o].status # "PAID" /\ order[o].lock = Nobody
          /\ checkout' = [checkout EXCEPT ![o] = "shown"]
          /\ order' = [order EXCEPT ![o].status = "PENDING"]
        BY <1>0, <1>3 DEF ShowLink, OrderOK
    <2>2. /\ order' \in [Orders -> OrderType] /\ order'[o].status = "PENDING"
          /\ order'[o].lock = order[o].lock /\ \A p \in Orders \ {o} : order'[p] = order[p]
        <3>1. order \in [Orders -> OrderType]
            BY <1>0 DEF OrdersOK
        <3> DEFINE f == [order EXCEPT ![o].status = "PENDING"]
        <3>2. /\ f \in [Orders -> OrderType] /\ f[o].status = "PENDING" /\ f[o].lock = order[o].lock
              /\ \A p \in Orders \ {o} : f[p] = order[p]
            BY <3>1, PutOrderStatus, ZenonT(30)
        <3> HIDE DEF f
        <3>3. order' = f
            BY <2>1 DEF f
        <3> QED BY <3>2, <3>3
    <2>3. Written(o, order')
        BY <2>1, <2>2 DEF Written
    <2> QED BY <1>0, <2>1, <2>2, <2>3, OrderWritten DEF OrdersOK
<1>4. CASE CheckoutEnds(o)
    <2>1. /\ checkout[o] \in {"linking", "linked"} /\ order[o].status # "none" /\ UNCHANGED order
          /\ checkout' = [checkout EXCEPT ![o] = "ended"]
        BY <1>0, <1>4 DEF CheckoutEnds, OrderOK
    <2> QED BY <1>0, <2>1, OrderWritten DEF OrdersOK
<1>5. CASE OrderExpires(o)
    <2>1. order' = [order EXCEPT ![o].live = FALSE] /\ UNCHANGED checkout
        BY <1>5 DEF OrderExpires
    <2>2. Written(o, order')
        BY <1>0, <2>1, PutOrderLive DEF OrdersOK, Written
    <2> QED BY <1>0, <2>1, <2>2, OrderWritten DEF OrdersOK
<1> QED BY <1>1, <1>2, <1>3, <1>4, <1>5

-----------------------------------------------------------------------------
(* The payer, the provider and the calendar.                                 *)
LEMMA OutsideStep ==
    ASSUME PaymentInv,
           (\E o \in Orders : Pay(o) \/ \E d \in Deliveries : Deliver(d, o)) \/ DayEnds
    PROVE  PaymentInv' /\ AccountNext
<1>0. /\ OrdersOK /\ WorkspaceOK /\ DeliveriesOK /\ \A o \in Orders : OrderOK(o)
      /\ \A d \in Deliveries : HoldsOrder(d) /\ HoldsWorkspace(d)
    BY DEF PaymentInv
<1>1. ASSUME NEW o \in Orders, Pay(o) PROVE PaymentInv' /\ AccountNext
    <2>1. /\ paid[o] = "nothing" /\ checkout[o] = "shown" /\ order[o].status # "PAID"
          /\ UNCHANGED <<order, workspace, checkout, delivery, today>>
        BY <1>0, <1>1 DEF Pay, OrderOK
    <2>2. /\ paid' \in [Orders -> {"nothing", "short", "full"}]
          /\ \A p \in Orders \ {o} : paid'[p] = paid[p]
        BY <1>0, <1>1 DEF Pay, OrdersOK
    <2>3. OrdersOK' /\ WorkspaceOK' /\ DeliveriesOK'
        BY <1>0, <2>1, <2>2 DEF OrdersOK, WorkspaceOK, DeliveriesOK
    <2>4. ASSUME NEW p \in Orders PROVE OrderOK(p)'
        BY <1>0, <2>1, <2>2 DEF OrderOK
    <2>5. ASSUME NEW d \in Deliveries PROVE HoldsOrder(d)' /\ HoldsWorkspace(d)'
        <3>1. delivery[d].pc \in {"workspace", "commit"} => delivery[d].order \in Orders \ {o}
            BY <1>0, <2>1 DEF DeliveriesOK, HoldsOrder
        <3> QED BY <1>0, <2>1, <2>2, <3>1 DEF HoldsOrder, HoldsWorkspace
    <2>6. PaidOrders' = PaidOrders
        BY <2>1, <2>2 DEF PaidOrders
    <2> QED BY <2>1, <2>3, <2>4, <2>5, <2>6 DEF PaymentInv, AccountNext, Account!AccountVars
<1>2. ASSUME NEW o \in Orders, NEW d \in Deliveries, Deliver(d, o) PROVE PaymentInv' /\ AccountNext
    <2> DEFINE row == [pc |-> "order", order |-> o, paidAt |-> 0, base |-> 0]
    <2>1. /\ delivery' = [delivery EXCEPT ![d] = row]
          /\ UNCHANGED <<order, workspace, checkout, paid, today>>
        <3> DEFINE a == [Idle EXCEPT !.pc = "order"]
        <3>1. a = [pc |-> "order", order |-> NoOrder, paidAt |-> 0, base |-> 0]
            BY DEF Idle
        <3>2. [Idle EXCEPT !.pc = "order", !.order = o] = [a EXCEPT !.order = o]
            BY Zenon
        <3> HIDE DEF a
        <3>3. [a EXCEPT !.order = o] = row
            BY <3>1
        <3> QED BY <1>2, <3>2, <3>3 DEF Deliver
    <2>2. row \in DeliveryType /\ row.pc = "order" /\ row.order = o
        BY DEF DeliveryType
    <2> HIDE DEF row
    <2>3. /\ delivery' \in [Deliveries -> DeliveryType] /\ delivery'[d] = row
          /\ \A e \in Deliveries \ {d} : delivery'[e] = delivery[e]
        BY <1>0, <2>1, <2>2 DEF DeliveriesOK
    <2>4. OrdersOK' /\ WorkspaceOK' /\ DeliveriesOK' /\ \A p \in Orders : OrderOK(p)'
        BY <1>0, <2>1, <2>2, <2>3 DEF OrdersOK, WorkspaceOK, DeliveriesOK, OrderOK
    <2>5. \A e \in Deliveries : HoldsOrder(e)' /\ HoldsWorkspace(e)'
        BY <1>0, <2>1, <2>2, <2>3 DEF HoldsOrder, HoldsWorkspace
    <2>6. UNCHANGED Account!AccountVars
        BY <2>1 DEF Account!AccountVars, PaidOrders
    <2> QED BY <2>4, <2>5, <2>6 DEF PaymentInv, AccountNext
<1>3. ASSUME DayEnds PROVE PaymentInv' /\ AccountNext
    <2>1. /\ today' = today + 1 /\ today \in Nat /\ today' \in Nat \ {0}
          /\ UNCHANGED <<order, workspace, checkout, paid, delivery>>
        BY <1>0, <1>3 DEF DayEnds, OrdersOK
    <2>2. OrdersOK' /\ WorkspaceOK' /\ DeliveriesOK' /\ \A p \in Orders : OrderOK(p)'
        BY <1>0, <2>1 DEF OrdersOK, WorkspaceOK, DeliveriesOK, OrderOK
    <2>3. 1 .. today \subseteq 1 .. today'
        BY <2>1
    <2>4. \A d \in Deliveries : HoldsOrder(d)' /\ HoldsWorkspace(d)'
        BY <1>0, <2>1, <2>3 DEF HoldsOrder, HoldsWorkspace
    <2>5. Account!NextDay
        BY <2>1 DEF Account!NextDay, PaidOrders
    <2> QED BY <2>2, <2>4, <2>5 DEF PaymentInv, AccountNext
<1> QED BY <1>1, <1>2, <1>3

-----------------------------------------------------------------------------
(* A transaction writes only rows that no other transaction has.             *)
LEMMA OthersHold ==
    ASSUME PaymentInv, NEW d \in Deliveries, UNCHANGED <<paid, today>>,
           \A e \in Deliveries \ {d} : delivery'[e] = delivery[e],
           \A p \in Orders : order[p].lock \notin {Nobody, d} => order'[p] = order[p],
           workspace.lock \notin {Nobody, d} => workspace' = workspace
    PROVE  \A e \in Deliveries \ {d} : HoldsOrder(e)' /\ HoldsWorkspace(e)'
<1> SUFFICES ASSUME NEW e \in Deliveries \ {d} PROVE HoldsOrder(e)' /\ HoldsWorkspace(e)'
    OBVIOUS
<1>1. HoldsOrder(e) /\ HoldsWorkspace(e) /\ e \notin {Nobody, d}
      /\ (delivery[e].pc # "idle" => delivery[e].order \in Orders)
    BY DEF PaymentInv, DeliveriesOK
<1>2. HoldsOrder(e)'
    BY <1>1 DEF HoldsOrder
<1>3. HoldsWorkspace(e)'
    BY <1>1 DEF HoldsWorkspace
<1> QED BY <1>2, <1>3

LEMMA Ended ==
    ASSUME PaymentInv, NEW d \in Deliveries, End(d)
    PROVE  /\ DeliveriesOK' /\ delivery'[d].pc = "idle" /\ HoldsOrder(d)' /\ HoldsWorkspace(d)'
           /\ \A e \in Deliveries \ {d} : delivery'[e] = delivery[e]
<1>1. Idle \in DeliveryType /\ Idle.pc = "idle"
    BY DEF Idle, DeliveryType
<1>2. /\ delivery' \in [Deliveries -> DeliveryType] /\ delivery'[d] = Idle
      /\ \A e \in Deliveries \ {d} : delivery'[e] = delivery[e]
    BY <1>1 DEF End, PaymentInv, DeliveriesOK
<1> QED BY <1>1, <1>2 DEF PaymentInv, DeliveriesOK, HoldsOrder, HoldsWorkspace

LEMMA LockOrderStep ==
    ASSUME PaymentInv, NEW d \in Deliveries, LockOrder(d)
    PROVE  PaymentInv' /\ AccountNext
<1> DEFINE o == delivery[d].order
<1>0. /\ OrdersOK /\ WorkspaceOK /\ DeliveriesOK /\ \A p \in Orders : OrderOK(p)
      /\ \A e \in Deliveries : HoldsOrder(e) /\ HoldsWorkspace(e)
    BY DEF PaymentInv
<1>1. /\ delivery[d].pc = "order" /\ o \in Orders /\ order[o].lock \in {Nobody, d}
      /\ UNCHANGED <<workspace, checkout, paid, today>>
    BY <1>0 DEF LockOrder, Free, DeliveriesOK
<1>2. CASE End(d) /\ UNCHANGED order
    <2>1. \A e \in Deliveries : HoldsOrder(e)' /\ HoldsWorkspace(e)'
        BY <1>1, <1>2, Ended, OthersHold
    <2>2. OrdersOK' /\ WorkspaceOK' /\ DeliveriesOK' /\ \A p \in Orders : OrderOK(p)'
        BY <1>0, <1>1, <1>2, Ended DEF OrdersOK, WorkspaceOK, OrderOK
    <2>3. UNCHANGED Account!AccountVars
        BY <1>1, <1>2 DEF Account!AccountVars, PaidOrders
    <2> QED BY <2>1, <2>2, <2>3 DEF PaymentInv, AccountNext
<1>3. CASE /\ Verdict(o) = "expired" /\ End(d)
           /\ order' = [order EXCEPT ![o].status = "EXPIRED"]
    <2>1. order[o].status # "PAID"
        BY <1>3 DEF Verdict
    <2>2. /\ order' \in [Orders -> OrderType] /\ order'[o].status = "EXPIRED"
          /\ order'[o].lock = order[o].lock /\ \A p \in Orders \ {o} : order'[p] = order[p]
        <3>1. order \in [Orders -> OrderType]
            BY <1>0 DEF OrdersOK
        <3>2. o \in Orders /\ order' = [order EXCEPT ![o].status = "EXPIRED"]
            BY <1>1, <1>3
        <3> HIDE DEF o
        <3> DEFINE f == [order EXCEPT ![o].status = "EXPIRED"]
        <3>3. /\ f \in [Orders -> OrderType] /\ f[o].status = "EXPIRED" /\ f[o].lock = order[o].lock
              /\ \A p \in Orders \ {o} : f[p] = order[p]
            BY <3>1, <3>2, PutOrderStatus, ZenonT(30)
        <3> HIDE DEF f
        <3>4. order' = f
            BY <3>2 DEF f
        <3> QED BY <3>3, <3>4
    <2> HIDE DEF o
    <2>3. \A e \in Deliveries : HoldsOrder(e)' /\ HoldsWorkspace(e)'
        BY <1>1, <1>3, <2>2, Ended, OthersHold
    <2>4. OrdersOK' /\ WorkspaceOK' /\ DeliveriesOK'
        BY <1>0, <1>1, <1>3, <2>2, Ended DEF OrdersOK, WorkspaceOK
    <2>5. ASSUME NEW p \in Orders PROVE OrderOK(p)'
        BY <1>0, <1>1, <2>2 DEF OrderOK
    <2>6. UNCHANGED Account!AccountVars
        BY <1>1, <2>1, <2>2 DEF Account!AccountVars, PaidOrders
    <2> QED BY <2>3, <2>4, <2>5, <2>6 DEF PaymentInv, AccountNext
<1>4. CASE /\ Verdict(o) = "fulfil" /\ order' = [order EXCEPT ![o].lock = d]
           /\ delivery' = [delivery EXCEPT ![d].pc = "workspace", ![d].paidAt = today]
    <2>1. order[o].status \in {"PENDING", "CREATING"} /\ paid[o] = "full"
        BY <1>4 DEF Verdict, Fulfillable, AmountValid
    <2>2. /\ order' \in [Orders -> OrderType] /\ order'[o].status = order[o].status
          /\ order'[o].lock = d /\ \A p \in Orders \ {o} : order'[p] = order[p]
        BY <1>0, <1>1, <1>4, PutLock DEF OrdersOK
    <2>3. today \in Nat \ {0} /\ today \in 1 .. today
        BY <1>0 DEF OrdersOK
    <2>4. /\ delivery' \in [Deliveries -> DeliveryType] /\ delivery'[d].pc = "workspace"
          /\ delivery'[d].order = o /\ delivery'[d].paidAt = today
          /\ \A e \in Deliveries \ {d} : delivery'[e] = delivery[e]
        BY <1>0, <1>4, <2>3 DEF DeliveriesOK, DeliveryType
    <2> HIDE DEF o
    <2>5. HoldsOrder(d)' /\ HoldsWorkspace(d)'
        BY <1>1, <2>1, <2>2, <2>3, <2>4 DEF HoldsOrder, HoldsWorkspace
    <2>6. \A e \in Deliveries \ {d} : HoldsOrder(e)' /\ HoldsWorkspace(e)'
        BY <1>1, <2>2, <2>4, OthersHold
    <2>7. OrdersOK' /\ WorkspaceOK' /\ DeliveriesOK'
        BY <1>0, <1>1, <2>2, <2>4 DEF OrdersOK, WorkspaceOK, DeliveriesOK
    <2>8. ASSUME NEW p \in Orders PROVE OrderOK(p)'
        BY <1>0, <1>1, <2>2 DEF OrderOK
    <2>9. UNCHANGED Account!AccountVars
        BY <1>1, <2>2 DEF Account!AccountVars, PaidOrders
    <2> QED BY <2>5, <2>6, <2>7, <2>8, <2>9 DEF PaymentInv, AccountNext
<1> QED BY <1>2, <1>3, <1>4 DEF LockOrder

LEMMA WorkspaceLocked ==
    ASSUME WorkspaceOK, NEW v \in Deliveries \cup {Nobody}
    PROVE  LET row == [workspace EXCEPT !.lock = v]
           IN  /\ row \in WorkspaceType /\ row.plan = workspace.plan /\ row.source = workspace.source
               /\ row.endsAt = workspace.endsAt /\ row.lock = v
BY DEF WorkspaceOK, WorkspaceType

LEMMA LockWorkspaceStep ==
    ASSUME PaymentInv, NEW d \in Deliveries, LockWorkspace(d)
    PROVE  PaymentInv' /\ AccountNext
<1>0. /\ OrdersOK /\ WorkspaceOK /\ DeliveriesOK /\ \A p \in Orders : OrderOK(p)
      /\ HoldsOrder(d)
    BY DEF PaymentInv
<1>1. /\ delivery[d].pc = "workspace" /\ workspace.lock \in {Nobody, d}
      /\ workspace' = [workspace EXCEPT !.lock = d]
      /\ delivery' = [delivery EXCEPT ![d].pc = "commit", ![d].base = workspace.endsAt]
      /\ UNCHANGED <<order, checkout, paid, today>>
    BY DEF LockWorkspace, Free
<1>2. /\ workspace' \in WorkspaceType /\ workspace'.plan = workspace.plan
      /\ workspace'.endsAt = workspace.endsAt /\ workspace'.lock = d
    BY <1>0, <1>1, WorkspaceLocked
<1>3. /\ delivery' \in [Deliveries -> DeliveryType] /\ delivery'[d].pc = "commit"
      /\ delivery'[d].order = delivery[d].order /\ delivery'[d].paidAt = delivery[d].paidAt
      /\ delivery'[d].base = workspace.endsAt
      /\ \A e \in Deliveries \ {d} : delivery'[e] = delivery[e]
    <2>1. workspace.endsAt \in Nat
        BY <1>0 DEF WorkspaceOK, WorkspaceType
    <2> QED BY <1>0, <1>1, <2>1 DEF DeliveriesOK, DeliveryType
<1>4. HoldsOrder(d)' /\ HoldsWorkspace(d)'
    BY <1>0, <1>1, <1>2, <1>3 DEF HoldsOrder, HoldsWorkspace
<1>5. \A e \in Deliveries \ {d} : HoldsOrder(e)' /\ HoldsWorkspace(e)'
    BY <1>1, <1>3, OthersHold
<1>6. OrdersOK' /\ WorkspaceOK' /\ DeliveriesOK' /\ \A p \in Orders : OrderOK(p)'
    BY <1>0, <1>1, <1>2, <1>3 DEF OrdersOK, WorkspaceOK, DeliveriesOK, OrderOK
<1>7. UNCHANGED Account!AccountVars
    BY <1>1, <1>2 DEF Account!AccountVars, PaidOrders
<1> QED BY <1>4, <1>5, <1>6, <1>7 DEF PaymentInv, AccountNext

LEMMA LaterNat == \A x, y \in Nat : Later(x, y) \in Nat
BY DEF Later

LEMMA CommitStep ==
    ASSUME PaymentInv, NEW d \in Deliveries, CommitFulfillment(d)
    PROVE  PaymentInv' /\ AccountNext
<1> DEFINE o == delivery[d].order
           through == Later(delivery[d].base, delivery[d].paidAt) + Term[o]
<1>0. /\ OrdersOK /\ WorkspaceOK /\ DeliveriesOK /\ \A p \in Orders : OrderOK(p)
      /\ HoldsOrder(d) /\ HoldsWorkspace(d)
    BY DEF PaymentInv
<1>1. /\ delivery[d].pc = "commit" /\ o \in Orders /\ order[o].lock = d /\ workspace.lock = d
      /\ order[o].status \in {"PENDING", "CREATING"} /\ paid[o] = "full"
      /\ delivery[d].paidAt \in 1 .. today /\ delivery[d].base = workspace.endsAt
      /\ End(d) /\ UNCHANGED <<checkout, paid, today>>
    BY <1>0 DEF CommitFulfillment, HoldsOrder, HoldsWorkspace, DeliveriesOK
<1>2. through \in Nat
    <2>1. delivery[d].base \in Nat /\ delivery[d].paidAt \in Nat
        BY <1>0 DEF DeliveriesOK, DeliveryType
    <2>2. Term[o] \in Nat
        BY <1>1
    <2>3. Later(delivery[d].base, delivery[d].paidAt) \in Nat
        BY <2>1, LaterNat
    <2> QED BY <2>2, <2>3
<1>3. /\ workspace' = [plan |-> "professional", source |-> "vietqr_domestic",
                       endsAt |-> through, lock |-> Nobody]
    BY DEF CommitFulfillment, Unlocked, PaidThrough
<1>4. /\ order' \in [Orders -> OrderType] /\ order'[o].status = "PAID"
      /\ \A p \in Orders \ {o} : order'[p] = order[p]
    <2> DEFINE f == [order EXCEPT ![o].status = "PAID"]
               g == [f EXCEPT ![o].lock = Nobody]
    <2>1. order' = g
        BY Zenon DEF CommitFulfillment
    <2>2. order \in [Orders -> OrderType]
        BY <1>0 DEF OrdersOK
    <2>0. o \in Orders
        BY <1>1
    <2> HIDE DEF o
    <2>3. /\ f \in [Orders -> OrderType] /\ f[o].status = "PAID" /\ f[o].lock = order[o].lock
          /\ \A p \in Orders \ {o} : f[p] = order[p]
        BY <2>0, <2>2, PutOrderStatus, ZenonT(30)
    <2> HIDE DEF f
    <2>4. /\ g \in [Orders -> OrderType] /\ g[o].status = "PAID"
          /\ \A p \in Orders \ {o} : g[p] = order[p]
        BY <2>0, <2>3, PutLock
    <2> HIDE DEF g
    <2> QED BY <2>1, <2>4
<1> HIDE DEF through
<1>5. /\ workspace'.plan = "professional" /\ workspace'.endsAt = through /\ WorkspaceOK'
    BY <1>2, <1>3 DEF WorkspaceOK, WorkspaceType
<1>6. \A e \in Deliveries : HoldsOrder(e)' /\ HoldsWorkspace(e)'
    <2> HIDE DEF o
    <2> QED BY <1>1, <1>4, Ended, OthersHold
<1>7. OrdersOK' /\ DeliveriesOK'
    BY <1>0, <1>1, <1>4, Ended DEF OrdersOK
<1>8. ASSUME NEW p \in Orders PROVE OrderOK(p)'
    <2> HIDE DEF o
    <2> QED BY <1>0, <1>1, <1>4 DEF OrderOK
<1>9. Account!Extend(o)
    <2>1. PaidOrders' = PaidOrders \cup {o} /\ o \notin PaidOrders
        <3> HIDE DEF o
        <3> QED BY <1>1, <1>4 DEF PaidOrders
    <2>2. Until = workspace.endsAt
        <3>1. workspace.plan \in {"free", "professional"}
            BY <1>0 DEF WorkspaceOK, WorkspaceType
        <3> QED BY <1>0, <3>1 DEF Until, WorkspaceOK
    <2>3. Until' = through
        BY <1>5 DEF Until
    <2>4. through = Account!Later(Until, delivery[d].paidAt) + Term[o]
        BY <1>1, <2>2 DEF through, Later, Account!Later
    <2>5. \E from \in 1 .. today : through = Account!Later(Until, from) + Term[o]
        BY <1>1, <2>4
    <2> QED BY <1>1, <2>1, <2>3, <2>5 DEF Account!Extend, Until
<1> QED BY <1>1, <1>5, <1>6, <1>7, <1>8, <1>9 DEF PaymentInv, AccountNext

LEMMA RollbackStep ==
    ASSUME PaymentInv, NEW d \in Deliveries, Rollback(d)
    PROVE  PaymentInv' /\ AccountNext
<1>0. /\ OrdersOK /\ WorkspaceOK /\ DeliveriesOK /\ \A p \in Orders : OrderOK(p)
    BY DEF PaymentInv
<1>1. /\ order' = [p \in Orders |-> IF order[p].lock = d THEN [order[p] EXCEPT !.lock = Nobody]
                                    ELSE order[p]]
      /\ workspace' = IF workspace.lock = d THEN [workspace EXCEPT !.lock = Nobody] ELSE workspace
      /\ End(d) /\ UNCHANGED <<checkout, paid, today>>
    BY DEF Rollback
<1>2. ASSUME NEW p \in Orders
      PROVE  /\ order'[p] \in OrderType /\ order'[p].status = order[p].status
             /\ order[p].lock # d => order'[p] = order[p]
    BY <1>0, <1>1 DEF OrdersOK, OrderType
<1>3. /\ workspace' \in WorkspaceType /\ workspace'.plan = workspace.plan
      /\ workspace'.endsAt = workspace.endsAt /\ (workspace.lock # d => workspace' = workspace)
    BY <1>0, <1>1, WorkspaceLocked DEF WorkspaceOK
<1>4. order' \in [Orders -> OrderType]
    BY <1>1, <1>2
<1>5. OrdersOK' /\ WorkspaceOK' /\ DeliveriesOK' /\ \A p \in Orders : OrderOK(p)'
    BY <1>0, <1>1, <1>2, <1>3, <1>4, Ended DEF OrdersOK, WorkspaceOK, OrderOK
<1>6. \A e \in Deliveries : HoldsOrder(e)' /\ HoldsWorkspace(e)'
    BY <1>1, <1>2, <1>3, Ended, OthersHold
<1>7. UNCHANGED Account!AccountVars
    BY <1>1, <1>2, <1>3 DEF Account!AccountVars, PaidOrders
<1> QED BY <1>5, <1>6, <1>7 DEF PaymentInv, AccountNext

LEMMA ExpiryStep ==
    ASSUME PaymentInv, ExpireBilling
    PROVE  PaymentInv' /\ AccountNext
<1>0. /\ OrdersOK /\ WorkspaceOK /\ DeliveriesOK /\ \A p \in Orders : OrderOK(p)
      /\ \A e \in Deliveries : HoldsOrder(e) /\ HoldsWorkspace(e)
    BY DEF PaymentInv
<1>1. /\ workspace.plan = "professional" /\ workspace.endsAt <= today /\ workspace.lock = Nobody
      /\ workspace' = [plan |-> "free", source |-> "none", endsAt |-> 0, lock |-> Nobody]
      /\ UNCHANGED <<order, checkout, paid, delivery, today>>
    BY <1>0 DEF ExpireBilling, TermOver, Unlocked, WorkspaceOK, WorkspaceType
<1>2. OrdersOK' /\ WorkspaceOK' /\ DeliveriesOK' /\ \A p \in Orders : OrderOK(p)'
    BY <1>0, <1>1 DEF OrdersOK, WorkspaceOK, WorkspaceType, DeliveriesOK, OrderOK
<1>3. \A e \in Deliveries : HoldsOrder(e)' /\ HoldsWorkspace(e)'
    BY <1>0, <1>1 DEF HoldsOrder, HoldsWorkspace
<1>4. Account!Lapse
    BY <1>1 DEF Account!Lapse, PaidOrders
<1> QED BY <1>2, <1>3, <1>4 DEF PaymentInv, AccountNext

LEMMA PaymentStep == PaymentInv /\ PaymentNext => PaymentInv' /\ AccountNext
<1> SUFFICES ASSUME PaymentInv, PaymentNext PROVE PaymentInv' /\ AccountNext
    OBVIOUS
<1>1. ASSUME NEW o \in Orders,
             \/ CreateVietQrOrder(o) \/ RequestLink(o) \/ ShowLink(o)
             \/ CheckoutEnds(o) \/ OrderExpires(o)
      PROVE  PaymentInv' /\ AccountNext
    BY <1>1, CheckoutStep DEF AccountNext
<1>2. ASSUME (\E o \in Orders : Pay(o) \/ \E d \in Deliveries : Deliver(d, o)) \/ DayEnds
      PROVE  PaymentInv' /\ AccountNext
    BY <1>2, OutsideStep
<1>3. ASSUME NEW d \in Deliveries, Step(d) \/ Rollback(d) PROVE PaymentInv' /\ AccountNext
    BY <1>3, LockOrderStep, LockWorkspaceStep, CommitStep, RollbackStep DEF Step
<1> QED BY <1>1, <1>2, <1>3, ExpiryStep DEF PaymentNext

LEMMA StutterStep ==
    ASSUME PaymentInv, UNCHANGED paymentVars
    PROVE  PaymentInv' /\ AccountNext
<1>1. UNCHANGED Account!AccountVars
    BY DEF paymentVars, Account!AccountVars, PaidOrders
<1>2. PaymentInv'
    BY DEF paymentVars, PaymentInv, OrdersOK, WorkspaceOK, DeliveriesOK, OrderOK, HoldsOrder, HoldsWorkspace
<1> QED BY <1>1, <1>2 DEF AccountNext

(* Whatever is delivered, retried or rolled back beside the cron, a          *)
(* workspace has exactly the time it paid for.                               *)
THEOREM PaidTimeIsKept == PaymentSpec => ImplementsPaidTime
<1>1. PaymentInv /\ [PaymentNext]_paymentVars
        => [(\E o \in Orders : Account!Extend(o)) \/ Account!Lapse \/ Account!NextDay]_(Account!AccountVars)
    BY PaymentStep, StutterStep DEF AccountNext
<1>2. PaymentInv /\ [PaymentNext]_paymentVars => PaymentInv'
    BY PaymentStep, StutterStep
<1> QED BY <1>1, <1>2, PaymentInvInit, PTL DEF PaymentSpec, ImplementsPaidTime, Account!AccountSpec

(* The rows, the webhook invocations and the calendar keep their kinds.      *)
THEOREM PaymentTyped == PaymentSpec => []PaymentTypeOK
<1> DEFINE TypedInv == PaymentInv /\ today <= LastDay
<1>1. PaymentInit => TypedInv
    BY PaymentInvInit DEF PaymentInit
<1>2. TypedInv /\ [PaymentNext]_paymentVars => TypedInv'
    <2> SUFFICES ASSUME TypedInv, [PaymentNext]_paymentVars PROVE TypedInv'
        OBVIOUS
    <2>1. ASSUME NEW o \in Orders,
                 \/ CreateVietQrOrder(o) \/ RequestLink(o) \/ ShowLink(o)
                 \/ CheckoutEnds(o) \/ Pay(o) \/ OrderExpires(o)
                 \/ \E d \in Deliveries : Deliver(d, o)
          PROVE  UNCHANGED today
        BY <2>1 DEF CreateVietQrOrder, RequestLink, ShowLink, CheckoutEnds, Pay, OrderExpires, Deliver
    <2>2. ASSUME NEW d \in Deliveries, Step(d) \/ Rollback(d)
          PROVE  UNCHANGED today
        BY <2>2 DEF Step, LockOrder, LockWorkspace, CommitFulfillment, Rollback
    <2>3. DayEnds => today < LastDay /\ today' = today + 1
        BY DEF DayEnds
    <2>4. today \in Nat /\ PaymentInv'
        BY PaymentStep, StutterStep DEF PaymentInv, OrdersOK
    <2> QED BY <2>1, <2>2, <2>3, <2>4 DEF PaymentNext, ExpireBilling, paymentVars
<1>3. TypedInv => PaymentTypeOK
    BY DEF PaymentInv, OrdersOK, WorkspaceOK, DeliveriesOK, PaymentTypeOK
<1> HIDE DEF TypedInv
<1> QED BY <1>1, <1>2, <1>3, PTL DEF PaymentSpec
=============================================================================
