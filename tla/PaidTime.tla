------------------------------- MODULE PaidTime -------------------------------
(* What prepaid billing promises, without orders' states, transactions or    *)
(* webhooks: a workspace has paid access until some day, every payment adds  *)
(* its term exactly once, and access ends by time alone.                     *)
EXTENDS Naturals

CONSTANTS Orders,
          Term       \* the days each order buys

VARIABLES until,     \* the day the access ends, 0 when it has no date
          counted,   \* the payments already added
          today

AccountVars == <<until, counted, today>>

Later(x, y) == IF x >= y THEN x ELSE y

AccountInit ==
    /\ until \in Nat
    /\ counted = {}
    /\ today = 1

(* A payment counts from the end of the term that runs, or from the day it   *)
(* was processed, which may have passed when the addition is recorded.       *)
Extend(o) ==
    /\ o \notin counted
    /\ counted' = counted \cup {o}
    /\ \E from \in 1..today : until' = Later(until, from) + Term[o]
    /\ UNCHANGED today

Lapse ==
    /\ until <= today
    /\ until' = 0
    /\ UNCHANGED <<counted, today>>

NextDay == today' = today + 1 /\ UNCHANGED <<until, counted>>

AccountSpec ==
    /\ AccountInit
    /\ [][(\E o \in Orders : Extend(o)) \/ Lapse \/ NextDay]_AccountVars
=============================================================================
