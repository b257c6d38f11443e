----------------------------- MODULE BriefLedger ------------------------------
(***************************************************************************)
(* What the scheduled briefs promise, without leases, tokens and sweeps:   *)
(* one sender at a time works on an occurrence, and nobody receives its    *)
(* brief twice.  The sender, and only he, says that it was delivered, or   *)
(* that nobody has it, so that it is tried again; both are true.  Everybody*)
(* may say that it is unknown what became of it, even while he still sends.*)
(* What was delivered or is unknown is never tried again.                  *)
(***************************************************************************)
EXTENDS Naturals, FiniteSets

CONSTANTS Occurrences, Recipients

VARIABLES phase,     \* of each occurrence: open, begun, delivered or unknown
          sending,   \* the occurrences that have a sender
          received,  \* the briefs of each occurrence that each recipient has
          counted    \* how often the schedule was recorded as sent

ledger == <<phase, sending, received, counted>>

Init ==
    /\ phase = [o \in Occurrences |-> "open"]
    /\ sending = {}
    /\ received = [o \in Occurrences |-> [x \in Recipients |-> 0]]
    /\ counted = 0

Got(o) == \E x \in Recipients : received[o][x] > 0

Begin(o) ==
    /\ phase[o] = "open" /\ o \notin sending
    /\ phase' = [phase EXCEPT ![o] = "begun"]
    /\ sending' = sending \cup {o}
    /\ UNCHANGED <<received, counted>>

Deliver(o, x) ==
    /\ o \in sending /\ received[o][x] = 0
    /\ received' = [received EXCEPT ![o][x] = 1]
    /\ UNCHANGED <<phase, sending, counted>>

(* The sender is done, with a verdict if nobody has doubted him, or fails. *)
Settle(o, verdict) ==
    /\ o \in sending /\ phase[o] = "begun"
    /\ verdict = "delivered" => Got(o)
    /\ verdict = "open" => ~Got(o)
    /\ phase' = [phase EXCEPT ![o] = verdict]
    /\ sending' = sending \ {o}
    /\ UNCHANGED <<received, counted>>

Stop(o) ==
    /\ o \in sending
    /\ sending' = sending \ {o}
    /\ UNCHANGED <<phase, received, counted>>

Doubt(o) ==
    /\ phase[o] = "begun"
    /\ phase' = [phase EXCEPT ![o] = "unknown"]
    /\ UNCHANGED <<sending, received, counted>>

(* Once for each occurrence that reached somebody.                         *)
Count ==
    /\ counted < Cardinality({o \in Occurrences : Got(o)})
    /\ counted' = counted + 1
    /\ UNCHANGED <<phase, sending, received>>

Next ==
    \/ \E o \in Occurrences :
          \/ Begin(o) \/ Stop(o) \/ Doubt(o)
          \/ \E x \in Recipients : Deliver(o, x)
          \/ \E verdict \in {"delivered", "open", "unknown"} : Settle(o, verdict)
    \/ Count

Spec == Init /\ [][Next]_ledger
=============================================================================
