----------------------------- MODULE PilotLedger -----------------------------
(***************************************************************************)
(* What an extended backfill of the pilot promises, without leases, clocks,*)
(* pauses or control points: an owner at a time works on a slice, is given *)
(* it at most MaxAttempts times, and only he can finish it or give it back.*)
(* A slice is given up when its admissions are spent, and dropped by a     *)
(* cancel only while nobody has it.  The backfill is closed once: by its   *)
(* executions when every slice is done or dead, and then as these slices   *)
(* say, or by a cancel.                                                    *)
(***************************************************************************)
EXTENDS Naturals

CONSTANTS Slices, Owners, Nobody, MaxAttempts

VARIABLES slice,    \* phase, current owner and number of admissions of each slice
          verdict   \* how the backfill was closed

Row(phase, owner, admissions) == [phase |-> phase, owner |-> owner, admissions |-> admissions]
InPhase(phase) == {s \in Slices : slice[s].phase = phase}
Done == InPhase("done")
IsOpen(s) == s \in InPhase("open")
Owned(s) == IsOpen(s) /\ slice[s].owner # Nobody
Unowned(s, phase) == Row(phase, Nobody, slice[s].admissions)

Init ==
    /\ slice = [s \in Slices |-> Row("open", Nobody, 0)]
    /\ verdict = "open"

(* A new owner, possibly in the place of one that fell silent.             *)
Admit(s, o) ==
    /\ IsOpen(s) /\ slice[s].admissions < MaxAttempts
    /\ slice' = [slice EXCEPT ![s] = Row("open", o, slice[s].admissions + 1)]
    /\ UNCHANGED verdict

(* The owner finishes the slice, or gives it back to be tried again.       *)
Leave(s) ==
    /\ Owned(s)
    /\ \E phase \in {"done", "open"} : slice' = [slice EXCEPT ![s] = Unowned(s, phase)]
    /\ UNCHANGED verdict

AllUnowned(S, phase) ==
    slice' = [s \in Slices |-> IF s \in S THEN Unowned(s, phase) ELSE slice[s]]

GiveUp(S) ==
    /\ \A s \in S : IsOpen(s) /\ slice[s].admissions = MaxAttempts
    /\ AllUnowned(S, "dead")
    /\ UNCHANGED verdict

Drop(S) ==
    /\ \A s \in S : IsOpen(s) /\ ~Owned(s)
    /\ AllUnowned(S, "dropped")
    /\ UNCHANGED verdict

Outcome == IF Done = Slices THEN "completed" ELSE IF Done = {} THEN "failed" ELSE "partial"

Close ==
    /\ verdict = "open" /\ InPhase("open") \cup InPhase("dropped") = {}
    /\ verdict' = Outcome
    /\ UNCHANGED slice

Cancel(v) ==
    /\ verdict = "open"
    /\ v = "partial_cancelled" => Done # {}
    /\ verdict' = v
    /\ UNCHANGED slice

Next == \/ \E s \in Slices : (\E o \in Owners : Admit(s, o)) \/ Leave(s)
        \/ \E S \in SUBSET Slices : GiveUp(S) \/ Drop(S)
        \/ Close \/ \E v \in {"cancelled", "partial_cancelled"} : Cancel(v)

Spec == Init /\ [][Next]_<<slice, verdict>>
=============================================================================
