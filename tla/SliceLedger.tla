----------------------------- MODULE SliceLedger -----------------------------
(***************************************************************************)
(* What a checkpointed backfill promises, without leases, clocks, control  *)
(* points or receipts: a slice is worked on by one owner at a time, is     *)
(* given to an owner at most MaxAttempts times, is given up only when they *)
(* are spent, and its result is recorded once, by the owner it was last    *)
(* given to.  A claim after the last admission forfeits the slice: nobody  *)
(* may record it any more and all that is left is to give it up.  The      *)
(* import is closed once, and as completed only when every slice is done.  *)
(***************************************************************************)
EXTENDS Integers

CONSTANTS Slices, Owners, Nobody, MaxAttempts

VARIABLES slice,    \* phase, current owner and number of admissions of each slice
          author,   \* whose result is recorded
          verdict   \* how the import was closed

Phases == {"open", "forfeit", "done", "dead"}
Verdicts == {"completed", "partial", "failed"}

Done == {s \in Slices : slice[s].phase = "done"}
IsOpen(s) == slice[s].phase = "open"
Owned(s) == IsOpen(s) /\ slice[s].owner # Nobody
Row(phase, owner, admissions) == [phase |-> phase, owner |-> owner, admissions |-> admissions]
Unowned(s, phase) == Row(phase, Nobody, slice[s].admissions)

Init ==
    /\ slice = [s \in Slices |-> Row("open", Nobody, 0)]
    /\ author = [s \in Slices |-> Nobody]
    /\ verdict = "open"

(* A new owner, possibly in the place of one that fell silent.             *)
Admit(s, o) ==
    /\ IsOpen(s) /\ slice[s].admissions < MaxAttempts
    /\ slice' = [slice EXCEPT ![s] = Row("open", o, slice[s].admissions + 1)]
    /\ UNCHANGED <<author, verdict>>

(* One claim too many, possibly under an owner that is still at work.      *)
Forfeit(s) ==
    /\ IsOpen(s) /\ slice[s].admissions = MaxAttempts
    /\ slice' = [slice EXCEPT ![s] = Unowned(s, "forfeit")]
    /\ UNCHANGED <<author, verdict>>

Record(s) ==
    /\ Owned(s)
    /\ slice' = [slice EXCEPT ![s] = Unowned(s, "done")]
    /\ author' = [author EXCEPT ![s] = slice[s].owner]
    /\ UNCHANGED verdict

GiveBack(s) ==
    /\ Owned(s)
    /\ slice' = [slice EXCEPT ![s] = Unowned(s, "open")]
    /\ UNCHANGED <<author, verdict>>

GiveUp(S) ==
    /\ \A s \in S : slice[s].phase \in {"open", "forfeit"} /\ slice[s].admissions = MaxAttempts
    /\ slice' = [s \in Slices |-> IF s \in S THEN Unowned(s, "dead") ELSE slice[s]]
    /\ UNCHANGED <<author, verdict>>

Close(v) ==
    /\ verdict = "open"
    /\ v = "completed" => Done = Slices
    /\ v = "partial" => Done # {}
    /\ verdict' = v
    /\ UNCHANGED <<slice, author>>

Next == \/ \E s \in Slices : \/ \E o \in Owners : Admit(s, o)
                            \/ Forfeit(s) \/ Record(s) \/ GiveBack(s)
        \/ \E S \in SUBSET Slices : GiveUp(S)
        \/ \E v \in Verdicts : Close(v)

Spec == Init /\ [][Next]_<<slice, author, verdict>>
=============================================================================
