------------------------------- MODULE Rental -------------------------------
(***************************************************************************)
(* What a CI run promises about the machine it rents, whatever its         *)
(* processes and the provider do: it is rented at most once, the run       *)
(* vouches for its return only afterwards, and the machines of others are  *)
(* left alone.  PodLifecycle implements it; that the machine is returned   *)
(* in the end is a property of PodLifecycle, under its fairness.           *)
(***************************************************************************)
CONSTANTS Own, Foreign

VARIABLES
    own,        \* "never", "rented" or "returned"
    others,     \* the machines of others that still exist
    verdict,    \* what the run reported: "none", "success" or "failure"
    certified   \* whether the run's record says that its machine is deleted

vars == <<own, others, verdict, certified>>

Init ==
    /\ own = "never"
    /\ others = Foreign
    /\ verdict = "none"
    /\ certified = FALSE

Rent ==
    /\ own = "never"
    /\ own' = "rented"
    /\ UNCHANGED <<others, verdict, certified>>

Return ==
    /\ own = "rented"
    /\ own' = "returned"
    /\ UNCHANGED <<others, verdict, certified>>

(* A verdict is final; the record may be written again.                    *)
Report ==
    /\ verdict' \in (IF verdict = "none" THEN {"none", "success", "failure"} ELSE {verdict})
    /\ certified' \in BOOLEAN
    /\ verdict' = "success" \/ certified' => own = "returned"
    /\ UNCHANGED <<own, others>>

Next == Rent \/ Return \/ Report

Spec == Init /\ [][Next]_vars

=============================================================================
