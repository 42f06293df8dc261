---------------------------- MODULE StateRegister ----------------------------
(***************************************************************************)
(* What state.json is to the processes that use it: a register that is     *)
(* always whole.  Only a power failure may take back what it holds, and    *)
(* then to what it held before.  StateFile implements it.                  *)
(***************************************************************************)
EXTENDS Naturals

VARIABLES value, durable, answer    \* numbers of writes, 0 before the first

vars == <<value, durable, answer>>

Init == value = 0 /\ durable = 0 /\ answer = 0

(* A write that fails leaves its number unused.                            *)
Write ==
    /\ value' \in Nat /\ value' > value
    /\ UNCHANGED <<durable, answer>>

Read ==
    /\ answer' = value
    /\ UNCHANGED <<value, durable>>

Persist ==
    /\ durable' = value
    /\ UNCHANGED <<value, answer>>

PowerFailure ==
    /\ value' = durable
    /\ answer' = 0
    /\ UNCHANGED durable

Next == Write \/ Read \/ Persist \/ PowerFailure

Spec == Init /\ [][Next]_vars

=============================================================================
