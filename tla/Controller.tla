------------------------------- MODULE Controller -------------------------------
(***************************************************************************)
(* A run of scripts/runpod_ci.py (Session) with the record it keeps of     *)
(* itself in state.json (StateFile): the intent before it asks for a Pod,  *)
(* the Pod's identifier before it waits for it, and the deletion.  A       *)
(* write that fails is an error of the run.  The process may be killed or  *)
(* lose power at any step; a cleanup then works from what the file says.   *)
(***************************************************************************)
EXTENDS Session, Sequences

CONSTANT MaxWrites

VARIABLES
    calls, at, cached, stored, entry, onDisk, temps, opened,    \* of StateFile
    phases      \* the phase that each write records

File == INSTANCE StateFile
fileVars == <<calls, at, cached, stored, entry, onDisk, temps, opened, phases>>
controllerVars == <<vars, fileVars>>

PhaseOf(f) == IF f = 0 THEN "none" ELSE phases[f]
Recorded == PhaseOf(entry)
Attempted(phase) == calls > 0 /\ phases[calls] = phase

ControllerInit == Init /\ File!Init /\ phases = <<>>

-----------------------------------------------------------------------------
(* Steps of the file.                                                      *)

Write(phase) ==
    /\ File!Open
    /\ phases' = Append(phases, phase)

(* In cleanup, the file is read first.                                     *)
WriteRecord ==
    /\ UNCHANGED vars
    /\ \/ stage = "prepare" /\ ~Attempted("intent") /\ Write("intent")
       \/ stage = "create" /\ ~Attempted("created") /\ Write("created")
       \/ stage = "cleanup" /\ ~Attempted("deleted") /\ opened # 0 /\ Write("deleted")

(* The cleanup of the always() step reads it too, after the run is over.   *)
FileStep ==
    /\ \/ stage # "over" /\ (File!Flush \/ File!Sync \/ File!Replace \/ File!Fail \/ File!WriteBack)
       \/ stage \in {"cleanup", "over"} /\ at = "idle" /\ File!Read
    /\ UNCHANGED <<vars, phases>>

-----------------------------------------------------------------------------
(* Steps of the run, which waits for its writes.                           *)

(* Mutant: a failed write of the intent is not an error. *)
RunPrepareRegardless ==
    /\ Prepare
    /\ stage' = "create" => Attempted("intent")

RunPrepare ==
    /\ Prepare
    /\ stage' = "create" => Recorded = "intent"

RunCreate ==
    /\ Create
    /\ stage' = "ssh" => Recorded = "created"

RunCleanup ==
    /\ Cleanup
    /\ opened # 0
    /\ outcome' = "success" => Recorded = "deleted"

RunStep ==
    /\ at = "idle"
    /\ \/ Quote \/ RunPrepare \/ RunCreate
       \/ \E price \in {"none", "within", "above"} : Look(price)
       \/ Upload \/ StreamEnds \/ DeadlineEnds \/ Collect \/ Extract \/ Extracted \/ RunCleanup
       \/ Tick \/ Terminate \/ WorkEnds \/ LoseLink
    /\ UNCHANGED fileVars

(* The end of the process, or of the machine, between any two steps.       *)
RunDies ==
    /\ stage # "over"
    /\ Goto("over") /\ outcome' = "failure"
    /\ \/ File!Kill
       \/ at = "idle" /\ UNCHANGED <<calls, at, cached, stored, entry, onDisk, temps, opened>>
       \/ File!PowerFailure
    /\ UNCHANGED <<phases, times, priced, checks, evidence, failed>>

ControllerNext == WriteRecord \/ FileStep \/ RunStep \/ RunDies

ControllerSpec == ControllerInit /\ [][ControllerNext]_controllerVars

-----------------------------------------------------------------------------
(* Properties.                                                             *)

(* Whatever fails, is killed or loses power between two steps of a write,  *)
(* state.json is an atomic register: a cleanup reads a whole record.       *)
ImplementsRegister == File!ImplementsRegister

(* The record never lags behind what would need it: no Pod is asked for    *)
(* without an intent on file, none is waited for or used while its         *)
(* identifier is not, and no run succeeds without its deletion on file.    *)
RecordCoversRun ==
    /\ stage \notin {"capacity", "prepare", "over"} => Recorded # "none"
    /\ until # 0 /\ stage # "over" => Recorded \in {"created", "deleted"}
    /\ outcome = "success" => Recorded = "deleted"

=============================================================================
