------------------------------ MODULE StateFile ------------------------------
(***************************************************************************)
(* write_state and read_state of scripts/runpod_ci.py over a file system   *)
(* that caches: a write goes to a temporary file, which replaces           *)
(* state.json.  The writer may fail or be killed between any two steps, a  *)
(* cleanup in another process may read meanwhile, and power may fail.      *)
(***************************************************************************)
EXTENDS Integers

CONSTANT MaxWrites      \* bound on calls of write_state

Files == Nat \ {0}          \* the temporary file of each write; 0 is no file

VARIABLES
    calls,      \* calls of write_state so far
    at,         \* where the current one is: "idle", "opened", "flushed", "synced"
    cached,     \* files whose whole contents the system has
    stored,     \* files whose whole contents the disk has
    entry,      \* the file that is state.json
    onDisk,     \* the same, on the disk
    temps,      \* temporary names left
    opened      \* the file the reader has open, 0 if it found none

files == <<cached, stored, entry, onDisk, temps>>
vars == <<calls, at, files, opened>>

Init ==
    /\ calls = 0 /\ at = "idle"
    /\ cached = {} /\ stored = {}
    /\ entry = 0 /\ onDisk = 0
    /\ temps = {} /\ opened = 0

-----------------------------------------------------------------------------
(* write_state.                                                            *)

Open ==
    /\ at = "idle" /\ calls < MaxWrites
    /\ calls' = calls + 1
    /\ at' = "opened"
    /\ temps' = temps \cup {calls'}
    /\ UNCHANGED <<cached, stored, entry, onDisk, opened>>

Flush ==
    /\ at = "opened"
    /\ at' = "flushed"
    /\ cached' = cached \cup {calls}
    /\ UNCHANGED <<calls, stored, entry, onDisk, temps, opened>>

(* Mutant: flushed contents are not forced to the disk. *)
SyncSkipped ==
    /\ at = "flushed"
    /\ at' = "synced"
    /\ UNCHANGED <<calls, files, opened>>

Sync ==
    /\ at = "flushed"
    /\ at' = "synced"
    /\ stored' = stored \cup {calls}
    /\ UNCHANGED <<calls, cached, entry, onDisk, temps, opened>>

(* os.replace; the finally block then finds no temporary name.             *)
Replace ==
    /\ at = "synced"
    /\ at' = "idle"
    /\ entry' = calls
    /\ temps' = temps \ {calls}
    /\ UNCHANGED <<calls, cached, stored, onDisk, opened>>

(* An OSError, as of a full disk: the temporary file is unlinked.          *)
Fail ==
    /\ at # "idle"
    /\ at' = "idle"
    /\ temps' = temps \ {calls}
    /\ UNCHANGED <<calls, cached, stored, entry, onDisk, opened>>

Kill ==
    /\ at # "idle"
    /\ at' = "idle"
    /\ UNCHANGED <<calls, files, opened>>

-----------------------------------------------------------------------------
(* read_state, by a cleanup in another process.                            *)

Read ==
    /\ opened' = entry
    /\ UNCHANGED <<calls, at, files>>

-----------------------------------------------------------------------------
(* The system writes contents and names back when it likes.                *)

WriteBack ==
    /\ \/ stored' \in {stored \cup {f} : f \in cached} /\ UNCHANGED onDisk
       \/ onDisk' = entry /\ UNCHANGED stored
    /\ UNCHANGED <<calls, at, cached, entry, temps, opened>>

PowerFailure ==
    /\ at' = "idle" /\ opened' = 0
    /\ entry' = onDisk
    /\ cached' = stored
    /\ temps' \in SUBSET temps
    /\ UNCHANGED <<calls, stored, onDisk>>

Next ==
    \/ Open \/ Flush \/ Sync \/ Replace \/ Fail \/ Kill \/ Read
    \/ WriteBack \/ PowerFailure

Spec == Init /\ [][Next]_vars

-----------------------------------------------------------------------------
(* Properties.                                                             *)

(* Every variable has its type; a power failure takes back, never ahead.   *)
TypeOK ==
    /\ calls \in Nat
    /\ at \in {"idle", "opened", "flushed", "synced"}
    /\ cached \subseteq Files /\ stored \subseteq cached
    /\ {entry, onDisk, opened} \subseteq Files \cup {0}
    /\ temps \subseteq Files

(* What json.load makes of a file: a torn one is a ControllerError, which  *)
(* keeps cleanup from deleting anything.                                   *)
Torn == -1
Contents(f, whole) == IF f \in whole \cup {0} THEN f ELSE Torn

Register == INSTANCE StateRegister WITH
    value <- Contents(entry, cached),
    durable <- Contents(onDisk, stored),
    answer <- Contents(opened, cached)

(* Whatever fails, is killed or loses power between two steps of a write,  *)
(* state.json is an atomic register: a cleanup reads a whole record, the   *)
(* last one written unless power failed.                                   *)
ImplementsRegister == Register!Spec

=============================================================================
