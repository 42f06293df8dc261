-------------------------- MODULE Controller_proofs --------------------------
(***************************************************************************)
(* What holds of the session and of the state file holds of a run that     *)
(* keeps its record, dies at any step and loses power; and the record      *)
(* covers the run.  For all timeouts, results and numbers of writes.       *)
(***************************************************************************)
EXTENDS Controller, TLAPS

-----------------------------------------------------------------------------
(* The session by itself (Session).                                        *)

(* How late each stage may still be reached.                               *)
ClockInv ==
    LET wait == Least(Timeout, CapacityWait)
    IN  /\ stage = "capacity" => clock <= wait
        /\ stage = "prepare" => clock <= wait + ApiTime
        /\ stage = "create" => clock <= wait + ApiTime + PrepareTime
        /\ stage = "ssh" => /\ until <= Timeout
                            /\ clock <= Greatest(Created, Timeout + ApiTime + ConnectTime + Pause)
        /\ stage = "upload" => clock <= Timeout + ApiTime + ConnectTime
        /\ stage = "stream" => clock <= Timeout + PollTime
        /\ stage = "collect" =>
               clock <= Greatest(Timeout + ApiTime + ConnectTime + UploadTime, Timeout + PollTime)
        /\ stage \in {"extract", "cleanup"} => clock <= Latest

(* The checks start on a priced Pod and their SIGTERM is set for a time    *)
(* ahead of the deadline; what that cuts off has failed.                   *)
WorkInv ==
    /\ stage \in {"capacity", "prepare", "create", "ssh", "upload"} => work = "none"
    /\ stage = "upload" \/ work # "none" => priced
    /\ stage = "stream" => work # "none"
    /\ work # "none" => stopAt + Early <= Timeout + StartDelay
    /\ cut => /\ stage \in {"collect", "extract", "cleanup", "over"}
              /\ work # "none" /\ Timeout <= clock
              /\ failed

(* Without an error so far, what is left to extract and what is extracted  *)
(* are all the results of checks that passed.                              *)
ResultInv ==
    /\ outcome # "none" => stage = "over"
    /\ outcome = "success" => ~failed
    /\ stage \in {"collect", "extract", "cleanup", "over"} /\ ~failed /\ outcome # "failure" =>
           work = "passed"
    /\ stage = "extract" /\ ~failed => left \cup local = remote
    /\ stage \in {"cleanup", "over"} /\ ~failed /\ outcome # "failure" => local = remote
    /\ stage \notin {"extract", "cleanup", "over"} => local = {}
    /\ local \cap Unsafe = {}

SessionInv == TypeOK /\ ClockInv /\ WorkInv /\ ResultInv

LEMMA SessionInit == Init => SessionInv
<1> USE TimesAssumption, ResultsAssumption
<1> SUFFICES ASSUME Init PROVE SessionInv
  OBVIOUS
<1>1. TypeOK
  <2>1. clock \in Nat /\ until \in Nat /\ priceUntil \in Nat /\ stopAt \in Int
    BY DEF Init
  <2>2. remote \subseteq Results /\ left \subseteq Results /\ local \subseteq Results
    BY DEF Init
  <2>3. priced \in BOOLEAN /\ cut \in BOOLEAN /\ failed \in BOOLEAN
    BY DEF Init
  <2> QED
    BY <2>1, <2>2, <2>3 DEF Init, TypeOK
<1>2. ClockInv
  BY DEF Init, ClockInv, Least
<1>3. WorkInv
  BY DEF Init, WorkInv
<1>4. ResultInv
  BY DEF Init, ResultInv
<1> QED
  BY <1>1, <1>2, <1>3, <1>4 DEF SessionInv

(* The clock part of a step. *)
LEMMA ClockStep ==
    ASSUME SessionInv, Next
    PROVE  ClockInv' /\ clock' \in Nat /\ until' \in Nat /\ priceUntil' \in Nat
<1> USE TimesAssumption, ResultsAssumption
    DEF SessionInv, TypeOK, ClockInv, Least, Greatest, times, Goto, Elapse
<1>1. CASE Quote
  BY <1>1 DEF Quote, WaitUntil, GiveUp
<1>2. CASE Prepare
  BY <1>2 DEF Prepare, GiveUp
<1>3. CASE Create
  BY <1>3 DEF Create, CleanUp, SshDeadline, Created, Probed, Latest
<1>4. ASSUME NEW price \in {"none", "within", "above"}, Look(price)
      PROVE  ClockInv' /\ clock' \in Nat /\ until' \in Nat /\ priceUntil' \in Nat
  BY <1>4 DEF Look, CleanUp, Created, Probed, Latest
<1>5. CASE Upload
  BY <1>5 DEF Upload, Collecting
<1>6. CASE StreamEnds \/ DeadlineEnds \/ Tick
  BY <1>6 DEF StreamEnds, DeadlineEnds, Collecting, Tick
<1>7. CASE Collect
  BY <1>7 DEF Collect, Created, Probed, Latest
<1>8. CASE Extract \/ Extracted \/ Cleanup \/ Terminate \/ WorkEnds \/ LoseLink
  BY <1>8 DEF Extract, Extracted, Cleanup, Terminate, WorkEnds, LoseLink
<1> QED
  BY <1>1, <1>2, <1>3, <1>4, <1>5, <1>6, <1>7, <1>8 DEF Next

(* The rest of the types. *)
LEMMA TypeStep == ASSUME SessionInv, Next PROVE TypeOK'
<1> USE TimesAssumption, ResultsAssumption
    DEF SessionInv, TypeOK, times, checks, evidence, Goto
<1>0. clock' \in Nat /\ until' \in Nat /\ priceUntil' \in Nat
  BY ClockStep
<1>1. CASE Quote \/ Prepare \/ Create
  BY <1>0, <1>1 DEF Quote, Prepare, Create, GiveUp, CleanUp
<1>2. ASSUME NEW price \in {"none", "within", "above"}, Look(price) PROVE TypeOK'
  BY <1>0, <1>2 DEF Look, CleanUp
<1>3. CASE Upload
  <2>1. stopAt' \in Int
    BY <1>0, <1>3 DEF Upload, RemoteTimeout
  <2>2. work' \in {"none", "running", "stopping", "passed", "failed"} /\ stage' \in {"stream", "collect"}
    BY <1>3 DEF Upload, Collecting
  <2>3. failed' \in BOOLEAN
    BY <1>3 DEF Upload, Collecting
  <2> QED
    BY <1>0, <1>3, <2>1, <2>2, <2>3 DEF Upload
<1>4. CASE StreamEnds \/ DeadlineEnds \/ Tick \/ LoseLink
  <2>1. cut' \in BOOLEAN
    <3>1. CASE DeadlineEnds
      <4>1. cut' = AtWork
        BY <3>1 DEF DeadlineEnds
      <4>2. AtWork \in BOOLEAN
        BY DEF AtWork
      <4> QED
        BY <4>1, <4>2
    <3> QED
      BY <1>4, <3>1 DEF StreamEnds, Tick, LoseLink
  <2>2. failed' \in BOOLEAN
    BY <1>4 DEF StreamEnds, DeadlineEnds, Collecting, Tick, LoseLink
  <2>3. link' \in {"up", "lost"} /\ stage' \in {"stream", "collect"}
    BY <1>4 DEF StreamEnds, DeadlineEnds, Collecting, Tick, LoseLink
  <2>4. UNCHANGED <<priced, work, stopAt, remote, evidence, outcome>>
    BY <1>4 DEF StreamEnds, DeadlineEnds, Tick, LoseLink
  <2> QED
    BY <1>0, <2>1, <2>2, <2>3, <2>4
<1>5. CASE Terminate \/ WorkEnds
  BY <1>0, <1>5 DEF Terminate, WorkEnds
<1>6. CASE Collect \/ Extract \/ Extracted
  BY <1>0, <1>6 DEF Collect, Extract, Extracted
<1>7. CASE Cleanup
  <2>1. failed' \in BOOLEAN
    BY <1>7 DEF Cleanup
  <2>2. outcome' \in {"none", "success", "failure"}
    BY <1>7 DEF Cleanup
  <2> QED
    BY <1>0, <1>7, <2>1, <2>2 DEF Cleanup
<1> QED
  BY <1>1, <1>2, <1>3, <1>4, <1>5, <1>6, <1>7 DEF Next

(* The checks of a step. *)
LEMMA WorkStep == ASSUME SessionInv, Next PROVE WorkInv'
<1> USE TimesAssumption, ResultsAssumption
    DEF SessionInv, TypeOK, WorkInv, times, checks, evidence, Goto
<1>1. CASE Quote \/ Prepare \/ Create
  BY <1>1 DEF Quote, Prepare, Create, GiveUp, CleanUp
<1>2. ASSUME NEW price \in {"none", "within", "above"}, Look(price) PROVE WorkInv'
  BY <1>2 DEF Look, CleanUp, ValidPrice
<1>3. CASE Upload
  <2>1. clock' \in Nat
    BY ClockStep
  <2>2. CASE Timeout - clock' > Margin /\ stage' = "stream" /\ work' = "running"
    <3>1. PICK d \in 0 .. StartDelay : stopAt' = clock' + d + (Timeout - clock' - Early)
      BY <1>3, <2>2 DEF Upload, RemoteTimeout, Collecting
    <3>2. stopAt' + Early <= Timeout + StartDelay
      BY <2>1, <2>2, <3>1
    <3> QED
      BY <1>3, <2>1, <2>2, <3>2 DEF Upload
  <2>3. CASE Collecting /\ UNCHANGED work
    BY <1>3, <2>3 DEF Upload, Collecting
  <2> QED
    BY <1>3, <2>2, <2>3 DEF Upload
<1>4. CASE StreamEnds \/ DeadlineEnds \/ LoseLink
  BY <1>4 DEF StreamEnds, DeadlineEnds, Collecting, LoseLink, AtWork
<1>5. CASE Tick
  BY <1>5 DEF Tick
<1>6. CASE Terminate \/ WorkEnds
  BY <1>6 DEF Terminate, WorkEnds, AtWork
<1>7. CASE Collect \/ Extract \/ Extracted \/ Cleanup
  <2>1. /\ UNCHANGED checks /\ UNCHANGED priced
        /\ stage' \in {"extract", "cleanup", "over"}
        /\ failed => failed'
    BY <1>7 DEF Collect, Extract, Extracted, Cleanup
  <2>2. clock' \in Nat /\ clock <= clock'
    <3>1. CASE clock' \in clock .. clock + CollectTime
      BY <3>1
    <3>2. CASE clock' = clock
      BY <3>2
    <3>3. clock' \in clock .. clock + CollectTime \/ clock' = clock
      BY <1>7 DEF Collect, Elapse, Extract, Extracted, Cleanup
    <3> QED
      BY <3>1, <3>2, <3>3
  <2> QED
    BY <2>1, <2>2
<1> QED
  BY <1>1, <1>2, <1>3, <1>4, <1>5, <1>6, <1>7 DEF Next

(* The results of a step. *)
LEMMA ResultStep == ASSUME SessionInv, Next PROVE ResultInv'
<1> USE TimesAssumption, ResultsAssumption
    DEF SessionInv, TypeOK, WorkInv, ResultInv, times, checks, evidence, Goto
<1>1. CASE Quote \/ Prepare \/ Create
  BY <1>1 DEF Quote, Prepare, Create, GiveUp, CleanUp
<1>2. ASSUME NEW price \in {"none", "within", "above"}, Look(price) PROVE ResultInv'
  BY <1>2 DEF Look, CleanUp
<1>3. CASE Upload \/ StreamEnds \/ DeadlineEnds \/ Tick \/ LoseLink
  BY <1>3 DEF Upload, StreamEnds, DeadlineEnds, Collecting, Tick, LoseLink
<1>4. CASE Terminate \/ WorkEnds
  <2>1. AtWork /\ UNCHANGED <<stage, left, local, failed, outcome>>
    BY <1>4 DEF Terminate, WorkEnds, AtWork
  <2>2. stage \in {"collect", "extract", "cleanup", "over"} => failed \/ outcome = "failure"
    BY <2>1 DEF AtWork
  <2>3. stage = "extract" => failed
    BY <2>1, <2>2
  <2> QED
    BY <2>1, <2>2, <2>3
<1>5. CASE Collect
  BY <1>5 DEF Collect
<1>6. CASE Extract
  BY <1>6 DEF Extract
<1>7. CASE Extracted
  BY <1>7 DEF Extracted
<1>8. CASE Cleanup
  <2>1. UNCHANGED <<work, local, remote>> /\ stage = "cleanup" /\ stage' = "over"
    BY <1>8 DEF Cleanup
  <2>2. \/ ~failed /\ ~failed' /\ outcome' = "success"
        \/ failed' /\ outcome' = "failure"
    BY <1>8 DEF Cleanup
  <2> QED
    BY <2>1, <2>2
<1> QED
  BY <1>1, <1>2, <1>3, <1>4, <1>5, <1>6, <1>7, <1>8 DEF Next

LEMMA SessionNext == SessionInv /\ [Next]_vars => SessionInv'
<1> SUFFICES ASSUME SessionInv, [Next]_vars PROVE SessionInv'
  OBVIOUS
<1>1. CASE Next
  BY <1>1, ClockStep, TypeStep, WorkStep, ResultStep DEF SessionInv
<1>2. CASE UNCHANGED vars
  BY <1>2 DEF vars, times, checks, evidence, SessionInv, TypeOK, ClockInv, WorkInv, ResultInv
<1> QED
  BY <1>1, <1>2

-----------------------------------------------------------------------------
(* The state file by itself (StateFile): it is an atomic register.         *)

(* A file is whole in the cache before the disk has it, and on the disk    *)
(* before it is state.json: that is what the order of the steps buys.      *)
WholeInv ==
    /\ stored \subseteq cached
    /\ entry \in stored \cup {0}
    /\ onDisk \in stored \cup {0}
    /\ opened \in stored \cup {0}
    /\ at \in {"flushed", "synced"} => calls \in cached
    /\ at = "synced" => calls \in stored

(* The file being written is newer than any that is state.json.            *)
OrderInv ==
    /\ at # "idle" => entry < calls /\ calls \in File!Files
    /\ entry <= calls /\ onDisk <= calls

FileInv == File!TypeOK /\ WholeInv /\ OrderInv

LEMMA FileInit == File!Init => FileInv
BY DEF File!Init, FileInv, File!TypeOK, File!Files, WholeInv, OrderInv

LEMMA FileStepInv == FileInv /\ [File!Next]_(File!vars) => FileInv'
<1> SUFFICES ASSUME FileInv, [File!Next]_(File!vars) PROVE FileInv'
  OBVIOUS
<1> USE DEF FileInv, File!TypeOK, File!Files, WholeInv, OrderInv
<1>1. CASE File!Open
  BY <1>1 DEF File!Open
<1>2. CASE File!Flush
  BY <1>2 DEF File!Flush
<1>3. CASE File!Sync
  BY <1>3 DEF File!Sync
<1>4. CASE File!Replace
  BY <1>4 DEF File!Replace
<1>5. CASE File!Fail \/ File!Kill \/ File!Read
  BY <1>5 DEF File!Fail, File!Kill, File!Read, File!files
<1>6. CASE File!WriteBack
  <2>1. CASE UNCHANGED stored
    BY <1>6, <2>1 DEF File!WriteBack
  <2>2. CASE stored' \in {stored \cup {f} : f \in cached} /\ UNCHANGED onDisk
    <3>1. PICK f \in cached : stored' = stored \cup {f}
      BY <2>2
    <3> QED
      BY <1>6, <2>2, <3>1 DEF File!WriteBack
  <2> QED
    BY <1>6, <2>1, <2>2 DEF File!WriteBack
<1>7. CASE File!PowerFailure
  BY <1>7 DEF File!PowerFailure
<1>8. CASE UNCHANGED File!vars
  BY <1>8 DEF File!vars, File!files
<1> QED
  BY <1>1, <1>2, <1>3, <1>4, <1>5, <1>6, <1>7, <1>8 DEF File!Next

(* Nothing that is state.json, or was when it was opened, is torn. *)
LEMMA NeverTorn ==
    ASSUME FileInv
    PROVE  /\ File!Contents(entry, cached) = entry
           /\ File!Contents(onDisk, stored) = onDisk
           /\ File!Contents(opened, cached) = opened
BY DEF FileInv, WholeInv, File!Contents

(* Every step of the files is one of the register, or invisible to it. *)
LEMMA RegisterStep ==
    ASSUME FileInv, FileInv', [File!Next]_(File!vars)
    PROVE  [File!Register!Next]_(File!Register!vars)
<1>1. /\ File!Contents(entry, cached) = entry /\ File!Contents(entry, cached)' = entry'
      /\ File!Contents(onDisk, stored) = onDisk /\ File!Contents(onDisk, stored)' = onDisk'
      /\ File!Contents(opened, cached) = opened /\ File!Contents(opened, cached)' = opened'
  BY NeverTorn DEF FileInv, WholeInv, File!Contents
<1>2. \/ UNCHANGED <<entry, onDisk, opened>>
      \/ entry' \in Nat /\ entry' > entry /\ UNCHANGED <<onDisk, opened>>
      \/ opened' = entry /\ UNCHANGED <<entry, onDisk>>
      \/ onDisk' = entry /\ UNCHANGED <<entry, opened>>
      \/ entry' = onDisk /\ opened' = 0 /\ onDisk' = onDisk
  <2>1. CASE File!Replace
    BY <2>1 DEF File!Replace, FileInv, File!TypeOK, File!Files, OrderInv
  <2> QED
    BY <2>1 DEF File!Next, File!Open, File!Flush, File!Sync, File!Fail, File!Kill, File!Read,
                File!WriteBack, File!PowerFailure, File!vars, File!files
<1> QED
  BY <1>1, <1>2 DEF File!Register!Next, File!Register!vars, File!Register!Write, File!Register!Read,
        File!Register!Persist, File!Register!PowerFailure

-----------------------------------------------------------------------------
(* A run and its record.                                                   *)

(***************************************************************************)
(* The first write is the intent, later ones are of a Pod.  No write       *)
(* precedes the stage that asks for it, and none is undone while the run   *)
(* lives.                                                                  *)
(***************************************************************************)
RecordInv ==
    /\ phases \in Seq({"intent", "created", "deleted"}) /\ Len(phases) = calls
    /\ calls # 0 => phases[1] = "intent"
    /\ \A i \in 2 .. calls : phases[i] \in {"created", "deleted"}
    /\ stage = "capacity" => calls = 0
    /\ stage = "prepare" => calls <= 1
    /\ stage \notin {"capacity", "prepare", "over"} => entry # 0
    /\ stage \in {"capacity", "prepare", "create"} => until = 0
    /\ until # 0 /\ stage # "over" => entry >= 2
    /\ outcome = "success" => stage = "over" /\ Recorded = "deleted"

ControllerInv == SessionInv /\ FileInv /\ RecordInv

-----------------------------------------------------------------------------
(* The state file within the controller.                                   *)

(* A step of the controller is one of the files, or none of theirs.        *)
LEMMA FileNext == [ControllerNext]_controllerVars => [File!Next]_(File!vars)
<1> SUFFICES ASSUME [ControllerNext]_controllerVars PROVE [File!Next]_(File!vars)
  OBVIOUS
<1> USE DEF File!Next, File!vars, File!files
<1>1. CASE WriteRecord
  BY <1>1 DEF WriteRecord, Write
<1>2. CASE FileStep
  BY <1>2 DEF FileStep
<1>3. CASE RunStep
  BY <1>3 DEF RunStep, fileVars
<1>4. CASE RunDies
  BY <1>4 DEF RunDies
<1>5. CASE UNCHANGED controllerVars
  BY <1>5 DEF controllerVars, fileVars
<1> QED
  BY <1>1, <1>2, <1>3, <1>4, <1>5 DEF ControllerNext

-----------------------------------------------------------------------------
(* The session within the controller.                                      *)

(* A run that dies ends as a failure; the checks may go on on the Pod.     *)
LEMMA DiesInv == ASSUME SessionInv, RunDies PROVE SessionInv'
<1>1. /\ stage' = "over" /\ outcome' = "failure"
      /\ UNCHANGED <<clock, until, priceUntil, priced, work, stopAt, link, cut, remote,
                     left, local, failed>>
  BY DEF RunDies, Goto, times, checks, evidence
<1>2. TypeOK'
  BY <1>1 DEF SessionInv, TypeOK
<1>3. ClockInv'
  BY <1>1 DEF SessionInv, ClockInv
<1>4. WorkInv'
  BY <1>1 DEF SessionInv, WorkInv
<1>5. ResultInv'
  BY <1>1 DEF SessionInv, ResultInv
<1> QED
  BY <1>2, <1>3, <1>4, <1>5 DEF SessionInv

LEMMA SessionStep == ASSUME RunStep PROVE Next
BY DEF RunStep, Next, RunPrepare, RunCreate, RunCleanup

LEMMA SessionKept == SessionInv /\ [ControllerNext]_controllerVars => SessionInv'
<1> SUFFICES ASSUME SessionInv, [ControllerNext]_controllerVars PROVE SessionInv'
  OBVIOUS
<1>1. CASE WriteRecord \/ FileStep \/ UNCHANGED controllerVars
  <2>1. UNCHANGED vars
    BY <1>1 DEF WriteRecord, FileStep, controllerVars
  <2> QED
    BY <2>1, SessionNext
<1>2. CASE RunStep
  BY <1>2, SessionStep, SessionNext
<1>3. CASE RunDies
  BY <1>3, DiesInv
<1> QED
  BY <1>1, <1>2, <1>3 DEF ControllerNext

-----------------------------------------------------------------------------
(* The record.                                                             *)

(* What the state file gives: entry is a write that has begun. *)
LEMMA EntryRange ==
    ASSUME FileInv
    PROVE  /\ calls \in Nat /\ entry \in 0 .. calls
           /\ at # "idle" => calls > 0
BY DEF FileInv, File!TypeOK, OrderInv, File!Files

LEMMA RecordInit == ControllerInit => RecordInv
BY DEF ControllerInit, RecordInv, Init, File!Init

(* A new write records the phase that is due. *)
LEMMA RecordWritten ==
    ASSUME ControllerInv, WriteRecord
    PROVE  RecordInv'
<1> USE DEF ControllerInv, RecordInv
<1>0. calls \in Nat /\ entry \in 0 .. calls
  BY EntryRange
<1>1. PICK phase \in {"intent", "created", "deleted"} :
        /\ Write(phase)
        /\ UNCHANGED vars
        /\ phase = "intent" => stage = "prepare" /\ ~Attempted("intent")
        /\ phase # "intent" => stage \in {"create", "cleanup"}
  BY DEF WriteRecord
<1>2. /\ calls' = calls + 1 /\ phases' = Append(phases, phase)
      /\ UNCHANGED <<entry, stage, until, outcome>>
  BY <1>1 DEF Write, File!Open, vars, times
<1>3. IF phase = "intent" THEN calls = 0 ELSE calls # 0
  BY <1>0, <1>1 DEF Attempted
<1>4. /\ phases' \in Seq({"intent", "created", "deleted"}) /\ Len(phases') = calls'
      /\ \A i \in 1 .. calls : phases'[i] = phases[i]
      /\ phases'[calls'] = phase
  BY <1>0, <1>2
<1>5. calls' # 0 => phases'[1] = "intent"
  BY <1>0, <1>2, <1>3, <1>4
<1>6. \A i \in 2 .. calls' : phases'[i] \in {"created", "deleted"}
  <2> SUFFICES ASSUME NEW i \in 2 .. calls' PROVE phases'[i] \in {"created", "deleted"}
    OBVIOUS
  <2>1. CASE i = calls'
    BY <1>0, <1>2, <1>3, <1>4, <2>1
  <2>2. CASE i # calls'
    BY <1>0, <1>2, <1>4, <2>2
  <2> QED
    BY <2>1, <2>2
<1>7. /\ stage' # "capacity" /\ stage' # "over"
      /\ stage' = "prepare" => calls' <= 1
      /\ stage' \notin {"capacity", "prepare", "over"} => entry' # 0
  BY <1>0, <1>1, <1>2, <1>3
<1>8. outcome' # "success"
  BY <1>2, <1>7
<1> QED
  BY <1>2, <1>4, <1>5, <1>6, <1>7, <1>8

(* A step of the files never takes a record back while the run lives. *)
LEMMA RecordFiled ==
    ASSUME ControllerInv, FileStep
    PROVE  RecordInv'
<1> USE DEF ControllerInv, RecordInv
<1>1. calls \in Nat /\ entry \in 0 .. calls /\ (at # "idle" => calls > 0)
  BY EntryRange
<1>2. UNCHANGED <<stage, until, outcome, phases, calls>>
  BY DEF FileStep, vars, times, File!Flush, File!Sync, File!Replace, File!Fail, File!WriteBack,
         File!Read
<1>3. entry' = entry \/ (entry' = calls /\ calls > 0 /\ stage # "over")
  BY <1>1 DEF FileStep, File!Flush, File!Sync, File!Replace, File!Fail, File!WriteBack, File!Read,
              File!files
<1>4. outcome' = "success" => Recorded' = "deleted"
  BY <1>2, <1>3 DEF Recorded, PhaseOf
<1> QED
  BY <1>1, <1>2, <1>3, <1>4

(* The run goes on only past the records that it needs. *)
LEMMA RecordUsed ==
    ASSUME ControllerInv, RunStep
    PROVE  RecordInv'
<1> USE DEF ControllerInv, RecordInv, Goto, times, checks, evidence
<1>1. calls \in Nat /\ entry \in 0 .. calls
  BY EntryRange
<1>2. UNCHANGED <<calls, entry, phases>> /\ Recorded' = Recorded
  BY DEF RunStep, fileVars, Recorded, PhaseOf
<1>3. CASE Quote
  BY <1>1, <1>2, <1>3 DEF Quote, GiveUp
<1>4. CASE RunPrepare
  BY <1>1, <1>2, <1>4 DEF RunPrepare, Prepare, GiveUp, Recorded, PhaseOf
<1>5. CASE RunCreate
  <2>1. Recorded = "created" => entry >= 2
    BY <1>1 DEF Recorded, PhaseOf
  <2> QED
    BY <1>1, <1>2, <1>5, <2>1 DEF RunCreate, Create, CleanUp
<1>6. ASSUME NEW price \in {"none", "within", "above"}, Look(price) PROVE RecordInv'
  BY <1>1, <1>2, <1>6 DEF Look, CleanUp
<1>7. CASE Upload \/ StreamEnds \/ DeadlineEnds \/ Tick \/ Terminate \/ WorkEnds \/ LoseLink
  BY <1>1, <1>2, <1>7
     DEF Upload, StreamEnds, DeadlineEnds, Tick, Terminate, WorkEnds, LoseLink, Collecting
<1>8. CASE Collect \/ Extract \/ Extracted
  BY <1>1, <1>2, <1>8 DEF Collect, Extract, Extracted
<1>9. CASE RunCleanup
  BY <1>1, <1>2, <1>9 DEF RunCleanup, Cleanup
<1> QED
  BY <1>3, <1>4, <1>5, <1>6, <1>7, <1>8, <1>9 DEF RunStep

(* The invariant of the record and of both parts. *)
LEMMA ControllerNextInv ==
    ControllerInv /\ [ControllerNext]_controllerVars => ControllerInv'
<1> SUFFICES ASSUME ControllerInv, [ControllerNext]_controllerVars PROVE ControllerInv'
  OBVIOUS
<1>1. SessionInv' /\ FileInv'
  BY SessionKept, FileNext, FileStepInv DEF ControllerInv
<1>2. RecordInv'
  <2>1. CASE WriteRecord
    BY <2>1, RecordWritten
  <2>2. CASE FileStep
    BY <2>2, RecordFiled
  <2>3. CASE RunStep
    BY <2>3, RecordUsed
  <2>4. CASE RunDies
    <3>1. /\ stage' = "over" /\ outcome' = "failure"
          /\ UNCHANGED <<calls, phases, until>>
      BY <2>4 DEF RunDies, Goto, times, File!Kill, File!PowerFailure
    <3> QED
      BY <3>1 DEF ControllerInv, RecordInv
  <2>5. CASE UNCHANGED controllerVars
    BY <2>5 DEF controllerVars, fileVars, vars, times, ControllerInv, RecordInv, Recorded, PhaseOf
  <2> QED
    BY <2>1, <2>2, <2>3, <2>4, <2>5 DEF ControllerNext
<1> QED
  BY <1>1, <1>2 DEF ControllerInv

(* The inductive invariant of a run with its record: both parts keep their *)
(* own, and the record covers the run. *)
THEOREM ControllerInductive == ControllerSpec => []ControllerInv
<1>1. ControllerInit => ControllerInv
  BY SessionInit, FileInit, RecordInit DEF ControllerInit, ControllerInv
<1> QED
  BY <1>1, ControllerNextInv, PTL DEF ControllerSpec

-----------------------------------------------------------------------------
(* The theorems.                                                           *)

(* A run that may die at any step asks for no Pod without an intent on     *)
(* file, waits for none without its identifier there, and succeeds only    *)
(* with its deletion there. *)
THEOREM RecordCovers == ControllerSpec => []RecordCoversRun
<1>1. ControllerInv => RecordCoversRun
  <2> SUFFICES ASSUME ControllerInv PROVE RecordCoversRun
    OBVIOUS
  <2>1. calls \in Nat /\ entry \in 0 .. calls
    BY EntryRange DEF ControllerInv
  <2>2. entry # 0 => Recorded \in {"intent", "created", "deleted"}
    BY <2>1 DEF ControllerInv, RecordInv, Recorded, PhaseOf
  <2>3. entry >= 2 => Recorded \in {"created", "deleted"}
    BY <2>1 DEF ControllerInv, RecordInv, Recorded, PhaseOf
  <2> QED
    BY <2>1, <2>2, <2>3 DEF ControllerInv, RecordInv, RecordCoversRun
<1> QED
  BY <1>1, ControllerInductive, PTL

(* The deletion of the Pod starts in time, also with failing writes.       *)
THEOREM RunCleansUpInTime == ControllerSpec => []CleanupInTime
<1>1. ControllerInv => CleanupInTime
  BY DEF ControllerInv, SessionInv, ClockInv, CleanupInTime
<1> QED
  BY <1>1, ControllerInductive, PTL

(* The checks run on a priced Pod only, also in a run that dies beside     *)
(* them. *)
THEOREM RunChecksPriced == ControllerSpec => []ChecksOnPricedPod
<1>1. ControllerInv => ChecksOnPricedPod
  BY DEF ControllerInv, SessionInv, WorkInv, ChecksOnPricedPod
<1> QED
  BY <1>1, ControllerInductive, PTL

(* However long the connection takes and the checks go on after SIGTERM:   *)
(* those that the deadline cuts off had it in advance, and fail the run.   *)
THEOREM RunForewarnsChecks == ControllerSpec => []CutChecksForewarned
<1>1. ControllerInv => CutChecksForewarned
  BY TimesAssumption
     DEF ControllerInv, SessionInv, TypeOK, WorkInv, ResultInv, CutChecksForewarned
<1> QED
  BY <1>1, ControllerInductive, PTL

(* A run that succeeds has all results of checks that passed; one that     *)
(* dies does not succeed. *)
THEOREM RunSuccessHasEvidence == ControllerSpec => []SuccessMeansEvidence
<1>1. ControllerInv => SuccessMeansEvidence
  BY DEF ControllerInv, SessionInv, ResultInv, SuccessMeansEvidence
<1> QED
  BY <1>1, ControllerInductive, PTL

(* The state file of a run is an atomic register, whatever becomes of the  *)
(* run and of the machine it is on. *)
THEOREM RunKeepsRegister == ControllerSpec => ImplementsRegister
<1>1. ControllerInit => File!Register!Init
  BY DEF ControllerInit, File!Init, File!Register!Init, File!Contents
<1>2. ControllerInv /\ ControllerInv' /\ [ControllerNext]_controllerVars =>
          [File!Register!Next]_(File!Register!vars)
  BY FileNext, RegisterStep DEF ControllerInv
<1> QED
  BY <1>1, <1>2, ControllerInductive, PTL
     DEF ControllerSpec, ImplementsRegister, File!ImplementsRegister, File!Register!Spec

=============================================================================
