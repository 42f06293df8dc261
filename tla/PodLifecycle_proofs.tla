------------------------- MODULE PodLifecycle_proofs -------------------------
(***************************************************************************)
(* Proofs about PodLifecycle for every number of attempts, every timeout   *)
(* below the reaping age and every set of foreign Pods.                    *)
(***************************************************************************)
EXTENDS PodLifecycle, TLAPS

(* The Pod has existed.                                                    *)
Appeared == pod[Own] \in {"present", "deleting", "gone"}

(* What holds of the run and its state file at each stage of the job.      *)
JobInv ==
    /\ stage \in {"start", "post"} => pod[Own] = "none" /\ ~file.id
    /\ stage \in {"start", "post", "recover"} => tries < RecoverAttempts
    /\ stage = "record" => Appeared
    /\ stage = "work" => file.id
    /\ stage \in {"collect", "cleanup"} /\ ~failed => file.id
    /\ file.id => Appeared
    /\ outcome # "none" => stage \in {"step", "ended"}
    /\ file.phase = "deleted" => stage \in {"step", "ended"}
    /\ stage # "ended" => clock <= JobTimeout

(* Which calls may be in progress at a stage, and what they start from.    *)
StageInv ==
    /\ call["job"].at # "idle" => stage \in {"cleanup", "step"}
    /\ call["job"].at # "idle" /\ file.id => Own \in call["job"].ids
    /\ call["recovery"].routine = "cleanup" => stage = "ended"

(***************************************************************************)
(* What a call has in hand is the run's own Pod, which has existed; and    *)
(* what it has dealt with, without an error, is gone.                      *)
(***************************************************************************)
Sound(r) ==
    /\ r.left \subseteq r.ids
    /\ r.ids \subseteq {Own}
    /\ Own \in r.ids => Appeared
    /\ Own \in r.ids \ r.left /\ ~r.failed => pod[Own] = "gone"
    /\ r.at \in {"get", "delete", "verify"} => r.current \in r.left
    /\ r.at # "idle" => r.routine # "none"

Safe == SuccessMeansGone /\ DeletedMeansGone /\ ForeignPodsSurvive /\ ActiveJobKeepsPod

IInv == TypeOK /\ JobInv /\ StageInv /\ (\A c \in Processes : Sound(call[c])) /\ Safe

-----------------------------------------------------------------------------
(* Records of calls. *)
USE DEF Processes

(* The records calls begin and end with. *)
LEMMA IdleType ==
    ASSUME NEW routine \in {"none", "cleanup", "reap"}, NEW ids \in SUBSET Pods
    PROVE  /\ Idle \in CallType
           /\ [Idle EXCEPT !.routine = routine, !.at = "list", !.ids = ids, !.left = ids] \in CallType
<1>1. 0 \in 0 .. DeleteAttempts - 1 /\ Own \in Pods /\ {} \in SUBSET Pods
  BY ConstantsAssumption DEF Pods
<1>2. Idle \in CallType
  BY <1>1 DEF CallType, Idle
<1>3. [Idle EXCEPT !.routine = routine, !.at = "list", !.ids = ids, !.left = ids] \in CallType
  BY <1>2 DEF CallType
<1> QED
  BY <1>2, <1>3

(* Setting one process's record leaves the others. *)
LEMMA SetCall ==
    ASSUME call \in [Processes -> CallType], NEW c \in Processes, NEW r \in CallType, Set(c, r)
    PROVE  /\ call' \in [Processes -> CallType]
           /\ call'[c] = r
           /\ \A d \in Processes : d # c => call'[d] = call[d]
BY DEF Set

(* The invariant holds initially. *)
LEMMA InitInv == Init => IInv
<1> SUFFICES ASSUME Init PROVE IInv
  OBVIOUS
<1> USE ConstantsAssumption, AgeAssumption
<1>1. call \in [Processes -> CallType] /\ \A c \in Processes : call[c] = Idle
  BY IdleType DEF Init
<1>2. TypeOK
  <2>1. pod \in [Pods -> {"none", "requested", "present", "deleting", "gone"}]
    BY DEF Init
  <2>2. clock \in 0 .. MaxClock /\ created \in 0 .. JobTimeout /\ tries \in 0 .. RecoverAttempts
    BY DEF Init
  <2>3. file \in [phase : {"none", "intent", "created", "deleted", "not_found"}, id : BOOLEAN]
    BY DEF Init
  <2>4. flaky \in BOOLEAN /\ failed \in BOOLEAN /\ handled \in BOOLEAN
    BY DEF Init
  <2> QED
    BY <1>1, <2>1, <2>2, <2>3, <2>4 DEF Init, TypeOK
<1>3. Idle.at = "idle" /\ Idle.routine = "none" /\ Idle.ids = {} /\ Idle.left = {}
  BY DEF Idle
<1>4. JobInv /\ StageInv
  BY <1>1, <1>3 DEF Init, JobInv, StageInv, Pods
<1>5. \A c \in Processes : Sound(call[c])
  BY <1>1, <1>3 DEF Sound
<1>6. Safe
  BY <1>1, <1>3 DEF Init, Safe, SuccessMeansGone, DeletedMeansGone, ForeignPodsSurvive,
                    ActiveJobKeepsPod, Pods
<1> QED
  BY <1>2, <1>4, <1>5, <1>6 DEF IInv

(***************************************************************************)
(* A step of a call keeps the invariant if the new record is sound, knows  *)
(* the recorded Pod, and does not take the Pod of a job in progress.       *)
(***************************************************************************)
LEMMA CallStep ==
    ASSUME IInv, NEW c \in Processes, NEW r \in CallType, Set(c, r),
           UNCHANGED <<flaky, clock, job>>, handled' \in BOOLEAN,
           pod' = pod \/ (Exists(Own) /\ pod' = [pod EXCEPT ![Own] = "deleting"]),
           Sound(r),
           c = "job" => r.at = "idle" \/ (stage \in {"cleanup", "step"} /\ (file.id => Own \in r.ids)),
           c = "recovery" /\ Own \in r.left => stage = "ended",
           c = "recovery" /\ r.routine = "cleanup" => stage = "ended"
    PROVE  IInv'
<1>1. /\ TypeOK /\ JobInv /\ StageInv /\ Safe
      /\ \A d \in Processes : Sound(call[d])
  BY DEF IInv
<1>2. /\ call' \in [Processes -> CallType]
      /\ call'[c] = r
      /\ \A d \in Processes : d # c => call'[d] = call[d]
  BY <1>1, SetCall DEF TypeOK
<1>3. /\ pod' \in [Pods -> {"none", "requested", "present", "deleting", "gone"}]
      /\ \A p \in Foreign : pod'[p] = pod[p]
      /\ pod'[Own] = pod[Own] \/ (Exists(Own) /\ pod'[Own] = "deleting")
  BY <1>1, ConstantsAssumption DEF TypeOK, Pods
<1>4. /\ Appeared => Appeared'
      /\ pod[Own] = "gone" => pod'[Own] = "gone"
      /\ pod[Own] = "none" => pod'[Own] = "none"
  BY <1>3 DEF Appeared, Exists
<1>5. TypeOK'
  BY <1>1, <1>2, <1>3 DEF TypeOK, job
<1>6. JobInv'
  BY <1>1, <1>4 DEF JobInv, job
<1>7. StageInv'
  BY <1>1, <1>2 DEF StageInv, job
<1>8. \A d \in Processes : Sound(call[d])'
  <2> SUFFICES ASSUME NEW d \in Processes PROVE Sound(call[d])'
    OBVIOUS
  <2>1. Sound(call'[d])
    BY <1>1, <1>2
  <2> QED
    BY <2>1, <1>4 DEF Sound
<1>9. Safe'
  BY <1>1, <1>2, <1>3, <1>4 DEF Safe, SuccessMeansGone, DeletedMeansGone, ForeignPodsSurvive,
                               ActiveJobKeepsPod, job
<1> QED
  BY <1>5, <1>6, <1>7, <1>8, <1>9 DEF IInv

-----------------------------------------------------------------------------
(* The steps of a call.                                                    *)

(* The listing finds the run's Pod at most, and the reaper never finds the *)
(* Pod of a job in progress: it is not old enough. *)
LEMMA ListInv == ASSUME IInv, NEW c \in Processes, List(c) PROVE IInv'
<1> USE ConstantsAssumption, AgeAssumption
<1> DEFINE found == IF call[c].routine = "reap" THEN Stale ELSE find_owned
           listed == [call[c] EXCEPT !.at = "next", !.ids = @ \cup found, !.left = @ \cup found]
           blind == [call[c] EXCEPT !.at = "next", !.blind = TRUE]
<1>1. /\ TypeOK /\ JobInv /\ StageInv /\ Safe
      /\ Sound(call[c]) /\ call[c] \in CallType /\ handled \in BOOLEAN
  BY DEF IInv, TypeOK
<1>2. /\ found \subseteq {Own}
      /\ Own \in found => Exists(Own)
      /\ Own \in found /\ call[c].routine = "reap" => clock >= created + ReapAge
  BY DEF Stale, find_owned, owned_pod
<1>3. call[c].at = "list"
  BY DEF List
<1>4. c = "recovery" /\ Own \in found => stage = "ended"
  <2> SUFFICES ASSUME c = "recovery", Own \in found, stage # "ended" PROVE FALSE
    OBVIOUS
  <2>1. call[c].routine = "reap"
    BY <1>1, <1>3 DEF StageInv, Sound, CallType
  <2> QED
    BY <1>1, <1>2, <2>1 DEF JobInv, TypeOK
<1>5. UNCHANGED <<pod, flaky, clock, job, handled>>
  BY DEF List, world
<1>6. CASE Set(c, listed)
  <2>1. /\ listed \in CallType
        /\ listed.at = "next" /\ listed.routine = call[c].routine /\ listed.failed = call[c].failed
        /\ listed.ids = call[c].ids \cup found /\ listed.left = call[c].left \cup found
    <3>1. found \in SUBSET Pods
      BY <1>2 DEF Pods
    <3> HIDE DEF found
    <3> QED
      BY <1>1, <3>1 DEF CallType
  <2> HIDE DEF listed, found
  <2>2. Sound(listed)
    BY <1>1, <1>2, <1>3, <2>1 DEF Sound, Appeared, Exists
  <2>3. c = "recovery" /\ Own \in listed.left => stage = "ended"
    BY <1>1, <1>4, <2>1 DEF Safe, ActiveJobKeepsPod
  <2>4. c = "job" => stage \in {"cleanup", "step"} /\ (file.id => Own \in listed.ids)
    BY <1>1, <1>3, <2>1 DEF StageInv
  <2>5. c = "recovery" /\ listed.routine = "cleanup" => stage = "ended"
    BY <1>1, <2>1 DEF StageInv
  <2> QED
    BY <1>1, <1>5, <1>6, <2>1, <2>2, <2>3, <2>4, <2>5, CallStep
<1>7. CASE Set(c, blind)
  <2>1. /\ blind \in CallType
        /\ blind.at = "next" /\ blind.routine = call[c].routine /\ blind.failed = call[c].failed
        /\ blind.ids = call[c].ids /\ blind.left = call[c].left
    BY <1>1 DEF CallType
  <2> HIDE DEF blind
  <2>2. Sound(blind)
    BY <1>1, <1>3, <2>1 DEF Sound
  <2> QED
    BY <1>1, <1>3, <1>5, <1>7, <2>1, <2>2, CallStep DEF StageInv, Safe, ActiveJobKeepsPod
<1> QED
  BY <1>6, <1>7 DEF List

(* The other steps of a call keep its routine and what it has found.       *)
LEMMA NarrowStep ==
    ASSUME IInv, NEW c \in Processes, NEW r \in CallType, Set(c, r),
           UNCHANGED <<flaky, clock, job, handled>>,
           pod' = pod \/ (Exists(Own) /\ pod' = [pod EXCEPT ![Own] = "deleting"]),
           call[c].at # "idle", Sound(r),
           r.routine = call[c].routine, r.ids = call[c].ids, r.left \subseteq call[c].left
    PROVE  IInv'
<1>1. StageInv /\ Safe /\ handled \in BOOLEAN
  BY DEF IInv, TypeOK
<1>2. c = "recovery" /\ Own \in r.left => stage = "ended"
  BY <1>1 DEF Safe, ActiveJobKeepsPod
<1> QED
  BY <1>1, <1>2, CallStep DEF StageInv

(* Going on with the Pod in hand. *)
LEMMA GotoInv ==
    ASSUME IInv, NEW c \in Processes, NEW at \in {"get", "delete", "verify"},
           NEW attempt \in 0 .. DeleteAttempts - 1,
           call[c].at \in {"get", "delete", "verify"},
           Set(c, [call[c] EXCEPT !.at = at]) \/ Set(c, [call[c] EXCEPT !.at = at, !.attempt = attempt]),
           UNCHANGED <<flaky, clock, job, handled>>,
           pod' = pod \/ (Exists(Own) /\ pod' = [pod EXCEPT ![Own] = "deleting"])
    PROVE  IInv'
<1>1. Sound(call[c]) /\ call[c] \in CallType
  BY DEF IInv, TypeOK
<1>2. PICK r : /\ Set(c, r)
               /\ r = [call[c] EXCEPT !.at = at] \/ r = [call[c] EXCEPT !.at = at, !.attempt = attempt]
  OBVIOUS
<1>3. /\ r \in CallType
      /\ r.at = at /\ r.routine = call[c].routine /\ r.failed = call[c].failed
      /\ r.ids = call[c].ids /\ r.left = call[c].left /\ r.current = call[c].current
  BY <1>1, <1>2 DEF CallType
<1>4. Sound(r)
  BY <1>1, <1>3 DEF Sound
<1> QED
  BY <1>1, <1>2, <1>3, <1>4, NarrowStep

(* Giving up on the Pod in hand. *)
LEMMA FailedInv ==
    ASSUME IInv, NEW c \in Processes, call[c].at \in {"get", "delete", "verify"}, Failed(c),
           UNCHANGED <<flaky, clock, job, handled>>,
           pod' = pod \/ (Exists(Own) /\ pod' = [pod EXCEPT ![Own] = "deleting"])
    PROVE  IInv'
<1>1. Sound(call[c]) /\ call[c] \in CallType
  BY DEF IInv, TypeOK
<1> DEFINE r == [call[c] EXCEPT !.at = "next", !.left = Dropped(c), !.failed = TRUE]
<1>2. Dropped(c) \in SUBSET Pods /\ Dropped(c) \subseteq call[c].left
  BY <1>1 DEF Dropped, CallType
<1>3. /\ r \in CallType
      /\ r.at = "next" /\ r.routine = call[c].routine /\ r.failed = TRUE
      /\ r.ids = call[c].ids /\ r.left = Dropped(c)
  BY <1>1, <1>2 DEF CallType
<1>4. Set(c, r)
  BY DEF Failed
<1> HIDE DEF r
<1>5. Sound(r)
  BY <1>1, <1>2, <1>3 DEF Sound
<1> QED
  BY <1>1, <1>2, <1>3, <1>4, <1>5, NarrowStep

(* A Pod in hand that has existed and does not exist is gone. *)
LEMMA DeletedInv ==
    ASSUME IInv, NEW c \in Processes, call[c].at \in {"get", "delete", "verify"}, Deleted(c),
           UNCHANGED <<world, job, handled>>, ~Exists(call[c].current)
    PROVE  IInv'
<1>1. Sound(call[c]) /\ call[c] \in CallType
  BY DEF IInv, TypeOK
<1> DEFINE r == [call[c] EXCEPT !.at = "next", !.left = Dropped(c)]
<1>2. Dropped(c) \in SUBSET Pods /\ Dropped(c) \subseteq call[c].left
  BY <1>1 DEF Dropped, CallType
<1>3. /\ r \in CallType
      /\ r.at = "next" /\ r.routine = call[c].routine /\ r.failed = call[c].failed
      /\ r.ids = call[c].ids /\ r.left = Dropped(c)
  BY <1>1, <1>2 DEF CallType
<1>4. Set(c, r)
  BY DEF Deleted
<1> HIDE DEF r
<1>5. call[c].current = Own /\ pod[Own] = "gone"
  BY <1>1 DEF Sound, Appeared, Exists
<1>6. Sound(r)
  BY <1>1, <1>2, <1>3, <1>5 DEF Sound
<1> QED
  BY <1>1, <1>2, <1>3, <1>4, <1>6, NarrowStep DEF world

(* Taking up the next Pod, looking it up, deleting it and looking again. *)
LEMMA RoutineInv == ASSUME IInv, NEW c \in Processes, RoutineStep(c) PROVE IInv'
<1> USE ConstantsAssumption
<1>1. Sound(call[c]) /\ call[c] \in CallType /\ call[c].attempt \in 0 .. DeleteAttempts - 1
  BY DEF IInv, TypeOK, CallType
<1>2. ~LastAttempt(c) => call[c].attempt + 1 \in 0 .. DeleteAttempts - 1
  BY <1>1 DEF LastAttempt
<1>3. CASE List(c)
  BY <1>3, ListInv
<1>4. CASE NextPod(c)
  <2>1. PICK p \in call[c].left :
            Set(c, [call[c] EXCEPT !.at = "get", !.current = p, !.attempt = 0])
    BY <1>4 DEF NextPod
  <2> DEFINE r == [call[c] EXCEPT !.at = "get", !.current = p, !.attempt = 0]
  <2>2. p \in Pods /\ 0 \in 0 .. DeleteAttempts - 1
    BY <1>1 DEF CallType
  <2>3. /\ r \in CallType
        /\ r.at = "get" /\ r.routine = call[c].routine /\ r.failed = call[c].failed
        /\ r.ids = call[c].ids /\ r.left = call[c].left /\ r.current = p
    BY <1>1, <2>2 DEF CallType
  <2>4. Set(c, r)
    BY <2>1
  <2> HIDE DEF r
  <2>5. call[c].at = "next" /\ UNCHANGED <<world, job, handled>>
    BY <1>4 DEF NextPod
  <2>6. Sound(r)
    BY <1>1, <2>3, <2>5 DEF Sound
  <2> QED
    BY <2>3, <2>4, <2>5, <2>6, NarrowStep DEF world
<1>5. CASE Get(c)
  <2>1. call[c].at = "get" /\ UNCHANGED <<world, job, handled>>
    BY <1>5 DEF Get
  <2>2. CASE ~Exists(call[c].current) /\ Deleted(c)
    BY <2>1, <2>2, DeletedInv
  <2>3. CASE Failed(c)
    BY <2>1, <2>3, FailedInv DEF world
  <2>4. CASE Goto(c, "delete")
    BY <1>1, <2>1, <2>4, GotoInv DEF world, Goto
  <2>5. CASE ~LastAttempt(c) /\ Again(c)
    BY <1>2, <2>1, <2>5, GotoInv DEF world, Again
  <2> QED
    BY <1>5, <2>2, <2>3, <2>4, <2>5 DEF Get
<1>6. CASE Delete(c)
  <2>1. call[c].at = "delete" /\ UNCHANGED <<flaky, clock, job, handled>>
    BY <1>6 DEF Delete
  <2>2. call[c].current = Own
    BY <1>1, <2>1 DEF Sound
  <2>3. pod' = pod \/ (Exists(Own) /\ pod' = [pod EXCEPT ![Own] = "deleting"])
    <3>1. pod \in [Pods -> {"none", "requested", "present", "deleting", "gone"}] /\ Own \in Pods
      BY DEF IInv, TypeOK, Pods
    <3>2. pod' = pod \/ pod' = [pod EXCEPT ![Own] = IF Exists(Own) THEN "deleting" ELSE @]
      BY <1>6, <2>2 DEF Delete
    <3>3. ~Exists(Own) => [pod EXCEPT ![Own] = IF Exists(Own) THEN "deleting" ELSE @] = pod
      BY <3>1
    <3> QED
      BY <3>2, <3>3
  <2>4. CASE Failed(c)
    BY <2>1, <2>3, <2>4, FailedInv
  <2>5. CASE ~LastAttempt(c) /\ Again(c)
    BY <1>2, <2>1, <2>3, <2>5, GotoInv DEF Again
  <2>6. CASE Goto(c, "verify")
    BY <1>1, <2>1, <2>3, <2>6, GotoInv DEF Goto
  <2> QED
    BY <1>6, <2>4, <2>5, <2>6 DEF Delete
<1>7. CASE Verify(c)
  <2>1. call[c].at = "verify" /\ UNCHANGED <<world, job, handled>>
    BY <1>7 DEF Verify
  <2>2. CASE ~Exists(call[c].current) /\ Deleted(c)
    BY <2>1, <2>2, DeletedInv
  <2>3. CASE Failed(c)
    BY <2>1, <2>3, FailedInv DEF world
  <2> QED
    BY <1>7, <2>2, <2>3 DEF Verify
<1> QED
  BY <1>3, <1>4, <1>5, <1>6, <1>7 DEF RoutineStep

-----------------------------------------------------------------------------
(* The recovery workflow.                                                  *)

(* A call begins with Pods that have existed, and ends at any time. *)
LEMMA BeginInv ==
    ASSUME IInv, NEW c \in Processes, NEW routine \in {"cleanup", "reap"}, NEW ids \in SUBSET {Own},
           Begin(c, routine, ids) \/ Set(c, Idle),
           Own \in ids => Appeared,
           UNCHANGED <<world, job>>, handled' \in BOOLEAN,
           c = "job" => stage \in {"cleanup", "step"} /\ (file.id => Own \in ids),
           c = "recovery" => ids = {} /\ (routine = "cleanup" => stage = "ended")
    PROVE  IInv'
<1> DEFINE begun == [Idle EXCEPT !.routine = routine, !.at = "list", !.ids = ids, !.left = ids]
<1>1. /\ Idle \in CallType /\ begun \in CallType
      /\ Idle.at = "idle" /\ Idle.routine = "none" /\ Idle.ids = {} /\ Idle.left = {}
      /\ begun.at = "list" /\ begun.routine = routine /\ begun.ids = ids /\ begun.left = ids
  BY IdleType, ConstantsAssumption DEF Pods, Idle
<1>2. Set(c, begun) \/ Set(c, Idle)
  BY DEF Begin
<1> HIDE DEF begun
<1>3. Sound(begun) /\ Sound(Idle)
  BY <1>1 DEF Sound
<1>4. CASE Set(c, begun)
  BY <1>1, <1>3, <1>4, CallStep DEF world
<1>5. CASE Set(c, Idle)
  BY <1>1, <1>3, <1>5, CallStep DEF world
<1> QED
  BY <1>2, <1>4, <1>5

(* The recovery cleans up for a completed run only, and reaps otherwise. *)
LEMMA RecoveryInv ==
    ASSUME IInv, RecoverCompleted \/ RecoverScheduled \/ EndRecovery \/ LoseRecovery
    PROVE  IInv'
<1>1. handled \in BOOLEAN
  BY DEF IInv, TypeOK
<1>2. CASE RecoverCompleted
  <2>1. /\ Begin("recovery", "cleanup", {}) /\ stage = "ended" /\ handled' = TRUE
        /\ UNCHANGED <<world, job>>
    BY <1>2 DEF RecoverCompleted
  <2> QED
    BY <2>1, BeginInv
<1>3. CASE Begin("recovery", "reap", {}) /\ UNCHANGED <<world, job, handled>>
  BY <1>1, <1>3, BeginInv
<1>4. CASE Set("recovery", Idle) /\ UNCHANGED <<world, job, handled>>
  <2>1. UNCHANGED <<world, job>> /\ handled' \in BOOLEAN
    BY <1>1, <1>4
  <2>2. {} \in SUBSET {Own} /\ "recovery" \in Processes /\ "reap" \in {"cleanup", "reap"}
    OBVIOUS
  <2> QED
    BY <1>4, <2>1, <2>2, BeginInv
<1> QED
  BY <1>2, <1>3, <1>4 DEF RecoverCompleted, RecoverScheduled, EndRecovery, LoseRecovery

-----------------------------------------------------------------------------
(* The provider, time, and the job between its calls.                      *)

(* The provider's own steps change the run's Pod only forwards. *)
LEMMA WorldInv ==
    ASSUME IInv, Appear \/ (\E p \in Pods : Vanish(p)) \/ Stabilize \/ Tick
    PROVE  IInv'
<1> USE ConstantsAssumption, AgeAssumption
<1>1. /\ TypeOK /\ JobInv /\ StageInv /\ Safe
      /\ \A d \in Processes : Sound(call[d])
  BY DEF IInv
<1>2. UNCHANGED <<job, handled, call>>
  BY DEF Appear, Vanish, Stabilize, Tick
<1>3. /\ pod' \in [Pods -> {"none", "requested", "present", "deleting", "gone"}]
      /\ \A p \in Foreign : pod'[p] = pod[p]
      /\ Appeared => Appeared'
      /\ pod[Own] = "gone" => pod'[Own] = "gone"
      /\ pod[Own] = "none" => pod'[Own] = "none"
  <2>1. CASE Appear
    BY <1>1, <2>1 DEF TypeOK, Appear, Pods, Appeared
  <2>2. CASE \E p \in Pods : Vanish(p)
    BY <1>1, <2>2 DEF TypeOK, Vanish, Pods, Appeared, Safe, ForeignPodsSurvive
  <2>3. CASE UNCHANGED pod
    BY <1>1, <2>3 DEF TypeOK, Pods, Appeared
  <2> QED
    BY <2>1, <2>2, <2>3 DEF Stabilize, Tick
<1>4. clock' \in 0 .. MaxClock /\ (stage # "ended" => clock' <= JobTimeout) /\ flaky' \in BOOLEAN
  <2>1. CASE Tick
    BY <1>1, <2>1 DEF TypeOK, Tick
  <2>2. CASE Stabilize
    BY <1>1, <2>2 DEF TypeOK, JobInv, Stabilize
  <2>3. CASE UNCHANGED <<clock, flaky>>
    BY <1>1, <2>3 DEF TypeOK, JobInv
  <2> QED
    BY <2>1, <2>2, <2>3 DEF Appear, Vanish
<1>5. TypeOK'
  BY <1>1, <1>2, <1>3, <1>4 DEF TypeOK, job
<1>6. JobInv'
  BY <1>1, <1>2, <1>3, <1>4 DEF JobInv, job
<1>7. StageInv'
  BY <1>1, <1>2 DEF StageInv, job
<1>8. \A d \in Processes : Sound(call[d])'
  BY <1>1, <1>2, <1>3 DEF Sound
<1>9. Safe'
  BY <1>1, <1>2, <1>3 DEF Safe, SuccessMeansGone, DeletedMeansGone, ForeignPodsSurvive,
                          ActiveJobKeepsPod, job
<1> QED
  BY <1>5, <1>6, <1>7, <1>8, <1>9 DEF IInv

(***************************************************************************)
(* While run has not come to its cleanup the job has no call in progress,  *)
(* nothing has been reported, and only the POST changes the Pod.           *)
(***************************************************************************)
LEMMA RunStep ==
    ASSUME IInv, stage \notin {"cleanup", "step", "ended"},
           UNCHANGED <<flaky, clock, handled, call>>,
           pod' = pod \/ (stage = "post" /\ \E effect \in {"none", "requested", "present"} :
                                               pod' = [pod EXCEPT ![Own] = effect]),
           created' \in 0 .. JobTimeout, tries' \in 0 .. RecoverAttempts, failed' \in BOOLEAN,
           file' \in [phase : {"none", "intent", "created", "deleted", "not_found"}, id : BOOLEAN],
           file'.phase # "deleted",
           stage' \in {"post", "recover", "record", "work", "collect", "cleanup", "step", "ended"},
           outcome' \in {outcome, "failure"},
           JobInv'
    PROVE  IInv'
<1> USE ConstantsAssumption
<1>1. /\ TypeOK /\ JobInv /\ StageInv /\ Safe
      /\ \A d \in Processes : Sound(call[d])
  BY DEF IInv
<1>2. /\ pod' \in [Pods -> {"none", "requested", "present", "deleting", "gone"}]
      /\ \A p \in Foreign : pod'[p] = pod[p]
  BY <1>1 DEF TypeOK, Pods
<1>3. pod' = pod \/ pod[Own] = "none"
  BY <1>1 DEF JobInv
<1>4. outcome = "none" /\ call["job"].at = "idle"
  BY <1>1 DEF JobInv, StageInv
<1>5. TypeOK'
  <2>1. file' \in [phase : {"none", "intent", "created", "deleted", "not_found"}, id : BOOLEAN]
    OBVIOUS
  <2>2. outcome' \in {"none", "success", "failure"}
    BY <1>4
  <2>3. stage' \in {"start", "post", "recover", "record", "work", "collect", "cleanup", "step", "ended"}
    OBVIOUS
  <2> QED
    BY <1>1, <1>2, <2>1, <2>2, <2>3 DEF TypeOK
<1>6. StageInv'
  BY <1>1, <1>4 DEF StageInv
<1>7. \A d \in Processes : Sound(call[d])'
  BY <1>1, <1>3 DEF Sound, Appeared
<1>8. SuccessMeansGone' /\ DeletedMeansGone'
  <2>1. outcome' # "success" /\ file'.phase # "deleted"
    BY <1>4
  <2> QED
    BY <2>1 DEF SuccessMeansGone, DeletedMeansGone
<1>9. ForeignPodsSurvive' /\ ActiveJobKeepsPod'
  BY <1>1, <1>2 DEF Safe, ForeignPodsSurvive, ActiveJobKeepsPod
<1> QED
  BY <1>5, <1>6, <1>7, <1>8, <1>9 DEF IInv, Safe

(* What the run's types come to before its cleanup. *)
LEMMA RunType ==
    ASSUME IInv
    PROVE  /\ created \in 0 .. JobTimeout /\ tries \in 0 .. RecoverAttempts /\ failed \in BOOLEAN
           /\ file = [phase |-> file.phase, id |-> file.id] /\ file.id \in BOOLEAN
           /\ file.phase \in {"none", "intent", "created", "deleted", "not_found"}
           /\ stage \notin {"step", "ended"} => file.phase # "deleted" /\ outcome = "none"
           /\ stage # "ended" => clock \in 0 .. JobTimeout
           /\ stage \in {"start", "post", "recover"} => tries + 1 \in 0 .. RecoverAttempts
BY ConstantsAssumption DEF IInv, TypeOK, JobInv

(* Everything run does before its cleanup. *)
LEMMA RunInv ==
    ASSUME IInv, Prepare \/ Post \/ Recover \/ Record \/ Work \/ Collect
    PROVE  IInv'
<1> USE ConstantsAssumption, AgeAssumption
<1>1. TypeOK /\ JobInv
  BY DEF IInv
<1>2. pod[Own] \in {"none", "requested", "present", "deleting", "gone"} /\ Own \in Pods
  BY <1>1 DEF TypeOK, Pods
<1>3. CASE Prepare
  <2>1. /\ stage = "start" /\ UNCHANGED <<pod, flaky, clock, tries, failed, handled, call>>
        /\ \/ /\ stage' = "post" /\ file' = [file EXCEPT !.phase = "intent"]
              /\ created' = clock /\ UNCHANGED outcome
           \/ stage' = "step" /\ outcome' = "failure" /\ UNCHANGED <<file, created>>
    BY <1>3 DEF Prepare, world
  <2>2. JobInv'
    BY <1>1, <2>1, RunType DEF JobInv, Appeared
  <2> QED
    BY <2>1, <2>2, RunType, RunStep
<1>4. CASE Post
  <2>1. /\ stage = "post"
        /\ UNCHANGED <<flaky, clock, created, file, tries, outcome, handled, call>>
        /\ \E effect \in {"none", "requested", "present"} :
               /\ pod' = [pod EXCEPT ![Own] = effect]
               /\ stage' = "record" => effect = "present"
        /\ \/ stage' \in {"record", "recover"} /\ failed' = failed
           \/ stage' = "cleanup" /\ failed' = TRUE
    <3>1. pod[Own] = "none" /\ pod = [pod EXCEPT ![Own] = "none"]
      BY <1>1, <1>4 DEF Post, JobInv, TypeOK
    <3> QED
      BY <1>4, <3>1 DEF Post
  <2>2. stage' = "record" => Appeared'
    BY <1>1, <1>2, <2>1 DEF TypeOK, Appeared
  <2>3. JobInv'
    BY <1>1, <2>1, <2>2, RunType DEF JobInv
  <2> QED
    BY <2>1, <2>3, RunType, RunStep
<1>5. CASE Recover
  <2>1. /\ stage = "recover"
        /\ UNCHANGED <<pod, flaky, clock, created, file, outcome, handled, call>>
        /\ \/ stage' = "record" /\ Appeared /\ UNCHANGED <<tries, failed>>
           \/ tries' = tries + 1 /\ tries' < RecoverAttempts /\ UNCHANGED <<stage, failed>>
           \/ tries' \in {tries, tries + 1} /\ stage' = "cleanup" /\ failed' = TRUE
    BY <1>5 DEF Recover, world, find_owned, owned_pod, Exists, Appeared
  <2>2. JobInv'
    BY <1>1, <2>1, RunType DEF JobInv, Appeared
  <2> QED
    BY <2>1, <2>2, RunType, RunStep
<1>6. CASE Record
  <2>1. /\ stage = "record" /\ stage' = "work" /\ file' = [phase |-> "created", id |-> TRUE]
        /\ UNCHANGED <<pod, flaky, clock, created, tries, failed, outcome, handled, call>>
    BY <1>6 DEF Record, world
  <2>2. JobInv'
    BY <1>1, <2>1, RunType DEF JobInv, Appeared
  <2> QED
    BY <2>1, <2>2, RunType, RunStep
<1>7. CASE Work
  <2>1. /\ stage = "work" /\ UNCHANGED <<pod, flaky, clock, created, file, tries, outcome, handled, call>>
        /\ \/ stage' = "collect" /\ failed' = failed
           \/ stage' \in {"cleanup", "collect"} /\ failed' = TRUE
    BY <1>7 DEF Work, world
  <2>2. JobInv'
    BY <1>1, <2>1, RunType DEF JobInv, Appeared
  <2> QED
    BY <1>1, <2>1, <2>2, RunType, RunStep DEF TypeOK
<1>8. CASE Collect
  <2>1. /\ stage = "collect" /\ stage' = "cleanup" /\ failed' \in {failed, TRUE}
        /\ UNCHANGED <<pod, flaky, clock, created, file, tries, outcome, handled, call>>
    BY <1>8 DEF Collect, world
  <2>2. JobInv'
    BY <1>1, <2>1, RunType DEF JobInv, Appeared
  <2> QED
    BY <1>1, <2>1, <2>2, RunType, RunStep DEF TypeOK
<1> QED
  BY <1>3, <1>4, <1>5, <1>6, <1>7, <1>8

(***************************************************************************)
(* Where a step ends the call of the job, the recovery's is as it was, and *)
(* what the job reports or writes is true of the Pod.                      *)
(***************************************************************************)
LEMMA CutStep ==
    ASSUME IInv, Set("job", Idle), UNCHANGED <<pod, flaky, clock, created, tries, handled>>,
           failed' \in BOOLEAN,
           file' \in [phase : {"none", "intent", "created", "deleted", "not_found"}, id : {file.id}],
           file'.phase = "deleted" => pod[Own] = "gone",
           stage' \in {"collect", "cleanup", "step", "ended"},
           stage = "ended" => stage' = "ended",
           outcome' \in {"none", "success", "failure"},
           outcome' = "success" => pod[Own] = "gone",
           JobInv'
    PROVE  IInv'
<1>1. /\ TypeOK /\ JobInv /\ StageInv /\ Safe
      /\ \A d \in Processes : Sound(call[d])
  BY DEF IInv
<1>2. /\ Idle \in CallType
      /\ Idle.at = "idle" /\ Idle.routine = "none" /\ Idle.ids = {} /\ Idle.left = {}
  BY IdleType DEF Idle
<1>3. /\ call' \in [Processes -> CallType]
      /\ call'["job"] = Idle
      /\ call'["recovery"] = call["recovery"]
  BY <1>1, <1>2, SetCall DEF TypeOK
<1>4. TypeOK'
  <2>1. file' \in [phase : {"none", "intent", "created", "deleted", "not_found"}, id : BOOLEAN]
    BY <1>1 DEF TypeOK
  <2>2. stage' \in {"start", "post", "recover", "record", "work", "collect", "cleanup", "step", "ended"}
    OBVIOUS
  <2> QED
    BY <1>1, <1>3, <2>1, <2>2 DEF TypeOK
<1>5. StageInv'
  BY <1>1, <1>2, <1>3 DEF StageInv
<1>6. \A d \in Processes : Sound(call[d])'
  <2>1. Sound(Idle)
    BY <1>2 DEF Sound
  <2>2. \A d \in Processes : Sound(call'[d])
    BY <1>1, <1>3, <2>1
  <2> QED
    BY <2>2 DEF Sound, Appeared
<1>7. Safe'
  BY <1>1, <1>3 DEF Safe, SuccessMeansGone, DeletedMeansGone, ForeignPodsSurvive,
                    ActiveJobKeepsPod
<1> QED
  BY <1>4, <1>5, <1>6, <1>7 DEF IInv

(* An interrupt, a lost runner, and the beginning and end of a cleanup. *)
LEMMA CleanupInv ==
    ASSUME IInv, Interrupt \/ Lose \/ BeginCleanup \/ EndCleanup
    PROVE  IInv'
<1>1. /\ TypeOK /\ JobInv /\ StageInv /\ Safe /\ Sound(call["job"])
      /\ call["job"] \in CallType
  BY DEF IInv, TypeOK
<1>2. /\ file \in [phase : {"none", "intent", "created", "deleted", "not_found"}, id : {file.id}]
      /\ file.phase = "deleted" => pod[Own] = "gone"
      /\ outcome \in {"none", "success", "failure"}
      /\ outcome = "success" => pod[Own] = "gone"
  BY <1>1 DEF TypeOK, Safe, SuccessMeansGone, DeletedMeansGone
<1>3. CASE Interrupt
  <2>1. /\ stage' \in {"collect", "cleanup", "step"} /\ failed' = TRUE
        /\ stage \in {"start", "post", "recover", "record", "work", "collect", "cleanup"}
        /\ outcome' = IF stage' = "step" THEN "failure" ELSE outcome
        /\ Set("job", Idle) /\ UNCHANGED <<pod, flaky, clock, created, file, tries, handled>>
    BY <1>3 DEF Interrupt, world
  <2>2. JobInv'
    BY <1>1, <2>1 DEF JobInv, Appeared
  <2> QED
    BY <1>2, <2>1, <2>2, CutStep
<1>4. CASE Lose
  <2>1. /\ stage' = "ended" /\ stage # "ended"
        /\ outcome' = IF outcome = "none" THEN "failure" ELSE outcome
        /\ Set("job", Idle) /\ UNCHANGED <<pod, flaky, clock, created, file, tries, failed, handled>>
    BY <1>4 DEF Lose, world
  <2>2. JobInv'
    BY <1>1, <2>1 DEF JobInv, Appeared
  <2> QED
    BY <1>1, <1>2, <2>1, <2>2, CutStep DEF TypeOK
<1>5. CASE BeginCleanup
  <2>1. /\ stage \in {"cleanup", "step"} /\ UNCHANGED <<world, job, handled>>
        /\ Begin("job", "cleanup", IF file.id THEN {Own} ELSE {})
    BY <1>5 DEF BeginCleanup
  <2>2. handled' \in BOOLEAN
    BY <1>1, <2>1 DEF TypeOK
  <2>3. file.id => Appeared
    BY <1>1 DEF JobInv
  <2> QED
    BY <2>1, <2>2, <2>3, BeginInv
<1>6. CASE EndCleanup
  <2>1. /\ call["job"].at = "next" /\ call["job"].left = {}
        /\ stage \in {"cleanup", "step"}
        /\ file.id => Own \in call["job"].ids
        /\ Own \in call["job"].ids /\ ~Raises("job") => pod[Own] = "gone"
        /\ call["job"].ids # {} => Own \in call["job"].ids
    BY <1>1, <1>6 DEF EndCleanup, ReachedEnd, StageInv, Sound, Raises
  <2>2. /\ UNCHANGED <<pod, flaky, clock, created, tries, failed, handled>> /\ Set("job", Idle)
        /\ file' = file \/ /\ ~Raises("job")
                           /\ file' = [file EXCEPT !.phase = "not_found"]
                        \/ /\ ~Raises("job") /\ call["job"].ids # {}
                           /\ file' = [file EXCEPT !.phase = "deleted"]
        /\ \/ /\ stage = "cleanup" /\ stage' = "step"
              /\ outcome' = "failure" \/ (~failed /\ ~Raises("job") /\ outcome' = "success")
           \/ stage' = "ended" /\ outcome' = outcome
    BY <1>6 DEF EndCleanup, world
  <2>3. file' \in [phase : {"none", "intent", "created", "deleted", "not_found"}, id : {file.id}]
    BY <1>2, <2>2
  <2>4. file'.phase = "deleted" => pod[Own] = "gone"
    BY <1>2, <2>1, <2>2
  <2>5. outcome' = "success" => pod[Own] = "gone"
    BY <1>1, <1>2, <2>1, <2>2 DEF JobInv
  <2>6. JobInv'
    BY <1>1, <2>1, <2>2, <2>3 DEF JobInv, Appeared
  <2> QED
    BY <1>1, <1>2, <2>1, <2>2, <2>3, <2>4, <2>5, <2>6, CutStep DEF TypeOK
<1> QED
  BY <1>3, <1>4, <1>5, <1>6

-----------------------------------------------------------------------------
(* The invariant and what follows from it.                                 *)

(* Every step keeps the invariant. *)
LEMMA NextInv == IInv /\ [Next]_vars => IInv'
<1> SUFFICES ASSUME IInv, [Next]_vars PROVE IInv'
  OBVIOUS
<1>1. CASE Appear \/ (\E p \in Pods : Vanish(p)) \/ Stabilize \/ Tick
  BY <1>1, WorldInv
<1>2. CASE \E c \in Processes : RoutineStep(c)
  BY <1>2, RoutineInv
<1>3. CASE JobStep
  BY <1>3, RunInv, CleanupInv DEF JobStep
<1>4. CASE Interrupt \/ Lose
  BY <1>4, CleanupInv
<1>5. CASE RecoverCompleted \/ RecoverScheduled \/ EndRecovery \/ LoseRecovery
  BY <1>5, RecoveryInv
<1>6. CASE UNCHANGED vars
  BY <1>6 DEF vars, world, job, IInv, TypeOK, JobInv, StageInv, Sound, Safe, Appeared,
              SuccessMeansGone, DeletedMeansGone, ForeignPodsSurvive, ActiveJobKeepsPod
<1> QED
  BY <1>1, <1>2, <1>3, <1>4, <1>5, <1>6 DEF Next

(* The invariant holds in every state. *)
THEOREM Inductive == Spec => []IInv
BY InitInv, NextInv, PTL DEF Spec

(* Every variable has its type: recover_create ends within its attempts    *)
(* and the creation time lies within the job. *)
THEOREM TypeCorrect == Spec => []TypeOK
<1>1. IInv => TypeOK
  BY DEF IInv
<1> QED
  BY <1>1, Inductive, PTL

(* run reports success only once its Pod's deletion was verified, whatever *)
(* calls failed and whoever deleted it. *)
THEOREM SuccessVerified == Spec => []SuccessMeansGone
<1>1. IInv => SuccessMeansGone
  BY DEF IInv, Safe
<1> QED
  BY <1>1, Inductive, PTL

(* cleanup writes "deleted" only of a Pod that is gone for good. *)
THEOREM DeletedVerified == Spec => []DeletedMeansGone
<1>1. IInv => DeletedMeansGone
  BY DEF IInv, Safe
<1> QED
  BY <1>1, Inductive, PTL

(* Neither cleanup nor reap ever touches a Pod of another owner. *)
THEOREM ForeignSafe == Spec => []ForeignPodsSurvive
<1>1. IInv => ForeignPodsSurvive
  BY DEF IInv, Safe
<1> QED
  BY <1>1, Inductive, PTL

(* The recovery workflow has the Pod of a job in progress never in hand,   *)
(* because the job times out before its Pod is old enough to reap. *)
THEOREM ActiveJobSafe == Spec => []ActiveJobKeepsPod
<1>1. IInv => ActiveJobKeepsPod
  BY DEF IInv, Safe
<1> QED
  BY <1>1, Inductive, PTL

-----------------------------------------------------------------------------
(* The abstract rental. *)

(* Steps that touch neither the Pods nor what the run says of them, as the *)
(* provider's clock, the routines' looks and the recovery workflow.        *)
LEMMA QuietStep ==
    ASSUME UNCHANGED <<pod, outcome, file.phase>>
    PROVE  UNCHANGED Rented!vars
BY DEF Rented!vars, Exists

(* Foreign Pods are the same before and after any step. *)
LEMMA SameOthers ==
    ASSUME ForeignPodsSurvive, ForeignPodsSurvive'
    PROVE  {p \in Foreign : Exists(p)}' = {p \in Foreign : Exists(p)}
BY DEF ForeignPodsSurvive, Exists

(* The provider carries out a request, a deletion or a DELETE. *)
LEMMA PodStep ==
    ASSUME IInv, IInv', UNCHANGED <<outcome, file>>,
           \/ pod' = pod
           \/ pod[Own] \in {"none", "requested"} /\ pod'[Own] \in {"none", "requested", "present"}
           \/ pod[Own] \in {"present", "deleting"} /\ pod'[Own] \in {"deleting", "gone"}
    PROVE  Rented!Next \/ UNCHANGED Rented!vars
<1>1. {p \in Foreign : Exists(p)}' = {p \in Foreign : Exists(p)}
  BY SameOthers DEF IInv, Safe
<1> QED
  BY <1>1 DEF Rented!Next, Rented!vars, Rented!Rent, Rented!Return, Exists

(* The run concludes: what it says is backed by the invariant after it. *)
LEMMA ReportStep ==
    ASSUME IInv, IInv', pod' = pod, outcome' = outcome \/ outcome = "none"
    PROVE  Rented!Next
<1>1. pod'[Own] = "gone" => ~Exists(Own)
  BY DEF Exists
<1>2. outcome' \in {"none", "success", "failure"}
  BY DEF IInv, TypeOK
<1>3. outcome' = "success" \/ file'.phase = "deleted" => pod[Own] = "gone"
  BY DEF IInv, Safe, SuccessMeansGone, DeletedMeansGone
<1>4. Exists(Own)' = Exists(Own) /\ {p \in Foreign : Exists(p)}' = {p \in Foreign : Exists(p)}
  BY DEF Exists
<1>5. outcome' \in IF outcome = "none" THEN {"none", "success", "failure"} ELSE {outcome}
  BY <1>2
<1>6. (file.phase = "deleted")' \in BOOLEAN
  OBVIOUS
<1> QED
  BY <1>1, <1>3, <1>4, <1>5, <1>6 DEF Rented!Next, Rented!Report

(* Every step rents, returns or reports, or is invisible to the rental. *)
LEMMA RentalStep ==
    ASSUME IInv, IInv', [Next]_vars
    PROVE  [Rented!Next]_(Rented!vars)
<1>1. CASE \E p \in Pods : Appear \/ Vanish(p)
  <2>1. ASSUME NEW p \in Pods, Vanish(p) PROVE p = Own
    BY <2>1 DEF Vanish, IInv, Safe, ForeignPodsSurvive, Pods
  <2> QED
    BY <1>1, <2>1, PodStep DEF Appear, Vanish, job, IInv, TypeOK, Pods
<1>2. CASE \E c \in Processes : Delete(c)
  <2>1. UNCHANGED <<outcome, file>>
    BY <1>2 DEF Delete, job
  <2>2. PICK p : pod' \in {pod, [pod EXCEPT ![p] = IF Exists(p) THEN "deleting" ELSE @]}
    BY <1>2 DEF Delete
  <2>3. pod' = pod \/ (pod[Own] \in {"present", "deleting"} /\ pod'[Own] \in {"deleting", "gone"})
    BY <2>2, ConstantsAssumption DEF IInv, TypeOK, Pods, Exists, Safe, ForeignPodsSurvive
  <2> QED
    BY <2>1, <2>3, PodStep
<1>3. CASE Post
  BY <1>3, PodStep DEF Post, IInv, TypeOK, JobInv, Pods
<1>4. CASE Prepare \/ Record \/ Interrupt \/ Lose \/ EndCleanup
  <2>1. pod' = pod
    BY <1>4 DEF Prepare, Record, Interrupt, Lose, EndCleanup, world
  <2>2. outcome' = outcome \/ outcome = "none"
    BY <1>4 DEF Prepare, Record, Interrupt, Lose, EndCleanup, IInv, JobInv
  <2> QED
    BY <2>1, <2>2, ReportStep
<1>5. CASE \/ Stabilize \/ Tick \/ Recover \/ Work \/ Collect \/ BeginCleanup
           \/ \E c \in Processes : List(c) \/ NextPod(c) \/ Get(c) \/ Verify(c)
           \/ RecoverCompleted \/ RecoverScheduled \/ EndRecovery \/ LoseRecovery
           \/ UNCHANGED vars
  <2>1. UNCHANGED <<pod, outcome, file>>
    BY <1>5 DEF Stabilize, Tick, Recover, Work, Collect, BeginCleanup, List, NextPod, Get, Verify,
          RecoverCompleted, RecoverScheduled, EndRecovery, LoseRecovery, vars, world, job
  <2> QED
    BY <2>1, QuietStep
<1> QED
  BY <1>1, <1>2, <1>3, <1>4, <1>5 DEF Next, RoutineStep, JobStep, Pods

(* The two processes implement the abstract rental: its machine is rented  *)
(* at most once and a verdict or a record follows its return. *)
THEOREM RentalImplemented == Spec => ImplementsRental
<1>1. Init => Rented!Init
  <2> SUFFICES ASSUME Init PROVE Rented!Init
    OBVIOUS
  <2>1. pod[Own] = "none" /\ \A p \in Foreign : Exists(p)
    BY ConstantsAssumption DEF Init, Exists, Pods
  <2>2. ~Exists(Own) /\ {p \in Foreign : Exists(p)} = Foreign
    BY <2>1 DEF Exists
  <2>3. outcome = "none" /\ (file.phase = "deleted") = FALSE
    BY DEF Init
  <2> QED
    BY <2>1, <2>2, <2>3 DEF Rented!Init
<1>2. IInv /\ IInv' /\ [Next]_vars => [Rented!Next]_(Rented!vars)
  BY RentalStep
<1> QED
  BY <1>1, <1>2, Inductive, PTL DEF Spec, ImplementsRental, Rented!Spec

=============================================================================
