---------------------------- MODULE PodLifecycle ----------------------------
(***************************************************************************)
(* The rented machine of one CI run: scripts/runpod_ci.py (run, cleanup,   *)
(* reap) as the workflow cuda.yml and runpod-cleanup.yml call it, over a   *)
(* provider whose answers get lost and whose Pods appear and vanish late.  *)
(*                                                                         *)
(* Two processes use the account: the job of the run, which ends with a    *)
(* second cleanup in an always() step, and the recovery workflow, which    *)
(* cleans up after a completed run and reaps old Pods every hour.  Either  *)
(* may be interrupted or killed at any point.                              *)
(***************************************************************************)
EXTENDS Naturals

CONSTANTS
    Own,                \* the Pod of the run's one POST /pods
    Foreign,            \* Pods of the same name, of other owners
    DeleteAttempts,     \* range(6) of delete_owned
    RecoverAttempts,    \* range(7) of recover_create
    JobTimeout,         \* timeout-minutes of the job, in clock units, rounded up
    ReapAge,            \* the two hours of reap, in clock units
    MaxClock            \* bound on the clock

Pods == {Own} \cup Foreign
Processes == {"job", "recovery"}

ASSUME ConstantsAssumption ==
    /\ Own \notin Foreign
    /\ DeleteAttempts \in Nat \ {0} /\ RecoverAttempts \in Nat \ {0}
    /\ JobTimeout \in Nat /\ ReapAge \in Nat /\ MaxClock \in Nat

(* Seventy minutes are less than two hours; the clock passes both.         *)
ASSUME AgeAssumption == JobTimeout < ReapAge /\ JobTimeout + ReapAge <= MaxClock

VARIABLES
    pod,        \* [Pods -> "none", "requested", "present", "deleting" or "gone"]
    flaky,      \* whether calls to the provider may still fail
    clock,
    created,    \* CI_CREATED_AT of Own
    file,       \* state.json: its phase, "none" without a file, and whether it has the Pod's id
    stage,      \* where the job is
    tries,      \* failed attempts of recover_create
    failed,     \* error # None in run
    outcome,    \* what run reported: "none", "success" or "failure"
    handled,    \* whether recovery has seen the run complete
    call        \* [process -> its cleanup or reap in progress]

world == <<pod, flaky, clock>>
job == <<created, file, stage, tries, failed, outcome>>
vars == <<world, job, handled, call>>

Idle == [routine |-> "none", at |-> "idle", ids |-> {}, left |-> {}, current |-> Own,
         attempt |-> 0, blind |-> FALSE, failed |-> FALSE]

Init ==
    /\ pod = [p \in Pods |-> IF p = Own THEN "none" ELSE "present"]
    /\ flaky \in BOOLEAN
    /\ clock = 0 /\ created = 0
    /\ file = [phase |-> "none", id |-> FALSE]
    /\ stage = "start"
    /\ tries = 0
    /\ failed = FALSE
    /\ outcome = "none"
    /\ handled = FALSE
    /\ call = [c \in Processes |-> Idle]

-----------------------------------------------------------------------------
(* The provider and time.                                                  *)

Exists(p) == pod[p] \in {"present", "deleting"}

(* A request whose answer was lost may take effect late, or never.         *)
Appear ==
    /\ pod[Own] = "requested"
    /\ pod' = [pod EXCEPT ![Own] = "present"]
    /\ UNCHANGED <<flaky, clock, job, handled, call>>

Vanish(p) ==
    /\ pod[p] = "deleting"
    /\ pod' = [pod EXCEPT ![p] = "gone"]
    /\ UNCHANGED <<flaky, clock, job, handled, call>>

Stabilize ==
    /\ flaky
    /\ flaky' = FALSE
    /\ UNCHANGED <<pod, clock, job, handled, call>>

(* GitHub ends the job at its timeout.                                     *)
Tick ==
    /\ clock < MaxClock
    /\ stage # "ended" => clock < JobTimeout
    /\ clock' = clock + 1
    /\ UNCHANGED <<pod, flaky, job, handled, call>>

-----------------------------------------------------------------------------
(* Ownership.                                                              *)

(* Mutant: only the name is compared. *)
OwnedByName(p) == p \in Pods

owned_pod(p) == p = Own

find_owned == {p \in Pods : Exists(p) /\ owned_pod(p)}

(* Mutant: the age is compared before the last unit is over. *)
StaleEarly == {p \in find_owned : clock + 1 >= created + ReapAge}

(* Mutant: the comparison with the cutoff is the wrong way round. *)
StaleInverted == {p \in find_owned : clock < created + ReapAge}

(* The Pods reap deletes: owned, and created before the cutoff.            *)
Stale == {p \in find_owned : clock >= created + ReapAge}

-----------------------------------------------------------------------------
(* cleanup and reap, by either process.                                    *)

Set(c, record) == call' = [call EXCEPT ![c] = record]

Begin(c, routine, ids) ==
    Set(c, [Idle EXCEPT !.routine = routine, !.at = "list", !.ids = ids, !.left = ids])

Goto(c, at) == Set(c, [call[c] EXCEPT !.at = at])

Dropped(c) == call[c].left \ {call[c].current}
Deleted(c) == Set(c, [call[c] EXCEPT !.at = "next", !.left = Dropped(c)])
Failed(c) == Set(c, [call[c] EXCEPT !.at = "next", !.left = Dropped(c), !.failed = TRUE])

LastAttempt(c) == call[c].attempt = DeleteAttempts - 1
Again(c) == Set(c, [call[c] EXCEPT !.at = "get", !.attempt = @ + 1])

(***************************************************************************)
(* The listing, and a GET of each Pod with the name.  A Pod that vanishes  *)
(* in between is skipped and one that appears is not seen, so both are one *)
(* step.  cleanup goes on without a listing, reap does not.                *)
(***************************************************************************)
List(c) ==
    /\ call[c].at = "list"
    /\ \/ LET found == IF call[c].routine = "reap" THEN Stale ELSE find_owned
          IN Set(c, [call[c] EXCEPT !.at = "next", !.ids = @ \cup found, !.left = @ \cup found])
       \/ /\ flaky
          /\ Set(c, [call[c] EXCEPT !.at = "next", !.blind = TRUE])
    /\ UNCHANGED <<world, job, handled>>

NextPod(c) ==
    /\ call[c].at = "next"
    /\ \E p \in call[c].left :
        Set(c, [call[c] EXCEPT !.at = "get", !.current = p, !.attempt = 0])
    /\ UNCHANGED <<world, job, handled>>

(* delete_owned: look first; a 404 is the proof of deletion.  A malformed  *)
(* answer is not tried again.                                              *)
Get(c) ==
    /\ call[c].at = "get"
    /\ \/ /\ ~Exists(call[c].current)
          /\ Deleted(c)
       \/ /\ Exists(call[c].current)
          /\ IF owned_pod(call[c].current) THEN Goto(c, "delete") ELSE Failed(c)
       \/ /\ flaky
          /\ Failed(c) \/ (~LastAttempt(c) /\ Again(c))
    /\ UNCHANGED <<world, job, handled>>

(* A failed DELETE may have been carried out or not.                       *)
Delete(c) ==
    /\ call[c].at = "delete"
    /\ LET deleting ==
               [pod EXCEPT ![call[c].current] = IF Exists(call[c].current) THEN "deleting" ELSE @]
       IN \/ /\ pod' = deleting
             /\ IF LastAttempt(c) THEN Goto(c, "verify") ELSE Again(c)
          \/ /\ flaky
             /\ pod' \in {pod, deleting}
             /\ IF LastAttempt(c) THEN Failed(c) ELSE Again(c)
    /\ UNCHANGED <<flaky, clock, job, handled>>

(* Mutant: the last DELETE is taken for the deletion. *)
VerifyTrusting(c) ==
    /\ call[c].at = "verify"
    /\ Deleted(c)
    /\ UNCHANGED <<world, job, handled>>

(* The look after the last attempt.                                        *)
Verify(c) ==
    /\ call[c].at = "verify"
    /\ \/ /\ ~Exists(call[c].current)
          /\ Deleted(c)
       \/ /\ Exists(call[c].current) \/ flaky
          /\ Failed(c)
    /\ UNCHANGED <<world, job, handled>>

ReachedEnd(c) == call[c].at = "next" /\ call[c].left = {}

(* What cleanup raises: a failed deletion, or nothing known and no listing. *)
Raises(c) == call[c].failed \/ (call[c].blind /\ call[c].ids = {})

-----------------------------------------------------------------------------
(* The job: run, then the always() step.                                   *)

(* Quote, keys, archive: a failure here is before any intent.              *)
Prepare ==
    /\ stage = "start"
    /\ \/ /\ stage' = "post"
          /\ file' = [file EXCEPT !.phase = "intent"]
          /\ created' = clock
          /\ UNCHANGED outcome
       \/ /\ stage' = "step"
          /\ outcome' = "failure"
          /\ UNCHANGED <<file, created>>
    /\ UNCHANGED <<world, tries, failed, handled, call>>

(***************************************************************************)
(* The only POST /pods: answered, rejected, or without an answer, in which *)
(* case the Pod may exist, appear later or never.                          *)
(***************************************************************************)
Post ==
    /\ stage = "post"
    /\ \/ /\ pod' = [pod EXCEPT ![Own] = "present"]
          /\ stage' = "record"
          /\ UNCHANGED failed
       \/ /\ stage' = "cleanup"
          /\ failed' = TRUE
          /\ UNCHANGED pod
       \/ /\ \E effect \in {"none", "requested", "present"} : pod' = [pod EXCEPT ![Own] = effect]
          /\ stage' = "recover"
          /\ UNCHANGED failed
    /\ UNCHANGED <<flaky, clock, created, file, tries, outcome, handled, call>>

(* recover_create; a malformed answer ends it at once.                     *)
Recover ==
    /\ stage = "recover"
    /\ \/ /\ find_owned # {}
          /\ stage' = "record"
          /\ UNCHANGED <<tries, failed>>
       \/ /\ find_owned = {} \/ flaky
          /\ tries' = tries + 1
          /\ IF tries' < RecoverAttempts
             THEN UNCHANGED <<stage, failed>>
             ELSE stage' = "cleanup" /\ failed' = TRUE
       \/ /\ flaky
          /\ stage' = "cleanup"
          /\ failed' = TRUE
          /\ UNCHANGED tries
    /\ UNCHANGED <<world, created, file, outcome, handled, call>>

Record ==
    /\ stage = "record"
    /\ file' = [phase |-> "created", id |-> TRUE]
    /\ stage' = "work"
    /\ UNCHANGED <<world, created, tries, failed, outcome, handled, call>>

(* Waiting for SSH, then the checks; artifacts only if SSH came up.        *)
Work ==
    /\ stage = "work"
    /\ \/ /\ Exists(Own)
          /\ stage' = "collect"
          /\ UNCHANGED failed
       \/ /\ stage' \in {"cleanup", "collect"}
          /\ failed' = TRUE
    /\ UNCHANGED <<world, created, file, tries, outcome, handled, call>>

Collect ==
    /\ stage = "collect"
    /\ stage' = "cleanup"
    /\ failed' \in {failed, TRUE}
    /\ UNCHANGED <<world, created, file, tries, outcome, handled, call>>

(***************************************************************************)
(* SIGINT or SIGTERM raises KeyboardInterrupt: inside run's try it leads   *)
(* to cleanup; before it, or in the finally block, it ends the command.    *)
(***************************************************************************)
Interrupt ==
    /\ \/ /\ stage \in {"post", "recover", "record"}
          /\ stage' = "cleanup"
       \/ /\ stage = "work"
          /\ stage' \in {"cleanup", "collect"}
       \/ /\ stage \in {"start", "post", "collect", "cleanup"}
          /\ stage' = "step"
    /\ failed' = TRUE
    /\ outcome' = IF stage' = "step" THEN "failure" ELSE outcome
    /\ Set("job", Idle)
    /\ UNCHANGED <<world, created, file, tries, handled>>

(* The runner is lost, or the second cleanup is killed.                    *)
Lose ==
    /\ stage # "ended"
    /\ stage' = "ended"
    /\ outcome' = IF outcome = "none" THEN "failure" ELSE outcome
    /\ Set("job", Idle)
    /\ UNCHANGED <<world, created, file, tries, failed, handled>>

BeginCleanup ==
    /\ stage \in {"cleanup", "step"}
    /\ call["job"].at = "idle"
    /\ Begin("job", "cleanup", IF file.id THEN {Own} ELSE {})
    /\ UNCHANGED <<world, job, handled>>

EndCleanup ==
    /\ ReachedEnd("job")
    /\ file' = IF Raises("job") \/ file.phase = "none" THEN file
               ELSE [file EXCEPT !.phase = IF call["job"].ids = {} THEN "not_found" ELSE "deleted"]
    /\ IF stage = "cleanup"
       THEN /\ stage' = "step"
            /\ outcome' = IF failed \/ Raises("job") THEN "failure" ELSE "success"
       ELSE /\ stage' = "ended"
            /\ UNCHANGED outcome
    /\ Set("job", Idle)
    /\ UNCHANGED <<world, created, tries, failed, handled>>

JobStep ==
    \/ Prepare \/ Post \/ Recover \/ Record \/ Work \/ Collect \/ BeginCleanup \/ EndCleanup

-----------------------------------------------------------------------------
(* runpod-cleanup.yml; it starts from an empty state directory.            *)

(* The event of the completed run.  It can also get lost: a newer run of   *)
(* the workflow's concurrency group replaces one that waits.               *)
RecoverCompleted ==
    /\ stage = "ended" /\ ~handled
    /\ call["recovery"].at = "idle"
    /\ handled' = TRUE
    /\ Begin("recovery", "cleanup", {})
    /\ UNCHANGED <<world, job>>

(* Every hour. *)
RecoverScheduled ==
    /\ call["recovery"].at = "idle"
    /\ Begin("recovery", "reap", {})
    /\ UNCHANGED <<world, job, handled>>

(* The reap step runs after the cleanup step, whatever became of that.     *)
EndRecovery ==
    /\ ReachedEnd("recovery")
    /\ IF call["recovery"].routine = "cleanup"
       THEN Begin("recovery", "reap", {})
       ELSE Set("recovery", Idle)
    /\ UNCHANGED <<world, job, handled>>

(* Killed by its timeout, which only hanging calls let it reach.           *)
LoseRecovery ==
    /\ flaky
    /\ call["recovery"].at # "idle"
    /\ Set("recovery", Idle)
    /\ UNCHANGED <<world, job, handled>>

RoutineStep(c) == List(c) \/ NextPod(c) \/ Get(c) \/ Delete(c) \/ Verify(c)

Next ==
    \/ Appear \/ (\E p \in Pods : Vanish(p)) \/ Stabilize \/ Tick
    \/ \E c \in Processes : RoutineStep(c)
    \/ JobStep \/ Interrupt \/ Lose
    \/ RecoverCompleted \/ RecoverScheduled \/ EndRecovery \/ LoseRecovery

Spec == Init /\ [][Next]_vars

(***************************************************************************)
(* The programs run on, time passes, GitHub starts the hourly workflow,    *)
(* the provider finishes deletions and is not unreliable for ever.         *)
(***************************************************************************)
FairSpec ==
    /\ Spec
    /\ WF_vars(Stabilize) /\ WF_vars(Tick)
    /\ \A p \in Pods : WF_vars(Vanish(p))
    /\ WF_vars(JobStep)
    /\ \A c \in Processes : WF_vars(RoutineStep(c))
    /\ WF_vars(RecoverScheduled) /\ WF_vars(EndRecovery)

-----------------------------------------------------------------------------
(* Properties.                                                             *)

CallType ==
    [routine : {"none", "cleanup", "reap"},
     at : {"idle", "list", "next", "get", "delete", "verify"},
     ids : SUBSET Pods, left : SUBSET Pods, current : Pods,
     attempt : 0 .. DeleteAttempts - 1, blind : BOOLEAN, failed : BOOLEAN]

(* Every variable has its type; recovery gives up within its attempts.     *)
TypeOK ==
    /\ pod \in [Pods -> {"none", "requested", "present", "deleting", "gone"}]
    /\ flaky \in BOOLEAN /\ failed \in BOOLEAN /\ handled \in BOOLEAN
    /\ clock \in 0 .. MaxClock /\ created \in 0 .. JobTimeout
    /\ file \in [phase : {"none", "intent", "created", "deleted", "not_found"}, id : BOOLEAN]
    /\ stage \in {"start", "post", "recover", "record", "work", "collect", "cleanup", "step", "ended"}
    /\ tries \in 0 .. RecoverAttempts
    /\ outcome \in {"none", "success", "failure"}
    /\ call \in [Processes -> CallType]

(* A run that reports success has no Pod left, nor one that may appear.    *)
SuccessMeansGone == outcome = "success" => pod[Own] = "gone"

(* state.json says "deleted" only of a Pod whose deletion was verified,    *)
(* which is what the release verifier takes the phase for.                 *)
DeletedMeansGone == file.phase = "deleted" => pod[Own] = "gone"

(* No sequence of lost answers, retries and cleanups by two processes      *)
(* deletes a Pod of another owner, even one of the same name.              *)
ForeignPodsSurvive == \A p \in Foreign : pod[p] = "present"

(* The reaper and the recovery never touch the Pod of a job in progress.   *)
ActiveJobKeepsPod == stage # "ended" => Own \notin call["recovery"].left

(***************************************************************************)
(* The abstract rental: a requested Pod is not rented yet, one that is     *)
(* being deleted is not returned yet.                                      *)
(***************************************************************************)
Rented == INSTANCE Rental WITH
    own <- IF Exists(Own) THEN "rented" ELSE IF pod[Own] = "gone" THEN "returned" ELSE "never",
    others <- {p \in Foreign : Exists(p)},
    verdict <- outcome,
    certified <- file.phase = "deleted"

(* Two processes over a lossy provider act as one renter who rents once,   *)
(* gives back, and vouches for the return only when it has happened.       *)
ImplementsRental == Rented!Spec

(* A Pod that exists is deleted in the end, whatever happened to its job.  *)
EveryPodDeleted == Exists(Own) ~> pod[Own] = "gone"

=============================================================================
