------------------------------- MODULE Session -------------------------------
(***************************************************************************)
(* One run of scripts/runpod_ci.py against its clocks: waiting for         *)
(* capacity, renting, waiting for SSH, the remote checks, the collection   *)
(* of their results, and cleanup.  A call that takes time is one step, of  *)
(* any duration up to its timeout; only the remote checks run beside the   *)
(* controller.  PodLifecycle models what becomes of the Pod, this module   *)
(* what the run does while it has it.                                      *)
(***************************************************************************)
EXTENDS FiniteSetsExt, Integers

CONSTANTS
    Timeout,        \* --timeout-minutes: the deadline of the controller
    CapacityWait,   \* --capacity-wait-minutes
    SshWait,        \* 15 minutes for SSH, 5 for a benchmark
    PriceWait,      \* 90 s for the provider to name a price
    ApiTime,        \* timeout of one API call
    PrepareTime,    \* key pairs, rev-parse and archive
    CreateTime,     \* POST /pods and recover_create
    Pause,          \* longest sleep between two looks
    ConnectTime,    \* timeout of the SSH probe
    UploadTime,
    Margin,         \* 60 s that must remain to start the checks
    Early,          \* the 30 s by which the remote timeout precedes the deadline
    StartDelay,     \* until the remote timeout is running
    KillAfter,      \* the 30 s from its SIGTERM to its SIGKILL
    PollTime,       \* between two looks of stream_command at the deadline, and killing ssh
    CollectTime,    \* the deadline of collect_artifacts, and killing ssh
    Results,        \* files the checks may leave behind
    Unsafe,         \* those of them extract_artifacts refuses
    MaxMembers      \* its limit on their number

ASSUME TimesAssumption ==
    /\ {Timeout, CapacityWait, SshWait, PriceWait, ApiTime, PrepareTime, CreateTime} \subseteq Nat
    /\ {Pause, ConnectTime, UploadTime, Early} \subseteq Nat \ {0}
    /\ {Margin, StartDelay, KillAfter, PollTime, CollectTime} \subseteq Nat

ASSUME ResultsAssumption == IsFiniteSet(Results) /\ Unsafe \subseteq Results /\ MaxMembers \in Nat

Least(a, b) == IF a <= b THEN a ELSE b
Greatest(a, b) == IF a <= b THEN b ELSE a

VARIABLES
    stage,      \* where run is
    clock,      \* time since run began
    until,      \* ssh_deadline
    priceUntil, \* price_deadline
    priced,     \* the last look at the Pod found a price within the limit
    work,       \* the remote checks: "none", "running", "stopping" (sent SIGTERM),
                \* "passed", "failed"
    stopAt,     \* when their timeout sends SIGTERM
    link,       \* whether the connection of the checks stands
    cut,        \* the controller's deadline came before the end of the checks
    remote,     \* the results on the Pod
    left,       \* members of the archive still to be extracted
    local,      \* the results in the artifacts directory
    failed,     \* error # None
    outcome     \* "none", "success" or "failure"

times == <<clock, until, priceUntil>>
checks == <<work, stopAt, link, cut, remote>>
evidence == <<left, local>>
vars == <<stage, times, priced, checks, evidence, failed, outcome>>

Init ==
    /\ stage = "capacity"
    /\ clock = 0 /\ until = 0 /\ priceUntil = 0
    /\ priced = FALSE
    /\ work = "none" /\ stopAt = 0 /\ link = "up" /\ cut = FALSE
    /\ remote = {} /\ left = {} /\ local = {}
    /\ failed = FALSE
    /\ outcome = "none"

-----------------------------------------------------------------------------
(* Time.                                                                   *)

(* A call returns within its bound. *)
Elapse(bound) == clock' \in clock .. clock + bound

Goto(s) == stage' = s

(* An exception before the try block ends run; inside, cleanup follows.    *)
GiveUp == Goto("over") /\ outcome' = "failure" /\ UNCHANGED failed
CleanUp == Goto("cleanup") /\ failed' = TRUE /\ UNCHANGED outcome

-----------------------------------------------------------------------------
(* Before the Pod.                                                         *)

WaitUntil == Least(Timeout, CapacityWait)

(***************************************************************************)
(* wait_for_capacity: a quote within the limit, a refusal (no such GPU on  *)
(* Secure Cloud, a price over the limit, a failed query), or no capacity   *)
(* yet.                                                                    *)
(***************************************************************************)
Quote ==
    /\ stage = "capacity"
    /\ \E now \in clock .. clock + ApiTime :
        \/ /\ clock' = now
           /\ Goto("prepare")
           /\ UNCHANGED <<failed, outcome>>
        \/ /\ clock' = now
           /\ GiveUp
        \/ /\ now >= WaitUntil
           /\ clock' = now
           /\ GiveUp
        \/ /\ now < WaitUntil
           /\ clock' = now + Least(Pause, WaitUntil - now)
           /\ UNCHANGED <<stage, failed, outcome>>
    /\ UNCHANGED <<until, priceUntil, priced, checks, evidence>>

Prepare ==
    /\ stage = "prepare"
    /\ Elapse(PrepareTime)
    /\ \/ Goto("create") /\ UNCHANGED <<failed, outcome>>
       \/ GiveUp
    /\ UNCHANGED <<until, priceUntil, priced, checks, evidence>>

-----------------------------------------------------------------------------
(* Until the Pod is ready.                                                 *)

(* Mutant: the wait for SSH does not end with the deadline. *)
SshDeadlineUncapped(now) == now + SshWait

SshDeadline(now) == Least(Timeout, now + SshWait)

(* POST, recover_create and the price in its answer, if any.               *)
Create ==
    /\ stage = "create"
    /\ Elapse(CreateTime)
    /\ \/ /\ Goto("ssh")
          /\ until' = SshDeadline(clock')
          /\ priceUntil' = clock' + PriceWait
          /\ UNCHANGED <<failed, outcome>>
       \/ /\ CleanUp
          /\ UNCHANGED <<until, priceUntil>>
    /\ UNCHANGED <<priced, checks, evidence>>

(* Mutant: a Pod without a price is looked at further. *)
PriceAccepted(price) == price # "above"

(* validate_price: TRUE, or FALSE as long as there is no price.            *)
ValidPrice(price) == price = "within"

(***************************************************************************)
(* One pass of wait_for_ssh.  A failed call, a lost ownership, an exited   *)
(* Pod and a price above the limit raise.                                  *)
(***************************************************************************)
Look(price) ==
    /\ stage = "ssh"
    /\ IF clock >= until
       THEN CleanUp /\ UNCHANGED <<clock, priced>>
       ELSE \E now \in clock .. clock + ApiTime :
            \/ CleanUp /\ clock' = now /\ UNCHANGED priced
            \/ /\ price = "above"
               /\ CleanUp /\ clock' = now
               /\ priced' = FALSE
            \/ /\ ~ValidPrice(price) /\ price # "above"
               /\ priced' = FALSE
               /\ IF now >= priceUntil
                  THEN CleanUp /\ clock' = now
                  ELSE clock' \in now + 1 .. now + Pause /\ UNCHANGED <<stage, failed, outcome>>
            \/ /\ ValidPrice(price)
               /\ priced' = (price = "within")
               /\ UNCHANGED <<failed, outcome>>
               /\ \/ clock' \in now .. now + ConnectTime /\ Goto("upload")
                  \/ clock' \in now + 1 .. now + ConnectTime + Pause /\ UNCHANGED stage
    /\ UNCHANGED <<until, priceUntil, checks, evidence>>

-----------------------------------------------------------------------------
(* The checks.                                                             *)

(* Mutant: the remote timeout is all the time that remains. *)
RemoteTimeoutWhole(now) == Timeout - now

RemoteTimeout(now) == Timeout - now - Early

(* From here on results are collected, whatever happens.                   *)
Collecting == Goto("collect") /\ failed' = TRUE

Upload ==
    /\ stage = "upload"
    /\ Elapse(UploadTime)
    /\ \/ /\ Timeout - clock' > Margin
          /\ Goto("stream")
          /\ work' = "running"
          /\ stopAt' \in {clock' + d + RemoteTimeout(clock') : d \in 0 .. StartDelay}
          /\ UNCHANGED failed
       \/ Collecting /\ UNCHANGED <<work, stopAt>>
    /\ UNCHANGED <<until, priceUntil, priced, link, cut, remote, evidence, outcome>>

AtWork == work \in {"running", "stopping"}

(* timeout sends SIGTERM: whatever the checks make of it, they fail.       *)
Terminate ==
    /\ work = "running" /\ clock >= stopAt
    /\ work' = "stopping"
    /\ UNCHANGED <<stage, times, priced, stopAt, link, cut, remote, evidence, failed, outcome>>

(* The checks end by themselves, some time after SIGTERM, or by SIGKILL;   *)
(* they leave results.                                                     *)
WorkEnds ==
    /\ AtWork
    /\ work' \in {"passed", "failed"}
    /\ work = "stopping" => work' = "failed"
    /\ remote' \in SUBSET Results
    /\ UNCHANGED <<stage, times, priced, stopAt, link, cut, evidence, failed, outcome>>

(* Time passes while the controller waits: an end of the output is seen at *)
(* once, the deadline between two looks.  The two signals come on time;    *)
(* between them the checks may go on, past the deadline too.               *)
Tick ==
    /\ stage = "stream"
    /\ link = "up" => AtWork
    /\ work = "running" => clock < stopAt
    /\ work = "stopping" => clock < stopAt + KillAfter
    /\ clock < Timeout + PollTime
    /\ clock' = clock + 1
    /\ UNCHANGED <<stage, until, priceUntil, priced, checks, evidence, failed, outcome>>

(* The exit status of the checks, or 255 of an ssh that lost them.         *)
StreamEnds ==
    /\ stage = "stream"
    /\ ~AtWork \/ link = "lost"
    /\ Goto("collect")
    /\ failed' = (work # "passed" \/ link = "lost")
    /\ UNCHANGED <<times, priced, checks, evidence, outcome>>

(* Mutant: the deadline is reported and the results are taken as they are. *)
DeadlineLogged ==
    /\ stage = "stream"
    /\ clock >= Timeout
    /\ cut' = AtWork
    /\ Goto("collect")
    /\ UNCHANGED <<times, priced, work, stopAt, link, remote, evidence, failed, outcome>>

(* The deadline cuts off checks that are still at work, and fails the run. *)
DeadlineEnds ==
    /\ stage = "stream"
    /\ clock >= Timeout
    /\ cut' = AtWork
    /\ Collecting
    /\ UNCHANGED <<times, priced, work, stopAt, link, remote, evidence, outcome>>

LoseLink ==
    /\ stage = "stream" /\ link = "up"
    /\ link' = "lost"
    /\ UNCHANGED <<stage, times, priced, work, stopAt, cut, remote, evidence, failed, outcome>>

-----------------------------------------------------------------------------
(* Their results.                                                          *)

(* The archive of the results, over its deadline or its limit, or not.     *)
Collect ==
    /\ stage = "collect"
    /\ Elapse(CollectTime)
    /\ \/ /\ Cardinality(remote) <= MaxMembers
          /\ Goto("extract")
          /\ left' = remote
          /\ UNCHANGED failed
       \/ /\ Goto("cleanup")
          /\ failed' = TRUE
          /\ UNCHANGED left
    /\ UNCHANGED <<until, priceUntil, priced, checks, local, outcome>>

(* Mutant: a failed collection is only logged. *)
ExtractQuiet ==
    /\ stage = "extract" /\ left # {}
    /\ \E f \in left :
        \/ /\ f \notin Unsafe
           /\ left' = left \ {f}
           /\ local' = local \cup {f}
           /\ UNCHANGED <<stage, failed>>
        \/ Goto("cleanup") /\ UNCHANGED <<failed, evidence>>
    /\ UNCHANGED <<times, priced, checks, outcome>>

(* extract_artifacts, a member at a time; an unsafe one, or a file that    *)
(* exists, ends it.                                                        *)
Extract ==
    /\ stage = "extract" /\ left # {}
    /\ \E f \in left :
        \/ /\ f \notin Unsafe
           /\ left' = left \ {f}
           /\ local' = local \cup {f}
           /\ UNCHANGED <<stage, failed>>
        \/ Goto("cleanup") /\ failed' = TRUE /\ UNCHANGED evidence
    /\ UNCHANGED <<times, priced, checks, outcome>>

Extracted ==
    /\ stage = "extract" /\ left = {}
    /\ Goto("cleanup")
    /\ UNCHANGED <<times, priced, checks, evidence, failed, outcome>>

(* cleanup verifies the deletion, or makes the run fail.                   *)
Cleanup ==
    /\ stage = "cleanup"
    /\ Goto("over")
    /\ failed' \in {failed, TRUE}
    /\ outcome' = IF failed' THEN "failure" ELSE "success"
    /\ UNCHANGED <<times, priced, checks, evidence>>

Next ==
    \/ Quote \/ Prepare \/ Create
    \/ \E price \in {"none", "within", "above"} : Look(price)
    \/ Upload \/ StreamEnds \/ DeadlineEnds \/ Collect \/ Extract \/ Extracted \/ Cleanup
    \/ Tick \/ Terminate \/ WorkEnds \/ LoseLink

Spec == Init /\ [][Next]_vars

-----------------------------------------------------------------------------
(* Properties.                                                             *)

TypeOK ==
    /\ stage \in {"capacity", "prepare", "create", "ssh", "upload", "stream", "collect",
                  "extract", "cleanup", "over"}
    /\ clock \in Nat /\ until \in Nat /\ priceUntil \in Nat /\ stopAt \in Int
    /\ priced \in BOOLEAN /\ cut \in BOOLEAN /\ failed \in BOOLEAN
    /\ work \in {"none", "running", "stopping", "passed", "failed"}
    /\ link \in {"up", "lost"}
    /\ remote \subseteq Results /\ left \subseteq Results /\ local \subseteq Results
    /\ outcome \in {"none", "success", "failure"}

(***************************************************************************)
(* The latest that cleanup begins: after a slow creation, after SSH that   *)
(* came up too late, or after checks that were cut off.                    *)
(***************************************************************************)
Created == Least(Timeout, CapacityWait) + ApiTime + PrepareTime + CreateTime
Probed == Greatest(Created, Timeout + ApiTime + ConnectTime)
Latest == Greatest(Probed + Greatest(Pause, UploadTime + CollectTime),
                   Timeout + PollTime + CollectTime)

(* Whatever hangs up to its timeout, the deletion of the Pod starts within *)
(* a fixed time of the deadline.                                           *)
CleanupInTime == stage = "cleanup" => clock <= Latest

(* The checks run only on a Pod whose last look found a price within the   *)
(* limit, although it may be unknown at first and change between looks.    *)
ChecksOnPricedPod == work # "none" => priced

(* Two clocks, of the remote timeout and of the controller's deadline, are *)
(* set from one remainder at different times.  Checks that the deadline    *)
(* cuts off were sent SIGTERM, by the first clock, at least Early before,  *)
(* less what their connection took to come up; and the run that cut them,  *)
(* and collects what they may still be writing, does not succeed.          *)
CutChecksForewarned ==
    cut => /\ stopAt + Early <= clock + StartDelay
           /\ outcome # "success"

(* A run that succeeded ran its checks to the end and has all their        *)
(* results; nothing the extraction refuses is kept either way.             *)
SuccessMeansEvidence ==
    /\ outcome = "success" => work = "passed" /\ local = remote
    /\ local \cap Unsafe = {}

=============================================================================
