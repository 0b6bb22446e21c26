------------------------------ MODULE BuildQueue ------------------------------
(***************************************************************************)
(* The build orchestrator for one service: the dispatcher that receives    *)
(* build tasks and drops duplicates, the workers that run one Kubernetes   *)
(* job per version, and the cluster they observe.  The in-progress map and *)
(* the task channel live in memory; jobs, images and unacknowledged        *)
(* messages survive a restart.                                             *)
(*                                                                         *)
(* A task is its version: the name of its job is made of service and       *)
(* version only.  Status events and their hub, malformed payloads (the     *)
(* scripts send none) and the rollout, which is off in the deployment, are *)
(* left out.                                                               *)
(***************************************************************************)
EXTENDS Integers, Sequences, FiniteSets

CONSTANTS
    Versions,         \* version numbers of the service
    Workers,          \* MAX_CONCURRENT_BUILDS workers
    QueueCap,         \* capacity of the task channel
    MaxTaskRetries    \* MAX_TASK_RETRIES

ASSUME BuildQueueAssumption ==
    /\ Versions \subseteq Nat /\ Workers # {}
    /\ QueueCap \in Nat \ {0} /\ MaxTaskRetries \in Nat

VARIABLES
    tasks,        \* the versions asked for, in the order of their messages
    msg,          \* each message: where it is, redeliveries, how it was settled
    inProgress,   \* keys the dispatcher has accepted and no worker has removed
    blocked,      \* the message the dispatcher cannot get into the channel, or 0
    queue,        \* the task channel
    worker,       \* each worker: the step it is at, the message it has
    job,          \* the kaniko job of each version
    image,        \* versions pushed to the registry
    version       \* build_versions: the version recorded for the service

queueVars == <<tasks, msg, inProgress, blocked, queue, worker, job, image, version>>

Free == [pc |-> "idle", m |-> 0]
Positions == {"topic", "held", "nacked", "acked"}
Reasons == {"none", "duplicate", "self", "done", "active", "built", "terminal"}

\* A job tries two pods (BackoffLimit 1) and waits in between.
JobStates == {"none", "first", "backoff", "second", "succeeded", "failed"}
Active(v) == job[v] \in {"first", "second"}
FailedPod(v) == job[v] \in {"backoff", "second", "failed"}    \* Failed > 0

QueueTypeOK ==
    /\ tasks \in Seq(Versions) /\ Len(msg) = Len(tasks)
    /\ \A m \in DOMAIN msg : msg[m] \in [at : Positions, redelivered : 0..MaxTaskRetries, why : Reasons]
    /\ inProgress \in SUBSET Versions
    /\ blocked \in 0..Len(tasks)
    /\ queue \in Seq(DOMAIN tasks) /\ Len(queue) <= QueueCap
    /\ worker \in [Workers -> [pc : {"idle", "wait", "built", "clear"},
                             m : 0..Len(tasks)]]
    /\ job \in [Versions -> JobStates]
    /\ image \in SUBSET Versions /\ version \in Versions

QueueInit(first) ==
    /\ tasks = <<>> /\ msg = <<>> /\ inProgress = {}
    /\ blocked = 0 /\ queue = <<>> /\ worker = [w \in Workers |-> Free]
    /\ job = [v \in Versions |-> "none"]
    /\ image = {first} /\ version = first

InHand(m) ==
    \/ blocked = m
    \/ \E i \in DOMAIN queue : queue[i] = m
    \/ \E w \in Workers : worker[w].m = m

Settle(m, why) ==
    msg' = [msg EXCEPT ![m] = [at |-> "acked", redelivered |-> 0, why |-> why]]

-------------------------------------------------------------------------------
(* The dispatcher *)

\* trigger-build.sh produces a task.
Publish(v) ==
    /\ tasks' = Append(tasks, v)
    /\ msg' = Append(msg, [at |-> "topic", redelivered |-> 0, why |-> "none"])
    /\ UNCHANGED <<inProgress, blocked, queue, worker, job, image, version>>

\* Set the key, and offer the task to the channel.
Accept(m) ==
    /\ inProgress' = inProgress \cup {tasks[m]}
    /\ msg' = [msg EXCEPT ![m].at = "held"]
    /\ \/ Len(queue) < QueueCap /\ queue' = Append(queue, m) /\ UNCHANGED blocked
       \/ Len(queue) >= QueueCap /\ blocked' = m /\ UNCHANGED queue

\* The job of that name is looked up before the task is queued: when it is active
\* or has succeeded, the message is dropped.
CheckJob(m) ==
    \/ /\ job[tasks[m]] = "succeeded" \/ Active(tasks[m])
       /\ Settle(m, IF Active(tasks[m]) THEN "active" ELSE "done")
       /\ UNCHANGED <<inProgress, blocked, queue>>
    \/ job[tasks[m]] \in {"none", "backoff", "failed"} /\ Accept(m)

\* Mutant: the in-progress map is not looked at.
MutNoDuplicateCheck(m) ==
    /\ blocked = 0 /\ msg[m].at = "topic"
    /\ CheckJob(m)
    /\ UNCHANGED <<tasks, worker, job, image, version>>

\* A key that is in progress makes the message a duplicate.  It may be the
\* message in progress itself, delivered again after a reconnect ("self").
\* The key is set before the lookup and removed when the message is dropped;
\* no one else could see it in between.
Receive(m) ==
    /\ blocked = 0 /\ msg[m].at = "topic"
    /\ \/ /\ tasks[m] \in inProgress
          /\ Settle(m, IF InHand(m) THEN "self" ELSE "duplicate")
          /\ UNCHANGED <<inProgress, blocked, queue>>
       \/ tasks[m] \notin inProgress /\ CheckJob(m)
    /\ UNCHANGED <<tasks, worker, job, image, version>>

\* The lookup fails: queue the task whatever its job is doing.
ReceiveUnchecked(m) ==
    /\ blocked = 0 /\ msg[m].at = "topic" /\ tasks[m] \notin inProgress
    /\ Accept(m)
    /\ UNCHANGED <<tasks, worker, job, image, version>>

\* The dispatcher waited for room in the channel.
Unblock ==
    /\ blocked # 0 /\ Len(queue) < QueueCap
    /\ queue' = Append(queue, blocked)
    /\ blocked' = 0
    /\ UNCHANGED <<tasks, msg, inProgress, worker, job, image, version>>

-------------------------------------------------------------------------------
(* The workers *)

Go(w, pc) == worker' = [worker EXCEPT ![w].pc = pc]
Wanted(w) == tasks[worker[w].m]    \* the version worker w builds

\* Take the next task and create its job.  AlreadyExists is not an error: the
\* worker observes the job that is there.
LaunchJob(w) ==
    /\ worker[w].pc = "idle" /\ queue # <<>>
    /\ worker' = [worker EXCEPT ![w] = [pc |-> "wait", m |-> Head(queue)]]
    /\ queue' = Tail(queue)
    /\ job' = [job EXCEPT ![tasks[Head(queue)]] = IF @ = "none" THEN "first" ELSE @]
    /\ UNCHANGED <<tasks, msg, inProgress, blocked, image, version>>

\* Mutant: a task that failed is nacked whatever its redelivery count.
MutRetryForever(m) == msg' = [msg EXCEPT ![m].at = IF @ = "held" THEN "nacked" ELSE @]

\* A task that failed: report failed_terminal and acknowledge it when it has no
\* retries left (a dead letter that cannot be sent is only logged), or nack it.
Fail(m) ==
    \/ msg[m].redelivered >= MaxTaskRetries /\ Settle(m, "terminal")
    \/ /\ msg[m].redelivered < MaxTaskRetries
       /\ msg' = [msg EXCEPT ![m].at = IF @ = "held" THEN "nacked" ELSE @]

LaunchFails(w) ==
    /\ worker[w].pc = "idle" /\ queue # <<>>
    /\ worker' = [worker EXCEPT ![w] = [pc |-> "clear", m |-> Head(queue)]]
    /\ queue' = Tail(queue)
    /\ Fail(Head(queue))
    /\ UNCHANGED <<tasks, inProgress, blocked, job, image, version>>

\* waitForJobCompletion sees success, and UpdateVersion writes the version.
Succeed(w) ==
    /\ worker[w].pc = "wait" /\ job[Wanted(w)] = "succeeded"
    /\ Go(w, "built")
    /\ version' = Wanted(w)
    /\ UNCHANGED <<tasks, msg, inProgress, blocked, queue, job, image>>

\* "failed to update build metadata": only logged.
RecordFails(w) ==
    /\ worker[w].pc = "wait" /\ job[Wanted(w)] = "succeeded"
    /\ Go(w, "built")
    /\ UNCHANGED <<tasks, msg, inProgress, blocked, queue, job, image, version>>

\* Mutant: a task whose retries are used up is nowhere reported.
MutDropSilently(w) ==
    /\ worker[w].pc = "wait"
    /\ job[Wanted(w)] = "none" \/ FailedPod(Wanted(w))
    /\ Go(w, "clear")
    /\ Settle(worker[w].m, "none")
    /\ UNCHANGED <<tasks, inProgress, blocked, queue, job, image, version>>

\* waitForJobCompletion finds no job, or a pod that failed: that is the job's
\* failure, even while the job has another pod to try.
GiveUp(w) ==
    /\ worker[w].pc = "wait"
    /\ job[Wanted(w)] = "none" \/ FailedPod(Wanted(w))
    /\ Go(w, "clear")
    /\ Fail(worker[w].m)
    /\ UNCHANGED <<tasks, inProgress, blocked, queue, job, image, version>>

\* The lookup fails, or the context is cancelled by a shutdown.
PollFails(w) ==
    /\ worker[w].pc = "wait"
    /\ Go(w, "clear")
    /\ Fail(worker[w].m)
    /\ UNCHANGED <<tasks, inProgress, blocked, queue, job, image, version>>

AckBuilt(w) ==
    /\ worker[w].pc = "built"
    /\ Go(w, "clear")
    /\ Settle(worker[w].m, "built")
    /\ UNCHANGED <<tasks, inProgress, blocked, queue, job, image, version>>

\* The key leaves the map only now, after the ack or nack.
ClearKey(w) ==
    /\ worker[w].pc = "clear"
    /\ inProgress' = inProgress \ {Wanted(w)}
    /\ worker' = [worker EXCEPT ![w] = Free]
    /\ UNCHANGED <<tasks, msg, blocked, queue, job, image, version>>

-------------------------------------------------------------------------------
(* Pulsar, Kubernetes and crashes *)

\* A nacked message comes back after the client's redelivery delay.  The broker
\* counts on; beyond MaxTaskRetries the count makes no difference.
Redeliver(m) ==
    /\ msg[m].at = "nacked"
    /\ msg' = [msg EXCEPT ![m].at = "topic",
                 ![m].redelivered = IF @ < MaxTaskRetries THEN @ + 1 ELSE @]
    /\ UNCHANGED <<tasks, inProgress, blocked, queue, worker, job, image, version>>

\* Everything unacknowledged is delivered again.
Unacked == [m \in DOMAIN msg |->
              IF msg[m].at = "acked" THEN msg[m] ELSE [msg[m] EXCEPT !.at = "topic"]]

\* The connection to the broker breaks; the tasks in memory go on.
Reconnect ==
    /\ \E m \in DOMAIN msg : msg[m].at \in {"held", "nacked"}
    /\ msg' = Unacked
    /\ UNCHANGED <<tasks, inProgress, blocked, queue, worker, job, image, version>>

\* The process ends; a new one starts with empty memory.
LoseMemory ==
    /\ msg' = Unacked
    /\ inProgress' = {} /\ blocked' = 0 /\ queue' = <<>>
    /\ worker' = [w \in Workers |-> Free]
    /\ UNCHANGED <<tasks, job, image, version>>

\* A pod of the job ends.  Kaniko pushes before it exits with success.
PodEnds(v) ==
    /\ \/ /\ Active(v)
          /\ job' = [job EXCEPT ![v] = "succeeded"] /\ image' = image \cup {v}
       \/ /\ Active(v)
          /\ job' = [job EXCEPT ![v] = IF @ = "first" THEN "backoff" ELSE "failed"]
          /\ UNCHANGED image
       \/ /\ job[v] = "backoff"
          /\ job' = [job EXCEPT ![v] = "second"] /\ UNCHANGED image
    /\ UNCHANGED <<tasks, msg, inProgress, blocked, queue, worker, version>>

\* The finished job is collected ten minutes later; a worker that waits for it
\* has looked at it long before.
ExpireJob(v) ==
    /\ job[v] \in {"succeeded", "failed"}
    /\ \A w \in Workers : worker[w].pc = "wait" => Wanted(w) # v
    /\ job' = [job EXCEPT ![v] = "none"]
    /\ UNCHANGED <<tasks, msg, inProgress, blocked, queue, worker, image, version>>

\* cleanup_old_jobs, at the start of build.sh: every job with a pod that ended,
\* a job on its second pod among them.
CleanJobs ==
    /\ job' = [v \in Versions |->
                 IF job[v] = "succeeded" \/ FailedPod(v) THEN "none" ELSE job[v]]
    /\ UNCHANGED <<tasks, msg, inProgress, blocked, queue, worker, image, version>>

DispatcherStep == Unblock \/ \E m \in DOMAIN msg : Receive(m)
WorkerStep(w) ==
    LaunchJob(w) \/ Succeed(w) \/ GiveUp(w) \/ AckBuilt(w) \/ ClearKey(w)
RedeliveryStep == \E m \in DOMAIN msg : Redeliver(m)
JobStep == \E v \in Versions : PodEnds(v) \/ ExpireJob(v)
QueueFault ==
    \/ Reconnect \/ \E m \in DOMAIN msg : ReceiveUnchecked(m)
    \/ \E w \in Workers : LaunchFails(w) \/ PollFails(w) \/ RecordFails(w)

-------------------------------------------------------------------------------
Busy(w) == worker[w].pc # "idle"
Queued(v) == \E i \in DOMAIN queue : tasks[queue[i]] = v
Offered(v) == blocked # 0 /\ tasks[blocked] = v

(* A version is in one place only, the dispatcher's hands, the channel or  *)
(* a worker's, whatever is delivered twice and however often it is asked   *)
(* for: two workers never build it at once.                                *)
OneAtATime ==
    /\ \A u, w \in Workers : Busy(u) /\ Busy(w) /\ Wanted(u) = Wanted(w) => u = w
    /\ \A i, j \in DOMAIN queue : tasks[queue[i]] = tasks[queue[j]] => i = j
    /\ \A w \in Workers : Busy(w) => ~Queued(Wanted(w)) /\ ~Offered(Wanted(w))
    /\ blocked # 0 => ~Queued(tasks[blocked])

SettledAs(v, why) == \E m \in DOMAIN msg : tasks[m] = v /\ msg[m].why = why

\* Version v was asked for, nothing in the system will build it any more, and
\* nobody was told.
Forgotten(v) ==
    /\ \E m \in DOMAIN tasks : tasks[m] = v
    /\ \A m \in DOMAIN tasks : tasks[m] = v => msg[m].at = "acked" /\ ~InHand(m)
    /\ v \notin image /\ ~SettledAs(v, "terminal")

(* A request that was acknowledged ends in an image or in a reported       *)
(* failure.  The two ways out of that are the dispatcher's: it takes a     *)
(* message for superfluous because the job of that name is active, though  *)
(* no worker may be waiting for the job; or because its key is in          *)
(* progress, though the message is the one in progress.                    *)
LostOnlyIfSkipped ==
    \A v \in Versions : Forgotten(v) => SettledAs(v, "active") \/ SettledAs(v, "self")
===============================================================================
