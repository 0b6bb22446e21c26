----------------------------- MODULE BuildSystem ------------------------------
(***************************************************************************)
(* build.sh, the build lock and the build orchestrator together, for one   *)
(* service.  Between acquiring and releasing the lock a shell reads the    *)
(* service's version over HTTP, increments it when the sources changed,    *)
(* writes it back and asks for a build.  The orchestrator's workers write  *)
(* the same row when a build ends, and its start writes it from a file.    *)
(***************************************************************************)
EXTENDS BuildLock, BuildQueue

CONSTANTS
    MaxFaults     \* bound: kills, restarts, failing calls, lost heartbeats

ASSUME BuildSystemAssumption == MaxFaults \in Nat /\ Versions = 0..MaxRuns

VARIABLES
    section,      \* each shell inside the lock: its step and version
    behind,     \* history: a recorded version was set back, not written or not read
    faults

vars == <<lockVars, queueVars, section, behind, faults>>

Outside == [pc |-> "read", ver |-> 0]
FirstVersion == 0         \* "1.0.0", and what the script falls back to

TypeOK ==
    /\ LockTypeOK /\ QueueTypeOK
    /\ section \in [Builders -> [pc : {"read", "write", "send"}, ver : Versions]]
    /\ behind \in BOOLEAN /\ faults \in 0..MaxFaults

Init ==
    /\ LockInit /\ QueueInit(FirstVersion)
    /\ section = [b \in Builders |-> Outside]
    /\ behind = FALSE /\ faults = 0

InSection(b, pc) == builder[b].pc = "held" /\ section[b].pc = pc

\* build_service returns, or fails: its EXIT trap releases the lock.
Leave(b) == ReleaseLock(b) /\ section' = [section EXCEPT ![b] = Outside]

\* The version the step writes is older than the one it replaces.
NoteVersion == behind' = (behind \/ version' < version)

-------------------------------------------------------------------------------
(* build_service, inside the lock *)

\* get_svc_version, get_svc_last_build and is_unchanged.  Without an answer the
\* version is "1.0.0" and the sources count as changed.  Every row has a
\* last_build, so with answers a build starts for changed sources only.
ReadVersion(b) ==
    /\ InSection(b, "read")
    /\ section' = [section EXCEPT ![b] =
                     [pc |-> "write", ver |-> IF up THEN version ELSE FirstVersion]]
    /\ UNCHANGED <<lockVars, queueVars, behind, faults>>

SkipBuild(b) ==
    /\ InSection(b, "read") /\ up
    /\ Leave(b)
    /\ UNCHANGED <<queueVars, behind, faults>>

\* One of the calls has no answer and another has: the sources are unchanged but
\* last_build is empty, so the version that was read is built again, unless a job
\* of that name is there; or the sources have changed and the version is "1.0.0".
ReadFails(b) ==
    /\ InSection(b, "read") /\ up
    /\ \/ /\ \E ver \in {version, FirstVersion} :
               \/ job[ver] # "none" /\ Leave(b)
               \/ /\ job[ver] = "none"
                  /\ section' = [section EXCEPT ![b] = [pc |-> "send", ver |-> ver]]
                  /\ UNCHANGED lockVars
          /\ UNCHANGED behind
       \/ /\ section' = [section EXCEPT ![b] = [pc |-> "write", ver |-> FirstVersion]]
          /\ behind' = (behind \/ FirstVersion < version)
          /\ UNCHANGED lockVars
    /\ UNCHANGED queueVars

\* Mutant: the version is left for the worker to record when the build is done.
MutRecordLater(b) ==
    /\ InSection(b, "write") /\ up
    /\ section' = [section EXCEPT ![b] = [pc |-> "send", ver |-> @.ver + 1]]
    /\ UNCHANGED <<lockVars, queueVars, behind, faults>>

\* update_svc_info and mark_unchanged.
WriteVersion(b) ==
    /\ InSection(b, "write") /\ up
    /\ section' = [section EXCEPT ![b] = [pc |-> "send", ver |-> @.ver + 1]]
    /\ version' = section[b].ver + 1 /\ NoteVersion
    /\ UNCHANGED <<lockVars, tasks, msg, inProgress, blocked, queue, worker, job, image, faults>>

\* curl fails, and the shell with it.
WriteFails(b) ==
    /\ InSection(b, "write") /\ ~up
    /\ Leave(b)
    /\ UNCHANGED <<queueVars, behind, faults>>

\* The request fails with a status curl does not look at; the script goes on.
WriteLost(b) ==
    /\ InSection(b, "write") /\ up
    /\ section' = [section EXCEPT ![b] = [pc |-> "send", ver |-> @.ver + 1]]
    /\ behind' = TRUE
    /\ UNCHANGED <<lockVars, queueVars>>

\* An image of that name is taken for this build, and its version recorded.
Trigger(b) ==
    /\ InSection(b, "send")
    /\ \/ /\ section[b].ver \in image
          /\ version' = IF up THEN section[b].ver ELSE version
          /\ UNCHANGED <<tasks, msg, inProgress, blocked, queue, worker, job, image>>
       \/ section[b].ver \notin image /\ Publish(section[b].ver)
    /\ NoteVersion
    /\ Leave(b)
    /\ UNCHANGED faults

\* trigger-build.sh fails before it has sent the task.
TriggerFails(b) ==
    /\ InSection(b, "send") /\ section[b].ver \notin image
    /\ Leave(b)
    /\ UNCHANGED <<queueVars, behind>>

-------------------------------------------------------------------------------
(* Composition *)

\* A build.sh begins with cleanup_old_jobs; the lock's other steps keep out of
\* the queue.
BuilderStep(b) ==
    \/ StartBuild(b) /\ CleanJobs /\ UNCHANGED <<section, behind, faults>>
    \/ /\ \/ CreateLock(b) \/ QueryLock(b) \/ DeleteStaleLock(b) \/ Unreachable(b)
          \/ Heartbeat(b)
       /\ UNCHANGED <<queueVars, section, behind, faults>>
    \/ ReadVersion(b) \/ SkipBuild(b) \/ WriteVersion(b) \/ WriteFails(b) \/ Trigger(b)

OrchestratorStep ==
    /\ up
    /\ DispatcherStep \/ \E w \in Workers : WorkerStep(w)
    /\ NoteVersion
    /\ UNCHANGED <<lockVars, section, faults>>

Redelivery == RedeliveryStep /\ UNCHANGED <<lockVars, section, behind, faults>>
Cluster == JobStep /\ UNCHANGED <<lockVars, section, behind, faults>>
Clock == GrowStale /\ UNCHANGED <<queueVars, section, behind, faults>>

Fault == faults < MaxFaults /\ faults' = faults + 1

Faults ==
    /\ Fault
    /\ \/ /\ MissHeartbeats \/ ResetLocks \/ \E b \in Builders : KillBuilder(b)
          /\ UNCHANGED <<queueVars, section, behind>>
       \/ up /\ QueueFault /\ UNCHANGED <<lockVars, section, behind>>
       \/ \E b \in Builders : ReadFails(b) \/ WriteLost(b) \/ TriggerFails(b)
       \/ ApiDown /\ LoseMemory /\ UNCHANGED <<section, behind>>

\* SeedFromCurrentVersionFile: the file is as old as the deployment.
Restart ==
    /\ ApiUp
    /\ version' = FirstVersion /\ NoteVersion
    /\ UNCHANGED <<tasks, msg, inProgress, blocked, queue, worker, job, image, section, faults>>

Next ==
    \/ \E b \in Builders : BuilderStep(b)
    \/ OrchestratorStep \/ Redelivery \/ Cluster \/ Clock \/ Faults \/ Restart

\* Only this: the system as a whole does not stop while the orchestrator, the
\* broker or the deployment has something to do.  Nobody has to start a build or
\* leave a lock, and no pod has to start or to end: jobs have no deadline.
Fairness == WF_vars(OrchestratorStep \/ Redelivery \/ Restart)

Spec == Init /\ [][Next]_vars /\ Fairness

-------------------------------------------------------------------------------
(* Job names and images carry no more than the version, so a second        *)
(* request under one version never builds its own sources.  With the lock  *)
(* undisturbed, and as long as nobody sets the recorded version back (a    *)
(* late build that records its own, a restart that seeds it, a shell that  *)
(* could not read it), changed sources get a version nobody has asked for. *)
VersionsUnique ==
    [][~disturbed /\ ~behind =>
         \A b \in Builders : WriteVersion(b) =>
             \A m \in DOMAIN tasks : tasks[m] # section'[b].ver]_vars

\* A worker polls a job for as long as it is on its first pod, which may be for
\* ever: one that cannot pull its image neither succeeds nor fails.
Waits(w) == worker[w].pc = "wait" /\ job[Wanted(w)] = "first"

Outstanding(v) == \E m \in DOMAIN msg : tasks[m] = v /\ msg[m].at # "acked"

(* Through failures and restarts, a task stays on the topic for ever only  *)
(* if its own job is on its first pod for ever, or if every worker waits   *)
(* for such a job, so that the channel fills and the dispatcher is stuck.  *)
(* Nothing else holds it: retries end, and no key stays in the in-progress *)
(* map to keep a task from being built.                                    *)
RequestsSettle ==
    \A v \in Versions : <>[]Outstanding(v) =>
        <>[](job[v] = "first") \/ \A w \in Workers : <>[]Waits(w)
===============================================================================
