------------------------------ MODULE BuildLock -------------------------------
(***************************************************************************)
(* The lock of one service: the build_locks table behind the build         *)
(* orchestrator's HTTP interface, and the runs of build.sh that take it.   *)
(* AcquireLock is three database calls with nothing around them; the       *)
(* script decides from the text of the answer whether it holds the lock,   *)
(* renews it from a background loop, and releases it by service name.      *)
(*                                                                         *)
(* Time is not counted: a row is stale once two minutes have passed since  *)
(* its heartbeat, which a renewing loop normally prevents.                 *)
(***************************************************************************)
EXTENDS Integers, FiniteSets

CONSTANTS
    Builders,     \* build_service shells that may run at the same time
    MaxRuns       \* bound: how many times build_service is started

ASSUME BuildLockAssumption == IsFiniteSet(Builders) /\ MaxRuns \in Nat

VARIABLES
    row,        \* build_locks for the service: at most one row, its key is unique
    lastId,     \* ids already given to rows
    builder,    \* each shell: where it is, the row it read, the row it created
    beating,    \* shells whose heartbeat loop is alive
    up,         \* does the orchestrator answer HTTP requests?
    runs,       \* build_service calls so far
    disturbed   \* history: someone went on without a row, or a live row expired

lockVars == <<row, lastId, builder, beating, up, runs, disturbed>>

Resting == [pc |-> "idle", seen |-> 0, mine |-> 0]

LockTypeOK ==
    /\ row \in SUBSET [id : 1..lastId, stale : BOOLEAN]
    /\ \A r, s \in row : r = s
    /\ lastId \in Nat \ {0} /\ runs \in 0..MaxRuns
    /\ builder \in [Builders ->
          [pc : {"idle", "create", "query", "delete", "held", "dead"},
           seen : 0..lastId, mine : 0..lastId]]
    /\ beating \in SUBSET Builders
    /\ up \in BOOLEAN /\ disturbed \in BOOLEAN

\* A shell that died earlier may have left its row.
LockInit ==
    /\ lastId = 1 /\ row \in {{}, {[id |-> 1, stale |-> FALSE]}}
    /\ builder = [b \in Builders |-> Resting]
    /\ beating = {} /\ up = TRUE /\ runs = 0
    /\ disturbed = FALSE

\* b is between acquire_lock and release_lock.
Holds(b) == builder[b].pc = "held"

\* The shell that created row r is still at work.
OwnerAlive(r) == \E b \in Builders : Holds(b) /\ builder[b].mine = r.id

-------------------------------------------------------------------------------
(* acquire_lock *)

StartBuild(b) ==
    /\ builder[b].pc = "idle" /\ runs < MaxRuns
    /\ builder' = [builder EXCEPT ![b] = [Resting EXCEPT !.pc = "create"]]
    /\ runs' = runs + 1
    /\ UNCHANGED <<row, lastId, beating, up, disturbed>>

\* The script goes on, its heartbeat loop in the background.
Proceed(b, id) ==
    /\ builder' = [builder EXCEPT ![b] = [pc |-> "held", seen |-> 0, mine |-> id]]
    /\ beating' = beating \cup {b}

\* Mutant: the service's name is not a unique key.
MutCreateAlways(b) ==
    /\ up /\ builder[b].pc = "create"
    /\ row' = row \cup {[id |-> lastId + 1, stale |-> FALSE]}
    /\ lastId' = lastId + 1
    /\ Proceed(b, lastId + 1)
    /\ UNCHANGED <<up, runs, disturbed>>

\* The INSERT: the unique key decides.
CreateLock(b) ==
    /\ up /\ builder[b].pc = "create"
    /\ \/ /\ row = {}
          /\ row' = {[id |-> lastId + 1, stale |-> FALSE]}
          /\ lastId' = lastId + 1
          /\ Proceed(b, lastId + 1)
       \/ /\ row # {}
          /\ builder' = [builder EXCEPT ![b].pc = "query"]
          /\ UNCHANGED <<row, lastId, beating>>
    /\ UNCHANGED <<up, runs, disturbed>>

\* The SELECT after a failed INSERT.  A row that has gone in the meantime is an
\* error: the answer has no "service_name" in it, so the script goes on as if it
\* had the lock.  A fresh row is a conflict: wait and ask again, or give up.
QueryLock(b) ==
    /\ up /\ builder[b].pc = "query"
    /\ \/ /\ row = {} /\ Proceed(b, 0) /\ disturbed' = TRUE
       \/ /\ \E r \in row :
              \/ /\ r.stale
                 /\ builder' = [builder EXCEPT ![b].pc = "delete", ![b].seen = r.id]
              \/ /\ ~r.stale
                 /\ \E next \in {"create", "idle"} :
                      builder' = [builder EXCEPT ![b].pc = next]
          /\ UNCHANGED <<beating, disturbed>>
    /\ UNCHANGED <<row, lastId, up, runs>>

\* Mutant: the stale lock is deleted by service name.
MutDeleteByName(b) ==
    /\ up /\ builder[b].pc = "delete"
    /\ row' = {}
    /\ builder' = [builder EXCEPT ![b].pc = "create", ![b].seen = 0]
    /\ UNCHANGED <<lastId, beating, up, runs, disturbed>>

\* DeleteOne: by the id of the row that was read, if it is still there.
DeleteStaleLock(b) ==
    /\ up /\ builder[b].pc = "delete"
    /\ row' = {r \in row : r.id # builder[b].seen}
    /\ builder' = [builder EXCEPT ![b].pc = "create", ![b].seen = 0]
    /\ UNCHANGED <<lastId, beating, up, runs, disturbed>>

\* curl fails; "local response=$(curl ...)" leaves the status 0 and the answer
\* empty, which the script takes for success.
Unreachable(b) ==
    /\ ~up /\ builder[b].pc \in {"create", "query", "delete"}
    /\ Proceed(b, 0) /\ disturbed' = TRUE
    /\ UNCHANGED <<row, lastId, up, runs>>

-------------------------------------------------------------------------------
(* The heartbeat loop and release_lock *)

\* By service name: whoever's row it is.  The shell has -e, so the loop ends
\* with the first curl that cannot connect.
Heartbeat(b) ==
    /\ b \in beating
    /\ \/ /\ up /\ \E r \in row : r.stale
          /\ row' = {[r EXCEPT !.stale = FALSE] : r \in row}
          /\ UNCHANGED beating
       \/ /\ ~up
          /\ beating' = beating \ {b}
          /\ UNCHANGED row
    /\ UNCHANGED <<lastId, builder, up, runs, disturbed>>

\* release_lock ends the loop, and deletes by service name: whoever's row it is.
ReleaseLock(b) ==
    /\ builder[b].pc = "held"
    /\ builder' = [builder EXCEPT ![b] = Resting]
    /\ beating' = beating \ {b}
    /\ row' = IF up THEN {} ELSE row
    /\ UNCHANGED <<lastId, up, runs, disturbed>>

-------------------------------------------------------------------------------
(* Time and faults *)

Age == /\ \E r \in row : ~r.stale /\ disturbed' = (disturbed \/ OwnerAlive(r))
       /\ row' = {[r EXCEPT !.stale = TRUE] : r \in row}
       /\ UNCHANGED <<lastId, builder, beating, up, runs>>

\* Two minutes pass and nobody renews the row.
GrowStale == beating = {} /\ Age

\* Two minutes in which the renewals do not get through.
MissHeartbeats == beating # {} /\ Age

\* The shell is killed and its EXIT trap with it; the loop may live on.
KillBuilder(b) ==
    /\ builder[b].pc = "held"
    /\ builder' = [builder EXCEPT ![b] = [Resting EXCEPT !.pc = "dead"]]
    /\ beating' \in {beating, beating \ {b}}
    /\ UNCHANGED <<row, lastId, up, runs, disturbed>>

\* An operator calls /api/build/locks/reset.
ResetLocks ==
    /\ row # {} /\ row' = {}
    /\ disturbed' = (disturbed \/ \E r \in row : OwnerAlive(r))
    /\ UNCHANGED <<lastId, builder, beating, up, runs>>

ApiDown == up /\ up' = FALSE /\ UNCHANGED <<row, lastId, builder, beating, runs, disturbed>>
ApiUp == ~up /\ up' = TRUE /\ UNCHANGED <<row, lastId, builder, beating, runs, disturbed>>

LockStep(b) ==
    \/ StartBuild(b) \/ CreateLock(b) \/ QueryLock(b) \/ DeleteStaleLock(b)
    \/ Unreachable(b) \/ Heartbeat(b) \/ ReleaseLock(b)

LockFault == MissHeartbeats \/ ResetLocks \/ ApiDown \/ \E b \in Builders : KillBuilder(b)

LockNext == (\E b \in Builders : LockStep(b)) \/ GrowStale \/ ApiUp \/ LockFault

LockSpec == LockInit /\ [][LockNext]_lockVars

-------------------------------------------------------------------------------
(* Two shells are between acquire_lock and release_lock at once only after *)
(* one of them went on without a row (its INSERT lost to a holder that     *)
(* released before the SELECT, or the orchestrator did not answer) or a    *)
(* live holder's row expired or was reset.  Breaking the stale lock of a   *)
(* dead shell, by several shells at once, never admits two.                *)
LockExcludes ==
    ~disturbed => \A a, b \in Builders : Holds(a) /\ Holds(b) => a = b
===============================================================================
