--------------------------- MODULE BuildLockProofs ----------------------------
(***************************************************************************)
(* The build lock for any number of shells and any number of runs: its     *)
(* types, and that shells are alone between acquire_lock and release_lock  *)
(* as long as nobody is disturbed.  Exclusion is not inductive: what makes *)
(* it so is that the row belongs to the shell that holds the lock, and     *)
(* that a row about to be deleted as stale is never a live shell's.        *)
(***************************************************************************)
EXTENDS BuildLock, TLAPS

\* The lock's row is the holder's, and fresh.
RowIsHolders ==
    \A b \in Builders :
        Holds(b) => row = {[id |-> builder[b].mine, stale |-> FALSE]}

\* The row that a shell read as stale and is about to delete has no live owner.
SeenIsDead ==
    \A a, b \in Builders :
        builder[b].pc = "delete" /\ Holds(a) => builder[b].seen # builder[a].mine

AloneInside == \A a, b \in Builders : Holds(a) /\ Holds(b) => a = b

LockInv ==
    /\ LockTypeOK
    /\ ~disturbed => RowIsHolders /\ SeenIsDead /\ AloneInside

\* A shell that goes on with row id, which need not be there.
LEMMA ProceedType ==
    ASSUME LockTypeOK, NEW b \in Builders, NEW last \in Nat, lastId <= last,
           NEW id \in 0..last, Proceed(b, id)
    PROVE  /\ builder' \in [Builders ->
                 [pc : {"idle", "create", "query", "delete", "held", "dead"},
                  seen : 0..last, mine : 0..last]]
           /\ beating' \in SUBSET Builders
    BY DEF LockTypeOK, Proceed

\* The row renewed or aged is still at most one row with a known id.
LEMMA RewrittenType ==
    ASSUME LockTypeOK, NEW s \in BOOLEAN
    PROVE  LET rows == {[r EXCEPT !.stale = s] : r \in row}
           IN  /\ rows \in SUBSET [id : 1..lastId, stale : BOOLEAN]
               /\ \A r, q \in rows : r = q
<1>1. \A r \in row : [r EXCEPT !.stale = s] \in [id : 1..lastId, stale : BOOLEAN]
    BY DEF LockTypeOK
<1>2. \A r, q \in row : r = q
    BY DEF LockTypeOK
<1> QED BY <1>1, <1>2

\* Every step of the lock keeps its types.
LEMMA TypeStep == LockTypeOK /\ [LockNext]_lockVars => LockTypeOK'
<1> SUFFICES ASSUME LockTypeOK, [LockNext]_lockVars PROVE LockTypeOK'
    OBVIOUS
<1>1. ASSUME NEW b \in Builders, StartBuild(b) PROVE LockTypeOK'
    BY <1>1, BuildLockAssumption DEF StartBuild, LockTypeOK, Resting
<1>2. ASSUME NEW b \in Builders, CreateLock(b) PROVE LockTypeOK'
    <2>1. CASE row = {} /\ Proceed(b, lastId + 1)
        <3>1. lastId' = lastId + 1 /\ row' = {[id |-> lastId + 1, stale |-> FALSE]}
            BY <1>2, <2>1 DEF CreateLock
        <3>2. lastId + 1 \in Nat \ {0} /\ lastId <= lastId + 1
            BY DEF LockTypeOK
        <3>3. /\ builder' \in [Builders ->
                     [pc : {"idle", "create", "query", "delete", "held", "dead"},
                      seen : 0..(lastId + 1), mine : 0..(lastId + 1)]]
              /\ beating' \in SUBSET Builders
            BY <2>1, <3>2, ProceedType
        <3>4. row' \in SUBSET [id : 1..(lastId + 1), stale : BOOLEAN]
            BY <3>1, <3>2
        <3> QED BY <1>2, <3>1, <3>2, <3>3, <3>4 DEF CreateLock, LockTypeOK
    <2>2. CASE row # {}
        BY <1>2, <2>2 DEF CreateLock, LockTypeOK
    <2> QED BY <1>2, <2>1, <2>2 DEF CreateLock
<1>3. ASSUME NEW b \in Builders, QueryLock(b) PROVE LockTypeOK'
    <2>1. CASE Proceed(b, 0) /\ disturbed' = TRUE
        <3>1. lastId \in Nat /\ lastId <= lastId /\ 0 \in 0..lastId
            BY DEF LockTypeOK
        <3> QED BY <1>3, <2>1, <3>1, ProceedType DEF QueryLock, LockTypeOK
    <2>2. ASSUME NEW r \in row, UNCHANGED <<beating, disturbed>>,
                 \/ builder' = [builder EXCEPT ![b].pc = "delete", ![b].seen = r.id]
                 \/ \E next \in {"create", "idle"} :
                        builder' = [builder EXCEPT ![b].pc = next]
          PROVE LockTypeOK'
        <3>1. r.id \in 0..lastId
            BY DEF LockTypeOK
        <3> QED BY <1>3, <2>2, <3>1 DEF QueryLock, LockTypeOK
    <2> QED BY <1>3, <2>1, <2>2 DEF QueryLock
<1>4. ASSUME NEW b \in Builders, DeleteStaleLock(b) PROVE LockTypeOK'
    <2>1. row' \subseteq row /\ lastId' = lastId
        BY <1>4 DEF DeleteStaleLock
    <2>2. builder' \in [Builders ->
             [pc : {"idle", "create", "query", "delete", "held", "dead"},
              seen : 0..lastId, mine : 0..lastId]]
        <3>1. builder' = [builder EXCEPT ![b] = [@ EXCEPT !.pc = "create", !.seen = 0]]
            BY <1>4 DEF DeleteStaleLock, LockTypeOK
        <3>2. 0 \in 0..lastId
            BY DEF LockTypeOK
        <3> QED BY <3>1, <3>2 DEF LockTypeOK
    <2> QED BY <1>4, <2>1, <2>2 DEF DeleteStaleLock, LockTypeOK
<1>5. ASSUME NEW b \in Builders, Unreachable(b) PROVE LockTypeOK'
    <2>1. lastId \in Nat /\ lastId <= lastId /\ 0 \in 0..lastId
        BY DEF LockTypeOK
    <2> QED BY <1>5, <2>1, ProceedType DEF Unreachable, LockTypeOK
<1>6. ASSUME NEW b \in Builders, Heartbeat(b) PROVE LockTypeOK'
    <2>1. CASE row' = {[r EXCEPT !.stale = FALSE] : r \in row}
        BY <1>6, <2>1, RewrittenType DEF Heartbeat, LockTypeOK
    <2>2. CASE UNCHANGED row
        BY <1>6, <2>2 DEF Heartbeat, LockTypeOK
    <2> QED BY <1>6, <2>1, <2>2 DEF Heartbeat
<1>7. ASSUME NEW b \in Builders, ReleaseLock(b) PROVE LockTypeOK'
    BY <1>7 DEF ReleaseLock, LockTypeOK, Resting
<1>8. ASSUME NEW b \in Builders, KillBuilder(b) PROVE LockTypeOK'
    BY <1>8 DEF KillBuilder, LockTypeOK, Resting
<1>9. CASE Age
    BY <1>9, RewrittenType DEF Age, LockTypeOK
<1>10. CASE ResetLocks \/ ApiDown \/ ApiUp
    BY <1>10 DEF ResetLocks, ApiDown, ApiUp, LockTypeOK
<1>11. CASE UNCHANGED lockVars
    BY <1>11 DEF lockVars, LockTypeOK
<1> QED
    BY <1>1, <1>2, <1>3, <1>4, <1>5, <1>6, <1>7, <1>8, <1>9, <1>10, <1>11
       DEF LockNext, LockStep, LockFault, GrowStale, MissHeartbeats

\* The initial states are well typed.
LEMMA InitTypes == LockInit => LockTypeOK
<1> SUFFICES ASSUME LockInit PROVE LockTypeOK
    OBVIOUS
<1>1. row \in SUBSET [id : 1..lastId, stale : BOOLEAN] /\ \A r, s \in row : r = s
    <2>1. [id |-> 1, stale |-> FALSE] \in [id : 1..lastId, stale : BOOLEAN]
        BY DEF LockInit
    <2> QED BY <2>1 DEF LockInit
<1>2. Resting \in [pc : {"idle", "create", "query", "delete", "held", "dead"},
                  seen : 0..lastId, mine : 0..lastId]
    BY DEF LockInit, Resting
<1>3. builder \in [Builders ->
          [pc : {"idle", "create", "query", "delete", "held", "dead"},
           seen : 0..lastId, mine : 0..lastId]]
    BY <1>2 DEF LockInit
<1>4. lastId \in Nat \ {0} /\ runs \in 0..MaxRuns
    BY BuildLockAssumption DEF LockInit
<1>5. beating \in SUBSET Builders /\ up \in BOOLEAN /\ disturbed \in BOOLEAN
    BY DEF LockInit
<1> QED BY <1>1, <1>3, <1>4, <1>5 DEF LockTypeOK

(* The types of the lock table and of its shells. *)
THEOREM LockTypes == LockSpec => []LockTypeOK
<1> QED BY InitTypes, TypeStep, PTL DEF LockSpec

-------------------------------------------------------------------------------
(* Exclusion *)

\* While a shell holds the lock undisturbed, no row is stale, none is missing.
LEMMA HolderHasRow ==
    ASSUME LockInv, ~disturbed, NEW b \in Builders, Holds(b)
    PROVE  /\ row # {}
           /\ \A r \in row : r.id = builder[b].mine /\ r.stale = FALSE
<1>1. row = {[id |-> builder[b].mine, stale |-> FALSE]}
    BY DEF LockInv, RowIsHolders
<1> QED BY <1>1

\* A step by which nobody comes in and the row keeps its owner changes nothing
\* that matters.
LEMMA NobodyNew ==
    ASSUME LockInv, disturbed' = disturbed,
           \A a \in Builders : Holds(a)' => Holds(a) /\ UNCHANGED builder[a],
           \A a \in Builders : builder'[a].pc = "delete" => UNCHANGED builder[a],
           (\E a \in Builders : Holds(a)') => UNCHANGED row
    PROVE  ~disturbed' => (RowIsHolders /\ SeenIsDead /\ AloneInside)'
<1> SUFFICES ASSUME ~disturbed' PROVE (RowIsHolders /\ SeenIsDead /\ AloneInside)'
    OBVIOUS
<1>1. RowIsHolders /\ SeenIsDead /\ AloneInside
    BY DEF LockInv
<1>2. RowIsHolders'
    BY <1>1 DEF RowIsHolders, Holds
<1>3. SeenIsDead'
    BY <1>1 DEF SeenIsDead, Holds
<1>4. AloneInside'
    BY <1>1 DEF AloneInside, Holds
<1> QED BY <1>2, <1>3, <1>4

\* The strengthened invariant is kept by every step.
LEMMA ExclusionStep == LockInv /\ [LockNext]_lockVars => LockInv'
<1> SUFFICES ASSUME LockInv, [LockNext]_lockVars PROVE LockInv'
    OBVIOUS
<1> DEFINE Excl == ~disturbed => RowIsHolders /\ SeenIsDead /\ AloneInside
<1>0. LockTypeOK /\ LockTypeOK'
    BY TypeStep DEF LockInv
<1>1. ASSUME NEW b \in Builders, StartBuild(b) PROVE Excl'
    BY <1>0, <1>1, NobodyNew DEF StartBuild, Holds, LockTypeOK, Resting
<1>2. ASSUME NEW b \in Builders, CreateLock(b) PROVE Excl'
    <2>1. CASE row = {} /\ Proceed(b, lastId + 1)
        <3>1. /\ row' = {[id |-> lastId + 1, stale |-> FALSE]}
              /\ disturbed' = disturbed
            BY <1>2, <2>1 DEF CreateLock
        <3>2. SUFFICES ASSUME ~disturbed' PROVE (RowIsHolders /\ SeenIsDead /\ AloneInside)'
            OBVIOUS
        <3>3. \A a \in Builders : ~Holds(a)
            BY <2>1, <3>1, <3>2, HolderHasRow
        <3>4. /\ builder'[b] = [pc |-> "held", seen |-> 0, mine |-> lastId + 1]
              /\ \A a \in Builders : a # b => builder'[a] = builder[a]
            BY <2>1, <1>0 DEF Proceed, LockTypeOK
        <3>5. \A a \in Builders : Holds(a)' => a = b
            BY <3>3, <3>4 DEF Holds
        <3>6. \A a \in Builders : builder[a].seen \in 0..lastId
            BY <1>0 DEF LockTypeOK
        <3>7. \A a \in Builders : builder[a].seen # lastId + 1
            BY <1>0, <3>6 DEF LockTypeOK
        <3>8. RowIsHolders'
            BY <3>1, <3>4, <3>5 DEF RowIsHolders
        <3>9. SeenIsDead'
            BY <3>4, <3>5, <3>7 DEF SeenIsDead
        <3> QED BY <3>5, <3>8, <3>9 DEF AloneInside
    <2>2. CASE row # {} /\ builder' = [builder EXCEPT ![b].pc = "query"]
        BY <1>0, <1>2, <2>2, NobodyNew DEF CreateLock, Holds, LockTypeOK
    <2> QED BY <1>2, <2>1, <2>2 DEF CreateLock
<1>3. ASSUME NEW b \in Builders, QueryLock(b) PROVE Excl'
    <2>1. CASE disturbed' = TRUE
        BY <2>1
    <2>2. ASSUME NEW r \in row, r.stale, UNCHANGED <<disturbed, row>>,
                 builder' = [builder EXCEPT ![b].pc = "delete", ![b].seen = r.id]
          PROVE  Excl'
        <3>1. SUFFICES ASSUME ~disturbed PROVE (RowIsHolders /\ SeenIsDead /\ AloneInside)'
            BY <2>2
        <3>2. \A a \in Builders : ~Holds(a)
            BY <2>2, <3>1, HolderHasRow
        <3>3. \A a \in Builders : ~Holds(a)'
            BY <1>0, <2>2, <3>2 DEF Holds, LockTypeOK
        <3> QED BY <3>3 DEF RowIsHolders, SeenIsDead, AloneInside
    <2>3. ASSUME NEW next \in {"create", "idle"}, UNCHANGED <<disturbed, row>>,
                 builder[b].pc = "query",
                 builder' = [builder EXCEPT ![b].pc = next]
          PROVE  Excl'
        BY <1>0, <2>3, NobodyNew DEF Holds, LockTypeOK
    <2> QED BY <1>3, <2>1, <2>2, <2>3 DEF QueryLock
<1>4. ASSUME NEW b \in Builders, DeleteStaleLock(b) PROVE Excl'
    <2>1. /\ builder'[b].pc = "create"
          /\ \A a \in Builders : a # b => builder'[a] = builder[a]
          /\ disturbed' = disturbed /\ builder[b].pc = "delete"
          /\ row' = {r \in row : r.id # builder[b].seen}
        BY <1>0, <1>4 DEF DeleteStaleLock, LockTypeOK
    <2>2. SUFFICES ASSUME ~disturbed PROVE (RowIsHolders /\ SeenIsDead /\ AloneInside)'
        BY <2>1
    <2>3. (\E a \in Builders : Holds(a)') => UNCHANGED row
        BY <2>1, <2>2, HolderHasRow DEF Holds, LockInv, SeenIsDead
    <2> QED BY <2>1, <2>2, <2>3, NobodyNew DEF Holds
<1>5. ASSUME NEW b \in Builders, Unreachable(b) PROVE Excl'
    BY <1>5 DEF Unreachable
<1>6. ASSUME NEW b \in Builders, Heartbeat(b) PROVE Excl'
    <2>1. UNCHANGED <<builder, disturbed>>
        BY <1>6 DEF Heartbeat
    <2>2. ~disturbed /\ (\E a \in Builders : Holds(a)) => UNCHANGED row
        BY <1>6, HolderHasRow DEF Heartbeat
    <2>3. CASE disturbed
        BY <2>1, <2>3
    <2>4. CASE ~disturbed
        BY <2>1, <2>2, <2>4, NobodyNew DEF Holds
    <2> QED BY <2>3, <2>4
<1>7. ASSUME NEW b \in Builders, ReleaseLock(b) PROVE Excl'
    <2>1. /\ builder'[b].pc = "idle" /\ Holds(b)
          /\ \A a \in Builders : a # b => builder'[a] = builder[a]
          /\ disturbed' = disturbed
        BY <1>0, <1>7 DEF ReleaseLock, LockTypeOK, Holds, Resting
    <2>2. SUFFICES ASSUME ~disturbed PROVE (RowIsHolders /\ SeenIsDead /\ AloneInside)'
        BY <2>1
    <2>3. \A a \in Builders : ~Holds(a)'
        BY <2>1, <2>2 DEF LockInv, AloneInside, Holds
    <2> QED BY <2>3 DEF RowIsHolders, SeenIsDead, AloneInside
<1>8. ASSUME NEW b \in Builders, KillBuilder(b) PROVE Excl'
    BY <1>0, <1>8, NobodyNew DEF KillBuilder, Holds, LockTypeOK, Resting
<1>9. ASSUME Age \/ ResetLocks PROVE Excl'
    <2>1. UNCHANGED builder /\ (disturbed => disturbed')
        BY <1>9 DEF Age, ResetLocks
    <2>2. SUFFICES ASSUME ~disturbed' PROVE (RowIsHolders /\ SeenIsDead /\ AloneInside)'
        OBVIOUS
    <2>3. \A a \in Builders : ~Holds(a)
        BY <1>9, <2>1, <2>2, HolderHasRow DEF Age, ResetLocks, OwnerAlive
    <2> QED BY <2>1, <2>3 DEF RowIsHolders, SeenIsDead, AloneInside, Holds
<1>10. ASSUME ApiDown \/ ApiUp \/ UNCHANGED lockVars PROVE Excl'
    BY <1>10, NobodyNew DEF ApiDown, ApiUp, lockVars, Holds
<1>11. Excl'
    BY <1>1, <1>2, <1>3, <1>4, <1>5, <1>6, <1>7, <1>8, <1>9, <1>10
       DEF LockNext, LockStep, LockFault, GrowStale, MissHeartbeats
<1> QED BY <1>0, <1>11 DEF LockInv

(* Two shells are inside the lock at once only after a disturbance; breaking  *)
(* a stale lock, by any number of shells at once, is none.                    *)
THEOREM Exclusion == LockSpec => []LockExcludes
<1>1. LockInit => LockInv
    BY InitTypes DEF LockInit, LockInv, Resting, RowIsHolders, SeenIsDead, AloneInside, Holds
<1>2. LockInv => LockExcludes
    BY DEF LockInv, AloneInside, LockExcludes
<1> QED BY <1>1, <1>2, ExclusionStep, PTL DEF LockSpec
===============================================================================
