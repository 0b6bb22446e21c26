-------------------------- MODULE BuildSystemProofs ---------------------------
(***************************************************************************)
(* The build pipeline as a whole, for any number of shells, workers, runs  *)
(* and faults.                                                             *)
(*                                                                         *)
(* A version is in one place only.  What carries it is the in-progress     *)
(* map: whatever the dispatcher offers, the channel holds or a worker has, *)
(* has its key in the map, and only a worker that is done takes it out.    *)
(*                                                                         *)
(* The pipeline follows the lock's protocol, so what is proved of the lock *)
(* holds in it.                                                            *)
(*                                                                         *)
(* Versions end with the number of builds: a shell increments once in a    *)
(* run, so version numbers and the shells with an increment left are       *)
(* together no more than the runs.                                         *)
(*                                                                         *)
(* A request is not lost because of what a settled message leaves behind:  *)
(* an image, a report, or, for a duplicate, another message of its version *)
(* that was not one.                                                       *)
(*                                                                         *)
(* The recorded version leads: while nothing is disturbed or set back, no  *)
(* task has a version beyond it, and the one shell that is to increment    *)
(* has read it, so the version it writes is new.                           *)
(***************************************************************************)
EXTENDS BuildSystem, BuildLockProofs, SequenceTheorems, FiniteSetTheorems

-------------------------------------------------------------------------------
(* The queue *)

Records == [at : Positions, redelivered : 0..MaxTaskRetries, why : Reasons]
Pcs == {"idle", "wait", "built", "clear"}

\* The types the places need: a message in hand is one that was published.
Shapes ==
    /\ tasks \in Seq(Nat) /\ msg \in Seq(Records) /\ Len(msg) = Len(tasks)
    /\ blocked \in 0..Len(tasks)
    /\ queue \in Seq(1..Len(tasks))
    /\ worker \in [Workers -> [pc : Pcs, m : 0..Len(tasks)]]
    /\ \A w \in Workers : Busy(w) => worker[w].m # 0

KeysHeld ==
    /\ \A w \in Workers : Busy(w) => Wanted(w) \in inProgress
    /\ \A v : Queued(v) \/ Offered(v) => v \in inProgress

PlaceInv == Shapes /\ KeysHeld /\ OneAtATime

\* One message changes its record.
LEMMA Settled ==
    ASSUME Shapes, NEW m \in DOMAIN msg, NEW r \in Records,
           msg' = [msg EXCEPT ![m] = r]
    PROVE  msg' \in Seq(Records) /\ Len(msg') = Len(msg)
    BY ExceptSeq, LenProperties DEF Shapes

LEMMA RecordTypes ==
    ASSUME Shapes, NEW m \in DOMAIN msg
    PROVE  /\ msg[m] \in Records
           /\ \A why \in Reasons : [at |-> "acked", redelivered |-> 0, why |-> why] \in Records
           /\ \A at \in Positions : [msg[m] EXCEPT !.at = at] \in Records
<1>1. msg[m] \in Records
    BY ElementOfSeq, LenProperties DEF Shapes
<1> QED BY <1>1, BuildQueueAssumption DEF Records, Positions, Reasons

\* Nothing in memory moves but what a worker is doing with its message.
LEMMA NothingMoves ==
    ASSUME PlaceInv, UNCHANGED <<tasks, blocked, queue, inProgress>>,
           msg' \in Seq(Records), Len(msg') = Len(msg),
           worker' \in [Workers -> [pc : Pcs, m : 0..Len(tasks)]],
           \A w \in Workers : worker'[w].pc # "idle" =>
               worker[w].pc # "idle" /\ worker'[w].m = worker[w].m
    PROVE  PlaceInv'
<1>1. Shapes'
    BY DEF PlaceInv, Shapes, Busy
<1>2. \A w \in Workers : Busy(w)' => Busy(w) /\ Wanted(w)' = Wanted(w)
    BY DEF Busy, Wanted
<1>3. \A v : (Queued(v)' <=> Queued(v)) /\ (Offered(v)' <=> Offered(v))
    BY DEF Queued, Offered
<1>4. KeysHeld'
    BY <1>2, <1>3 DEF PlaceInv, KeysHeld
<1>5. OneAtATime'
    <2>1. \A u, w \in Workers : Busy(u)' /\ Busy(w)' /\ Wanted(u)' = Wanted(w)' => u = w
        BY <1>2 DEF PlaceInv, OneAtATime
    <2>2. \A i, j \in DOMAIN queue' : tasks'[queue'[i]] = tasks'[queue'[j]] => i = j
        BY DEF PlaceInv, OneAtATime
    <2>3. \A w \in Workers : Busy(w)' => ~Queued(Wanted(w))' /\ ~Offered(Wanted(w))'
        BY <1>2 DEF PlaceInv, OneAtATime, Queued, Offered
    <2>4. blocked' # 0 => ~Queued(tasks[blocked])'
        BY <1>3 DEF PlaceInv, OneAtATime
    <2> QED BY <2>1, <2>2, <2>3, <2>4 DEF OneAtATime
<1> QED BY <1>1, <1>4, <1>5 DEF PlaceInv

\* A task is published: what is in hand keeps its place in tasks.
LEMMA PublishKeeps ==
    ASSUME PlaceInv, NEW v \in Nat, Publish(v)
    PROVE  PlaceInv'
<1> DEFINE new == [at |-> "topic", redelivered |-> 0, why |-> "none"]
<1>1. new \in Records
    BY BuildQueueAssumption DEF Records, Positions, Reasons
<1>2. /\ tasks' = Append(tasks, v) /\ msg' = Append(msg, new)
      /\ UNCHANGED <<inProgress, blocked, queue, worker>>
    BY DEF Publish
<1>3. /\ tasks' \in Seq(Nat) /\ Len(tasks') = Len(tasks) + 1
      /\ \A i \in 1..Len(tasks) : tasks'[i] = tasks[i]
    BY <1>2 DEF PlaceInv, Shapes
<1>4. msg' \in Seq(Records) /\ Len(msg') = Len(msg) + 1
    BY <1>1, <1>2 DEF PlaceInv, Shapes
<1>5. Len(tasks) \in Nat /\ 1..Len(tasks) \subseteq 1..Len(tasks')
    BY <1>3 DEF PlaceInv, Shapes
<1>6. queue' \in Seq(1..Len(tasks'))
    BY <1>2, <1>5, SeqMonotonic DEF PlaceInv, Shapes
<1>7. worker' \in [Workers -> [pc : Pcs, m : 0..Len(tasks')]]
    BY <1>2, <1>3, <1>5 DEF PlaceInv, Shapes
<1>8. blocked' \in 0..Len(tasks')
    BY <1>2, <1>3, <1>5 DEF PlaceInv, Shapes
<1>9. Shapes'
    BY <1>2, <1>3, <1>4, <1>6, <1>7, <1>8 DEF PlaceInv, Shapes, Busy
<1>10. \A w \in Workers : (Busy(w)' <=> Busy(w)) /\ (Busy(w) => Wanted(w)' = Wanted(w))
    BY <1>2, <1>3 DEF PlaceInv, Shapes, Busy, Wanted
<1>11. \A i \in DOMAIN queue : queue[i] \in 1..Len(tasks) /\ tasks'[queue[i]] = tasks[queue[i]]
    BY <1>3, SMTT(30) DEF PlaceInv, Shapes
<1>12. \A u : (Queued(u)' <=> Queued(u)) /\ (Offered(u)' <=> Offered(u))
    BY <1>2, <1>3, <1>11, SMTT(30) DEF PlaceInv, Shapes, Queued, Offered
<1>13. KeysHeld'
    BY <1>2, <1>10, <1>12 DEF PlaceInv, KeysHeld
<1>14. OneAtATime'
    <2>1. \A u, w \in Workers : Busy(u)' /\ Busy(w)' /\ Wanted(u)' = Wanted(w)' => u = w
        BY <1>10 DEF PlaceInv, OneAtATime
    <2>2. \A i, j \in DOMAIN queue' : tasks'[queue'[i]] = tasks'[queue'[j]] => i = j
        BY <1>2, <1>11 DEF PlaceInv, OneAtATime
    <2>3. \A w \in Workers : Busy(w)' => ~Queued(Wanted(w))' /\ ~Offered(Wanted(w))'
        <3>1. \A w \in Workers : Busy(w)' =>
                  ~Queued(Wanted(w)) /\ ~Offered(Wanted(w)) /\ Wanted(w)' = Wanted(w)
            BY <1>10 DEF PlaceInv, OneAtATime
        <3> QED BY <1>2, <1>3, <1>11, <3>1 DEF PlaceInv, Shapes, Queued, Offered
    <2>4. blocked' # 0 => ~Queued(tasks[blocked])'
        <3>1. blocked # 0 => ~Queued(tasks[blocked]) /\ tasks'[blocked] = tasks[blocked]
            BY <1>3 DEF PlaceInv, Shapes, OneAtATime
        <3> QED BY <1>2, <1>11, <3>1 DEF Queued
    <2> QED BY <2>1, <2>2, <2>3, <2>4 DEF OneAtATime
<1> QED BY <1>9, <1>13, <1>14 DEF PlaceInv

\* A version whose key is not in progress is nowhere.
LEMMA Nowhere ==
    ASSUME PlaceInv, NEW v \in Nat, v \notin inProgress
    PROVE  /\ \A w \in Workers : Busy(w) => Wanted(w) # v
           /\ \A i \in DOMAIN queue : tasks[queue[i]] # v
           /\ ~Offered(v)
    BY DEF PlaceInv, KeysHeld, Queued

\* The channel with one more message.
LEMMA Appended ==
    ASSUME PlaceInv, NEW m \in 1..Len(tasks)
    PROVE  /\ Append(queue, m) \in Seq(1..Len(tasks))
           /\ DOMAIN Append(queue, m) = 1..(Len(queue) + 1)
           /\ DOMAIN queue = 1..Len(queue) /\ Len(queue) \in Nat
           /\ \A i \in 1..Len(queue) : Append(queue, m)[i] = queue[i]
           /\ Append(queue, m)[Len(queue) + 1] = m
    BY DEF PlaceInv, Shapes

\* A task is put into the channel whose version is in no worker's hands and not
\* in the channel: one just accepted, or the one the dispatcher was blocked on.
LEMMA EnqueueKeeps ==
    ASSUME PlaceInv, NEW m \in 1..Len(tasks),
           UNCHANGED <<tasks, worker>>, queue' = Append(queue, m), blocked' = 0,
           msg' \in Seq(Records), Len(msg') = Len(msg),
           inProgress' = inProgress \cup {tasks[m]},
           blocked = 0 \/ blocked = m,
           \A w \in Workers : Busy(w) => Wanted(w) # tasks[m],
           \A i \in DOMAIN queue : tasks[queue[i]] # tasks[m]
    PROVE  PlaceInv'
<1>1. Shapes'
    BY Appended DEF PlaceInv, Shapes, Busy
<1>2. \A w \in Workers : (Busy(w)' <=> Busy(w)) /\ Wanted(w)' = Wanted(w)
    BY DEF Busy, Wanted
<1>3. \A v : ~Offered(v)'
    BY DEF Offered
<1>4. \A v : Queued(v)' <=> Queued(v) \/ v = tasks[m]
    BY Appended, SMTT(30) DEF Queued
<1>5. KeysHeld'
    BY <1>2, <1>3, <1>4 DEF PlaceInv, KeysHeld
<1>6. \A i, j \in DOMAIN queue' : tasks'[queue'[i]] = tasks'[queue'[j]] => i = j
    BY Appended, SMTT(30) DEF PlaceInv, OneAtATime
<1>7. OneAtATime'
    BY <1>2, <1>3, <1>4, <1>6 DEF PlaceInv, OneAtATime
<1> QED BY <1>1, <1>5, <1>7 DEF PlaceInv

\* The dispatcher takes a message whose key is not in progress.
LEMMA AcceptKeeps ==
    ASSUME PlaceInv, NEW m \in DOMAIN msg, blocked = 0, tasks[m] \notin inProgress,
           Accept(m), UNCHANGED <<tasks, worker>>
    PROVE  PlaceInv'
<1>1. m \in 1..Len(tasks) /\ tasks[m] \in Nat
    BY DEF PlaceInv, Shapes
<1>2. msg' \in Seq(Records) /\ Len(msg') = Len(msg)
    <2>1. msg' = [msg EXCEPT ![m] = [msg[m] EXCEPT !.at = "held"]]
        BY DEF Accept
    <2> QED BY <2>1, Settled, RecordTypes DEF PlaceInv, Positions
<1>3. CASE queue' = Append(queue, m) /\ UNCHANGED blocked
    BY <1>1, <1>2, <1>3, Nowhere, EnqueueKeeps DEF Accept
<1>4. CASE blocked' = m /\ UNCHANGED queue
    <2>1. Shapes'
        BY <1>1, <1>2, <1>4 DEF PlaceInv, Shapes, Busy
    <2>2. \A w \in Workers : (Busy(w)' <=> Busy(w)) /\ Wanted(w)' = Wanted(w)
        BY DEF Busy, Wanted
    <2>3. \A v : (Queued(v)' <=> Queued(v)) /\ (Offered(v)' <=> v = tasks[m])
        BY <1>1, <1>4 DEF Queued, Offered
    <2>4. inProgress' = inProgress \cup {tasks[m]}
        BY DEF Accept
    <2>5. KeysHeld'
        BY <2>2, <2>3, <2>4 DEF PlaceInv, KeysHeld
    <2>6. OneAtATime'
        BY <1>1, <1>4, <2>2, <2>3, Nowhere DEF PlaceInv, OneAtATime, Queued
    <2> QED BY <2>1, <2>5, <2>6 DEF PlaceInv
<1> QED BY <1>3, <1>4 DEF Accept

\* There is room for the task the dispatcher was blocked on.
LEMMA UnblockKeeps ==
    ASSUME PlaceInv, Unblock PROVE PlaceInv'
<1>1. blocked \in 1..Len(tasks) /\ tasks[blocked] \in Nat /\ Offered(tasks[blocked])
    BY DEF Unblock, PlaceInv, Shapes, Offered
<1>2. tasks[blocked] \in inProgress
    BY <1>1 DEF PlaceInv, KeysHeld
<1>3. /\ \A w \in Workers : Busy(w) => Wanted(w) # tasks[blocked]
      /\ \A i \in DOMAIN queue : tasks[queue[i]] # tasks[blocked]
    BY <1>1 DEF PlaceInv, OneAtATime, Queued
<1>4. msg' \in Seq(Records) /\ Len(msg') = Len(msg)
    BY DEF Unblock, PlaceInv, Shapes
<1> QED BY <1>1, <1>2, <1>3, <1>4, EnqueueKeeps DEF Unblock

\* A worker takes the head of the channel.
LEMMA TakeKeeps ==
    ASSUME PlaceInv, NEW w \in Workers, NEW pc \in Pcs \ {"idle"},
           worker[w].pc = "idle", queue # <<>>,
           worker' = [worker EXCEPT ![w] = [pc |-> pc, m |-> Head(queue)]],
           queue' = Tail(queue), UNCHANGED <<tasks, inProgress, blocked>>,
           msg' \in Seq(Records), Len(msg') = Len(msg)
    PROVE  PlaceInv'
<1>1. /\ Head(queue) \in 1..Len(tasks) /\ Head(queue) = queue[1]
      /\ queue' \in Seq(1..Len(tasks)) /\ 1 \in DOMAIN queue
      /\ DOMAIN queue' = 1..(Len(queue) - 1) /\ DOMAIN queue = 1..Len(queue)
      /\ Len(queue) \in Nat \ {0}
      /\ \A i \in DOMAIN queue' : i + 1 \in DOMAIN queue /\ queue'[i] = queue[i + 1]
    BY DEF PlaceInv, Shapes
<1>2. /\ worker'[w] = [pc |-> pc, m |-> Head(queue)]
      /\ \A u \in Workers : u # w => worker'[u] = worker[u]
      /\ worker' \in [Workers -> [pc : Pcs, m : 0..Len(tasks)]]
    BY <1>1 DEF PlaceInv, Shapes
<1>3. Shapes'
    BY <1>1, <1>2 DEF PlaceInv, Shapes, Busy
<1>4. /\ Busy(w)' /\ Wanted(w)' = tasks[queue[1]]
      /\ \A u \in Workers : u # w => (Busy(u)' <=> Busy(u)) /\ Wanted(u)' = Wanted(u)
    BY <1>1, <1>2 DEF Busy, Wanted
<1>5. \A i \in DOMAIN queue' : tasks'[queue'[i]] # tasks[queue[1]]
    <2>1. \A i \in DOMAIN queue' : i + 1 # 1 /\ i + 1 \in DOMAIN queue
        BY <1>1
    <2>2. \A i \in DOMAIN queue : tasks[queue[i]] = tasks[queue[1]] => i = 1
        BY <1>1 DEF PlaceInv, OneAtATime
    <2> QED BY <1>1, <2>1, <2>2
<1>6. \A v : (Queued(v)' => Queued(v)) /\ (Offered(v)' <=> Offered(v))
    BY <1>1 DEF Queued, Offered
<1>7. Queued(tasks[queue[1]]) /\ tasks[queue[1]] \in Nat
    <2>1. queue[1] \in 1..Len(tasks)
        BY <1>1
    <2>2. tasks[queue[1]] \in Nat
        BY <2>1, SMTT(30) DEF PlaceInv, Shapes
    <2> QED BY <1>1, <2>2 DEF Queued
<1>8. KeysHeld'
    BY <1>4, <1>6, <1>7 DEF PlaceInv, KeysHeld
<1>9. \A i, j \in DOMAIN queue' : tasks'[queue'[i]] = tasks'[queue'[j]] => i = j
    <2> SUFFICES ASSUME NEW i \in DOMAIN queue', NEW j \in DOMAIN queue',
                        tasks'[queue'[i]] = tasks'[queue'[j]]
                 PROVE  i = j
        OBVIOUS
    <2>1. i + 1 \in DOMAIN queue /\ j + 1 \in DOMAIN queue /\ i \in Int /\ j \in Int
        BY <1>1
    <2>2. tasks[queue[i + 1]] = tasks[queue[j + 1]]
        BY <1>1
    <2>3. i + 1 = j + 1
        BY <2>1, <2>2 DEF PlaceInv, OneAtATime
    <2> QED BY <2>1, <2>3
<1>10. \A v : v = tasks[queue[1]] => ~Queued(v)' /\ ~Offered(v)'
    <2>1. ~Offered(tasks[queue[1]])
        BY <1>7 DEF PlaceInv, OneAtATime, Offered, Queued
    <2> QED BY <1>5, <1>6, <2>1 DEF Queued
<1>11. \A u \in Workers : Busy(u) => Wanted(u) # tasks[queue[1]]
    BY <1>7 DEF PlaceInv, OneAtATime
<1>12. \A u \in Workers : Busy(u)' => ~Queued(Wanted(u))' /\ ~Offered(Wanted(u))'
    <2>1. \A u \in Workers : u # w /\ Busy(u)' =>
              ~Queued(Wanted(u)) /\ ~Offered(Wanted(u)) /\ Wanted(u)' = Wanted(u)
        BY <1>4 DEF PlaceInv, OneAtATime
    <2>2. \A u \in Workers : u # w /\ Busy(u)' => ~Queued(Wanted(u))' /\ ~Offered(Wanted(u))'
        BY <1>1, <2>1 DEF Queued, Offered
    <2>3. ~Queued(Wanted(w))' /\ ~Offered(Wanted(w))'
        BY <1>4, <1>10
    <2> QED BY <2>2, <2>3
<1>13. \A u, x \in Workers : Busy(u)' /\ Busy(x)' /\ Wanted(u)' = Wanted(x)' => u = x
    BY <1>4, <1>11 DEF PlaceInv, OneAtATime
<1>14. blocked' # 0 => ~Queued(tasks[blocked])'
    BY <1>6 DEF PlaceInv, OneAtATime
<1>15. OneAtATime'
    BY <1>9, <1>12, <1>13, <1>14 DEF OneAtATime
<1> QED BY <1>3, <1>8, <1>15 DEF PlaceInv

\* The worker that is done with a version was the only place it was in.
LEMMA ClearKeeps ==
    ASSUME PlaceInv, NEW w \in Workers, ClearKey(w)
    PROVE  PlaceInv'
<1>1. /\ worker'[w] = Free /\ Busy(w)
      /\ \A u \in Workers : u # w => worker'[u] = worker[u]
      /\ worker' \in [Workers -> [pc : Pcs, m : 0..Len(tasks)]]
      /\ inProgress' = inProgress \ {Wanted(w)}
      /\ UNCHANGED <<tasks, msg, blocked, queue>>
    BY DEF ClearKey, Free, PlaceInv, Shapes, Busy, Pcs
<1>2. \A u \in Workers : Busy(u)' =>
          u # w /\ Busy(u) /\ worker'[u] = worker[u] /\ Wanted(u)' = Wanted(u)
    BY <1>1 DEF Busy, Wanted, Free
<1>3. Shapes'
    BY <1>1, <1>2 DEF PlaceInv, Shapes
<1>4. \A v : (Queued(v)' <=> Queued(v)) /\ (Offered(v)' <=> Offered(v))
    BY <1>1 DEF Queued, Offered
<1>5. KeysHeld'
    BY <1>1, <1>2, <1>4 DEF PlaceInv, KeysHeld, OneAtATime
<1>6. \A u \in Workers : Busy(u)' => ~Queued(Wanted(u))' /\ ~Offered(Wanted(u))'
    BY <1>1, <1>2 DEF PlaceInv, OneAtATime, Queued, Offered
<1>7. OneAtATime'
    BY <1>1, <1>2, <1>4, <1>6 DEF PlaceInv, OneAtATime
<1> QED BY <1>3, <1>5, <1>7 DEF PlaceInv

-------------------------------------------------------------------------------
(* The actions *)

\* What a message becomes when it is settled, fails or comes back.
LEMMA MessageSteps ==
    ASSUME Shapes, NEW m \in DOMAIN msg,
           \/ \E why \in Reasons : Settle(m, why)
           \/ Fail(m)
           \/ Redeliver(m)
    PROVE  msg' \in Seq(Records) /\ Len(msg') = Len(msg)
<1>1. ASSUME NEW why \in Reasons, Settle(m, why)
      PROVE  msg' \in Seq(Records) /\ Len(msg') = Len(msg)
    BY <1>1, Settled, RecordTypes DEF Settle
<1>2. CASE Fail(m)
    <2>1. CASE Settle(m, "terminal")
        BY <1>1, <2>1 DEF Reasons
    <2>2. CASE msg' = [msg EXCEPT ![m].at = IF @ = "held" THEN "nacked" ELSE @]
        <3> DEFINE at == IF msg[m].at = "held" THEN "nacked" ELSE msg[m].at
        <3>1. at \in Positions
            BY RecordTypes DEF Records, Positions
        <3>2. msg' = [msg EXCEPT ![m] = [msg[m] EXCEPT !.at = at]]
            BY <2>2
        <3> QED BY <3>1, <3>2, Settled, RecordTypes
    <2> QED BY <1>2, <2>1, <2>2 DEF Fail
<1>3. CASE Redeliver(m)
    <2> DEFINE count == IF msg[m].redelivered < MaxTaskRetries
                        THEN msg[m].redelivered + 1 ELSE msg[m].redelivered
    <2>1. msg[m] \in Records
        BY RecordTypes
    <2>2. count \in 0..MaxTaskRetries
        BY <2>1, BuildQueueAssumption DEF Records
    <2>3. \A old \in Records, c \in 0..MaxTaskRetries :
              [old EXCEPT !.at = "topic", !.redelivered = c] \in Records
        BY DEF Records, Positions
    <2>4. msg' = [msg EXCEPT ![m] = [msg[m] EXCEPT !.at = "topic", !.redelivered = count]]
        BY <1>3 DEF Redeliver
    <2> HIDE DEF count
    <2>5. [msg[m] EXCEPT !.at = "topic", !.redelivered = count] \in Records
        BY <2>1, <2>2, <2>3
    <2> QED BY <2>4, <2>5, Settled
<1> QED BY <1>1, <1>2, <1>3

\* Everything unacknowledged goes back to the topic.
LEMMA UnackedType == Shapes => Unacked \in Seq(Records) /\ Len(Unacked) = Len(msg)
<1> SUFFICES ASSUME Shapes PROVE Unacked \in Seq(Records) /\ Len(Unacked) = Len(msg)
    OBVIOUS
<1>1. Len(msg) \in Nat /\ DOMAIN msg = 1..Len(msg)
    BY DEF Shapes
<1>2. Unacked \in [1..Len(msg) -> Records]
    BY <1>1, RecordTypes DEF Unacked, Positions
<1> QED BY <1>1, <1>2, SeqDef

LEMMA DispatcherKeeps ==
    ASSUME PlaceInv, DispatcherStep \/ \E m \in DOMAIN msg : ReceiveUnchecked(m)
    PROVE  PlaceInv'
<1>1. ASSUME NEW m \in DOMAIN msg, Receive(m) PROVE PlaceInv'
    <2>1. CASE UNCHANGED <<inProgress, blocked, queue>> /\ \E why \in Reasons : Settle(m, why)
        BY <1>1, <2>1, MessageSteps, NothingMoves DEF Receive, PlaceInv, Shapes
    <2>2. CASE Accept(m) /\ tasks[m] \notin inProgress
        BY <1>1, <2>2, AcceptKeeps DEF Receive
    <2> QED BY <1>1, <2>1, <2>2 DEF Receive, CheckJob, Reasons
<1>2. ASSUME NEW m \in DOMAIN msg, ReceiveUnchecked(m) PROVE PlaceInv'
    BY <1>2, AcceptKeeps DEF ReceiveUnchecked
<1> QED BY <1>1, <1>2, UnblockKeeps DEF DispatcherStep

LEMMA WorkerKeeps ==
    ASSUME PlaceInv, NEW w \in Workers,
           WorkerStep(w) \/ LaunchFails(w) \/ PollFails(w) \/ RecordFails(w)
    PROVE  PlaceInv'
<1>1. CASE LaunchJob(w)
    BY <1>1, TakeKeeps DEF LaunchJob, PlaceInv, Shapes, Pcs
<1>2. CASE LaunchFails(w)
    <2>1. Head(queue) \in DOMAIN msg
        BY <1>2 DEF LaunchFails, PlaceInv, Shapes
    <2>2. msg' \in Seq(Records) /\ Len(msg') = Len(msg)
        BY <1>2, <2>1, MessageSteps DEF LaunchFails, PlaceInv
    <2> QED BY <1>2, <2>2, TakeKeeps DEF LaunchFails, Pcs
<1>3. ASSUME NEW pc \in {"built", "clear"}, Go(w, pc), worker[w].pc # "idle",
             UNCHANGED <<tasks, blocked, queue, inProgress>>,
             \/ UNCHANGED msg
             \/ \E why \in Reasons : Settle(worker[w].m, why)
             \/ Fail(worker[w].m)
      PROVE  PlaceInv'
    <2>1. worker[w].m \in DOMAIN msg
        BY <1>3 DEF PlaceInv, Shapes, Busy
    <2>2. msg' \in Seq(Records) /\ Len(msg') = Len(msg)
        BY <1>3, <2>1, MessageSteps DEF PlaceInv, Shapes
    <2>3. /\ worker' \in [Workers -> [pc : Pcs, m : 0..Len(tasks)]]
          /\ \A u \in Workers : worker'[u].m = worker[u].m
          /\ \A u \in Workers : u # w => worker'[u] = worker[u]
        BY <1>3 DEF Go, PlaceInv, Shapes, Pcs
    <2> QED BY <1>3, <2>2, <2>3, NothingMoves
<1>4. CASE Succeed(w) \/ RecordFails(w)
    BY <1>3, <1>4 DEF Succeed, RecordFails
<1>5. CASE GiveUp(w) \/ PollFails(w)
    BY <1>3, <1>5 DEF GiveUp, PollFails
<1>6. CASE AckBuilt(w)
    BY <1>3, <1>6 DEF AckBuilt, Reasons
<1> QED BY <1>1, <1>2, <1>4, <1>5, <1>6, ClearKeeps DEF WorkerStep

LEMMA Untouched ==
    ASSUME PlaceInv, UNCHANGED <<tasks, msg, inProgress, blocked, queue, worker>>
    PROVE  PlaceInv'
BY NothingMoves DEF PlaceInv, Shapes

\* The broker, the cluster and a lost process.
LEMMA SurroundingsKeep ==
    ASSUME PlaceInv, RedeliveryStep \/ JobStep \/ Reconnect \/ CleanJobs \/ LoseMemory
    PROVE  PlaceInv'
<1>1. ASSUME NEW m \in DOMAIN msg, Redeliver(m) PROVE PlaceInv'
    BY <1>1, MessageSteps, NothingMoves DEF Redeliver, PlaceInv, Shapes
<1>2. CASE Reconnect
    BY <1>2, UnackedType, NothingMoves DEF Reconnect, PlaceInv, Shapes
<1>3. ASSUME UNCHANGED <<tasks, msg, inProgress, blocked, queue, worker>>
      PROVE  PlaceInv'
    BY <1>3, Untouched
<1>4. CASE LoseMemory
    <2>1. /\ Unacked \in Seq(Records) /\ Len(Unacked) = Len(msg)
          /\ \A w \in Workers : ~Busy(w)'
          /\ queue' = <<>> /\ blocked' = 0 /\ tasks' = tasks /\ msg' = Unacked
        BY <1>4, UnackedType DEF LoseMemory, PlaceInv, Busy, Free
    <2>2. worker' \in [Workers -> [pc : Pcs, m : 0..Len(tasks')]]
        BY <1>4 DEF LoseMemory, Free, Pcs, PlaceInv, Shapes
    <2>3. Shapes'
        BY <2>1, <2>2 DEF Shapes, PlaceInv
    <2>4. \A v : ~Queued(v)' /\ ~Offered(v)'
        BY <2>1 DEF Queued, Offered
    <2> QED BY <2>1, <2>3, <2>4 DEF PlaceInv, KeysHeld, OneAtATime
<1> QED BY <1>1, <1>2, <1>3, <1>4
        DEF RedeliveryStep, JobStep, PodEnds, ExpireJob, CleanJobs

LEMMA PlacesAtFirst ==
    ASSUME NEW first, QueueInit(first)
    PROVE  PlaceInv
<1>1. \A w \in Workers : worker[w] = [pc |-> "idle", m |-> 0]
    BY DEF QueueInit, Free
<1>2. Shapes
    BY <1>1 DEF QueueInit, Free, Shapes, Pcs, Busy
<1>3. KeysHeld /\ OneAtATime
    BY <1>1 DEF QueueInit, KeysHeld, OneAtATime, Busy, Queued, Offered
<1> QED BY <1>2, <1>3 DEF PlaceInv

-------------------------------------------------------------------------------
(* The pipeline *)

\* What a shell does inside the lock, the workers, the broker, the cluster and
\* the restarts: each takes a step of the lock or none.
LEMMA LockStepOrNone == [Next]_vars => [LockNext]_lockVars
<1> SUFFICES ASSUME [Next]_vars PROVE [LockNext]_lockVars
    OBVIOUS
<1>1. ASSUME NEW b \in Builders, BuilderStep(b) PROVE [LockNext]_lockVars
    <2>1. CASE StartBuild(b) \/ CreateLock(b) \/ QueryLock(b) \/ DeleteStaleLock(b)
               \/ Unreachable(b) \/ Heartbeat(b) \/ ReleaseLock(b)
        BY <2>1 DEF LockNext, LockStep
    <2>2. CASE UNCHANGED lockVars
        BY <2>2
    <2> QED BY <1>1, <2>1, <2>2
            DEF BuilderStep, ReadVersion, SkipBuild, WriteVersion, WriteFails, Trigger, Leave
<1>2. CASE OrchestratorStep \/ Redelivery \/ Cluster \/ UNCHANGED vars
    BY <1>2 DEF OrchestratorStep, Redelivery, Cluster, vars
<1>3. CASE Clock \/ Restart
    BY <1>3 DEF Clock, Restart, LockNext
<1>4. CASE Faults
    BY <1>4 DEF Faults, ReadFails, WriteLost, TriggerFails, Leave, LockNext, LockStep, LockFault
<1> QED BY <1>1, <1>2, <1>3, <1>4 DEF Next

(* The build pipeline implements the lock's own specification. *)
THEOREM FollowsLock == Spec => LockSpec
<1>1. Init => LockInit
    BY DEF Init
<1> QED BY <1>1, LockStepOrNone, PTL DEF Spec, LockSpec

(* Whatever the workers, the broker, the cluster and the faults do, two       *)
(* shells are inside the lock at once only after a disturbance.               *)
THEOREM BuildersExcluded == Spec => []LockExcludes
BY FollowsLock, Exclusion

-------------------------------------------------------------------------------
(* The places of a version *)

\* The versions a shell may ask for, and the one it reads.
NumbersInv ==
    /\ version \in Nat
    /\ section \in [Builders -> [pc : {"read", "write", "send"}, ver : Nat]]

\* A worker that has a message builds a version.
LEMMA WantedIsNumber ==
    ASSUME PlaceInv, NEW w \in Workers, Busy(w)
    PROVE  Wanted(w) \in Nat
    BY DEF PlaceInv, Shapes, Wanted

LEMMA PlacesStep == PlaceInv /\ NumbersInv /\ [Next]_vars => (PlaceInv /\ NumbersInv)'
<1> SUFFICES ASSUME PlaceInv, NumbersInv, [Next]_vars PROVE (PlaceInv /\ NumbersInv)'
    OBVIOUS
<1> DEFINE Still == UNCHANGED <<tasks, msg, inProgress, blocked, queue, worker>>
<1>1. ASSUME NEW b \in Builders, Leave(b) PROVE section' \in [Builders ->
                 [pc : {"read", "write", "send"}, ver : Nat]]
    BY <1>1 DEF Leave, Outside, NumbersInv
<1>2. ASSUME NEW b \in Builders, BuilderStep(b) PROVE (PlaceInv /\ NumbersInv)'
    <2>1. CASE StartBuild(b) /\ CleanJobs /\ UNCHANGED <<section, behind, faults>>
        BY <2>1, SurroundingsKeep DEF NumbersInv, CleanJobs
    <2>2. CASE UNCHANGED <<queueVars, section, behind, faults>>
        BY <2>2, Untouched DEF NumbersInv, queueVars
    <2>3. CASE ReadVersion(b)
        BY <2>3, Untouched DEF ReadVersion, NumbersInv, queueVars, FirstVersion
    <2>4. CASE SkipBuild(b) \/ WriteFails(b)
        BY <2>4, <1>1, Untouched DEF SkipBuild, WriteFails, NumbersInv, queueVars
    <2>5. CASE WriteVersion(b)
        BY <2>5, Untouched DEF WriteVersion, NumbersInv
    <2>6. CASE Trigger(b)
        <3>1. section[b].ver \in Nat
            BY DEF NumbersInv
        <3>2. version' \in Nat
            BY <2>6, <3>1 DEF Trigger, Publish, NumbersInv
        <3>3. PlaceInv'
            BY <2>6, <3>1, Untouched, PublishKeeps DEF Trigger
        <3> QED BY <2>6, <1>1, <3>2, <3>3 DEF Trigger, NumbersInv
    <2> QED BY <1>2, <2>1, <2>2, <2>3, <2>4, <2>5, <2>6 DEF BuilderStep
<1>3. CASE OrchestratorStep
    <2>1. PlaceInv'
        BY <1>3, DispatcherKeeps, WorkerKeeps DEF OrchestratorStep
    <2>2. version' \in Nat
        <3>1. ASSUME NEW w \in Workers, WorkerStep(w) PROVE version' \in Nat
            BY <3>1, WantedIsNumber
               DEF WorkerStep, LaunchJob, Succeed, GiveUp, AckBuilt, ClearKey, NumbersInv, Busy
        <3>2. CASE DispatcherStep
            BY <3>2, SMTT(30) DEF DispatcherStep, Unblock, Receive, NumbersInv
        <3> QED BY <1>3, <3>1, <3>2 DEF OrchestratorStep
    <2> QED BY <1>3, <2>1, <2>2 DEF OrchestratorStep, NumbersInv
<1>4. CASE Redelivery \/ Cluster
    BY <1>4, SurroundingsKeep
       DEF Redelivery, Cluster, NumbersInv, RedeliveryStep, Redeliver, JobStep, PodEnds, ExpireJob
<1>5. CASE Clock \/ UNCHANGED vars
    BY <1>5, Untouched DEF Clock, vars, queueVars, NumbersInv
<1>6. CASE Restart
    BY <1>6, Untouched DEF Restart, NumbersInv, FirstVersion
<1>7. CASE Faults
    <2>1. CASE UNCHANGED <<queueVars, section>>
        BY <2>1, Untouched DEF queueVars, NumbersInv
    <2>2. CASE QueueFault /\ UNCHANGED section
        BY <2>2, DispatcherKeeps, WorkerKeeps, SurroundingsKeep
           DEF QueueFault, Reconnect, ReceiveUnchecked, LaunchFails, PollFails, RecordFails, NumbersInv
    <2>3. ASSUME NEW b \in Builders, ReadFails(b) PROVE (PlaceInv /\ NumbersInv)'
        <3>1. section' \in [Builders -> [pc : {"read", "write", "send"}, ver : Nat]]
            BY <1>1, <2>3 DEF ReadFails, NumbersInv, FirstVersion
        <3> QED BY <2>3, <3>1, Untouched DEF ReadFails, NumbersInv, queueVars
    <2>4. ASSUME NEW b \in Builders, WriteLost(b) PROVE (PlaceInv /\ NumbersInv)'
        BY <2>4, Untouched DEF WriteLost, NumbersInv, queueVars
    <2>5. ASSUME NEW b \in Builders, TriggerFails(b) PROVE (PlaceInv /\ NumbersInv)'
        BY <1>1, <2>5, Untouched DEF TriggerFails, NumbersInv, queueVars
    <2>6. CASE LoseMemory /\ UNCHANGED section
        BY <2>6, SurroundingsKeep DEF LoseMemory, NumbersInv
    <2> QED BY <1>7, <2>1, <2>2, <2>3, <2>4, <2>5, <2>6 DEF Faults
<1> QED BY <1>2, <1>3, <1>4, <1>5, <1>6, <1>7 DEF Next

(* However many workers, retries, redeliveries and requests under one         *)
(* version: no two workers build it at once, and it is queued once at most.   *)
THEOREM BuiltOneAtATime == Spec => []OneAtATime
<1>1. Init => PlaceInv /\ NumbersInv
    BY PlacesAtFirst DEF Init, NumbersInv, QueueInit, FirstVersion, Outside
<1>2. PlaceInv => OneAtATime
    BY DEF PlaceInv
<1> QED BY <1>1, <1>2, PlacesStep, PTL DEF Spec

-------------------------------------------------------------------------------
(* What the pipeline does to the queue *)

\* A step that concerns the queue, and nothing else of what it holds.
QueueStep ==
    \/ UNCHANGED <<tasks, msg, inProgress, blocked, queue, worker, job, image>>
    \/ \E b \in Builders : InSection(b, "send") /\ Publish(section[b].ver)
    \/ DispatcherStep \/ \E m \in DOMAIN msg : ReceiveUnchecked(m)
    \/ \E w \in Workers :
           WorkerStep(w) \/ LaunchFails(w) \/ PollFails(w) \/ RecordFails(w)
    \/ RedeliveryStep \/ JobStep \/ Reconnect \/ CleanJobs \/ LoseMemory

LEMMA QueueSteps == [Next]_vars => QueueStep
<1> SUFFICES ASSUME [Next]_vars PROVE QueueStep
    OBVIOUS
<1> DEFINE Still == UNCHANGED <<tasks, msg, inProgress, blocked, queue, worker, job, image>>
<1>1. ASSUME NEW b \in Builders, BuilderStep(b) PROVE QueueStep
    <2>1. CASE Trigger(b)
        BY <2>1 DEF Trigger, QueueStep
    <2>2. CASE CleanJobs \/ Still
        BY <2>2 DEF QueueStep
    <2> QED BY <1>1, <2>1, <2>2
            DEF BuilderStep, ReadVersion, SkipBuild, WriteVersion, WriteFails, queueVars
<1>2. CASE OrchestratorStep \/ Redelivery \/ Cluster
    BY <1>2 DEF OrchestratorStep, Redelivery, Cluster, QueueStep
<1>3. CASE Clock \/ Restart \/ UNCHANGED vars
    BY <1>3 DEF Clock, Restart, vars, queueVars, QueueStep
<1>4. CASE Faults
    <2>1. CASE QueueFault \/ LoseMemory
        BY <2>1 DEF QueueFault, QueueStep
    <2>2. CASE Still
        BY <2>2 DEF QueueStep
    <2> QED BY <1>4, <2>1, <2>2
            DEF Faults, ReadFails, WriteLost, TriggerFails, queueVars
<1> QED BY <1>1, <1>2, <1>3, <1>4 DEF Next

-------------------------------------------------------------------------------
(* What is in hand *)

\* A key in progress has a message of its version in hand; an idle worker has none.
KeysCarried ==
    /\ \A w \in Workers : ~Busy(w) => worker[w].m = 0
    /\ \A v \in inProgress : \E m \in DOMAIN msg : InHand(m) /\ tasks[m] = v

\* The channel and a worker pass a message on between them.
LEMMA TakenInHand ==
    ASSUME PlaceInv, KeysCarried, NEW w \in Workers, LaunchJob(w) \/ LaunchFails(w),
           NEW n \in DOMAIN msg
    PROVE  InHand(n)' <=> InHand(n)
<1>1. /\ queue # <<>> /\ queue' = Tail(queue) /\ UNCHANGED blocked
      /\ worker[w].pc = "idle" /\ n # 0
    BY DEF LaunchJob, LaunchFails, PlaceInv, Shapes
<1>2. worker'[w].m = Head(queue) /\ \A u \in Workers : u # w => worker'[u] = worker[u]
    BY SMTT(30) DEF LaunchJob, LaunchFails, PlaceInv, Shapes
<1>3. /\ Head(queue) = queue[1] /\ 1 \in DOMAIN queue
      /\ \A i \in DOMAIN queue' : i + 1 \in DOMAIN queue /\ queue'[i] = queue[i + 1]
      /\ \A i \in DOMAIN queue : i = 1 \/ (i - 1 \in DOMAIN queue' /\ queue'[i - 1] = queue[i])
    <2>1. /\ Head(queue) = queue[1] /\ 1 \in DOMAIN queue
          /\ DOMAIN queue' = 1..(Len(queue) - 1) /\ DOMAIN queue = 1..Len(queue)
          /\ Len(queue) \in Nat \ {0}
          /\ \A i \in DOMAIN queue' : i + 1 \in DOMAIN queue /\ queue'[i] = queue[i + 1]
        BY <1>1 DEF PlaceInv, Shapes
    <2>2. \A i \in DOMAIN queue : i = 1 \/ (i - 1 \in DOMAIN queue' /\ (i - 1) + 1 = i)
        BY <2>1
    <2> QED BY <2>1, <2>2
<1>4. ASSUME InHand(n)' PROVE InHand(n)
    BY <1>1, <1>2, <1>3, <1>4 DEF InHand
<1>5. ASSUME InHand(n) PROVE InHand(n)'
    <2>1. CASE \E u \in Workers : worker[u].m = n
        <3>1. worker[w].m # n
            BY <1>1 DEF KeysCarried, Busy
        <3> QED BY <1>2, <2>1, <3>1 DEF InHand
    <2>2. CASE \E i \in DOMAIN queue : queue[i] = n
        BY <1>2, <1>3, <2>2, SMTT(30) DEF InHand
    <2> QED BY <1>1, <1>5, <2>1, <2>2 DEF InHand
<1> QED BY <1>4, <1>5

\* A message comes into memory when the dispatcher accepts it, and leaves it with
\* its key or with the process.
LEMMA HandSteps ==
    ASSUME PlaceInv, KeysCarried, QueueStep, NEW n \in DOMAIN msg
    PROVE  /\ InHand(n)' => \/ InHand(n)
                            \/ msg[n].at = "topic" /\ tasks[n] \notin inProgress /\ Accept(n)
           /\ InHand(n) => \/ InHand(n)' \/ LoseMemory
                           \/ \E w \in Workers : ClearKey(w) /\ worker[w].m = n
<1> DEFINE Same == InHand(n)' <=> InHand(n)
<1>0. n # 0
    BY DEF PlaceInv, Shapes
<1>1. ASSUME UNCHANGED <<blocked, queue, worker>> PROVE Same
    BY <1>1 DEF InHand
<1>2. ASSUME NEW m \in DOMAIN msg, Accept(m), UNCHANGED <<tasks, worker>>, blocked = 0
      PROVE  InHand(n)' <=> InHand(n) \/ n = m
    <2>1. m # 0 /\ DOMAIN msg = 1..Len(tasks)
        BY DEF PlaceInv, Shapes
    <2>2. CASE queue' = Append(queue, m) /\ UNCHANGED blocked
        <3>1. (\E i \in DOMAIN queue' : queue'[i] = n) <=> (\E i \in DOMAIN queue : queue[i] = n) \/ n = m
            BY <2>1, <2>2, Appended, SMTT(30)
        <3> QED BY <1>2, <2>2, <3>1 DEF InHand
    <2>3. CASE blocked' = m /\ UNCHANGED queue
        BY <1>0, <1>2, <2>3 DEF InHand
    <2> QED BY <1>2, <2>2, <2>3 DEF Accept
<1>3. ASSUME NEW m \in DOMAIN msg, Receive(m) \/ ReceiveUnchecked(m)
      PROVE  \/ Same
             \/ (InHand(n)' <=> InHand(n) \/ n = m) /\ Accept(m)
                /\ tasks[m] \notin inProgress /\ msg[m].at = "topic"
    BY <1>1, <1>2, <1>3 DEF Receive, CheckJob, ReceiveUnchecked
<1>4. CASE Unblock
    <2> PICK m : m = blocked
        OBVIOUS
    <2>1. m \in 1..Len(tasks) /\ queue' = Append(queue, m) /\ blocked' = 0 /\ UNCHANGED worker
        BY <1>4 DEF Unblock, PlaceInv, Shapes
    <2>2. (\E i \in DOMAIN queue' : queue'[i] = n) <=> (\E i \in DOMAIN queue : queue[i] = n) \/ n = m
        <3>1. /\ DOMAIN queue' = 1..(Len(queue) + 1) /\ DOMAIN queue = 1..Len(queue)
              /\ Len(queue) \in Nat /\ queue'[Len(queue) + 1] = m
              /\ \A i \in 1..Len(queue) : queue'[i] = queue[i]
            BY <2>1, Appended
        <3> QED BY <3>1
    <2> QED BY <1>0, <2>1, <2>2 DEF InHand
<1>5. ASSUME NEW w \in Workers, NEW pc, Go(w, pc), UNCHANGED <<blocked, queue>> PROVE Same
    <2>1. \A u \in Workers : worker'[u].m = worker[u].m
        BY <1>5 DEF Go, PlaceInv, Shapes
    <2> QED BY <1>5, <2>1 DEF InHand
<1>6. ASSUME NEW w \in Workers, ClearKey(w)
      PROVE  (InHand(n)' => InHand(n)) /\ (InHand(n) => InHand(n)' \/ worker[w].m = n)
    <2>1. /\ worker'[w].m = 0 /\ \A u \in Workers : u # w => worker'[u] = worker[u]
          /\ UNCHANGED <<blocked, queue>>
        BY <1>6 DEF ClearKey, Free, PlaceInv, Shapes
    <2> QED BY <1>0, <2>1 DEF InHand
<1>7. CASE LoseMemory
    BY <1>0, <1>7 DEF LoseMemory, InHand, Free
<1>8. CASE DispatcherStep \/ \E m \in DOMAIN msg : ReceiveUnchecked(m)
    BY <1>3, <1>4, <1>8 DEF DispatcherStep
<1>9. ASSUME NEW w \in Workers, WorkerStep(w) \/ LaunchFails(w) \/ PollFails(w) \/ RecordFails(w),
             ~ClearKey(w)
      PROVE  Same
    <2>1. CASE LaunchJob(w) \/ LaunchFails(w)
        BY <2>1, TakenInHand
    <2> QED BY <1>5, <1>9, <2>1
            DEF WorkerStep, Succeed, GiveUp, AckBuilt, PollFails, RecordFails
<1>10. CASE UNCHANGED <<blocked, queue, worker>>
    BY <1>1, <1>10
<1> QED BY <1>6, <1>7, <1>8, <1>9, <1>10
        DEF QueueStep, Publish, RedeliveryStep, Redeliver, JobStep, PodEnds, ExpireJob,
            Reconnect, CleanJobs

\* The messages that are known keep their place and their version.
LEMMA TasksStay ==
    ASSUME PlaceInv, QueueStep, PlaceInv'
    PROVE  /\ DOMAIN msg \subseteq DOMAIN msg'
           /\ \A m \in DOMAIN msg : tasks'[m] = tasks[m]
<1>1. ASSUME NEW v, Publish(v)
      PROVE  DOMAIN msg \subseteq DOMAIN msg' /\ \A m \in DOMAIN msg : tasks'[m] = tasks[m]
    BY <1>1, SMTT(30) DEF Publish, PlaceInv, Shapes
<1>2. UNCHANGED tasks \/ \E b \in Builders : Publish(section[b].ver)
    BY DEF QueueStep, DispatcherStep, Unblock, Receive, ReceiveUnchecked, WorkerStep, LaunchJob,
           LaunchFails, Succeed, GiveUp, PollFails, RecordFails, AckBuilt, ClearKey, RedeliveryStep,
           Redeliver, JobStep, PodEnds, ExpireJob, Reconnect, CleanJobs, LoseMemory
<1>3. DOMAIN msg = 1..Len(tasks) /\ DOMAIN msg' = 1..Len(tasks')
    BY DEF PlaceInv, Shapes
<1> QED BY <1>1, <1>2, <1>3

LEMMA KeysCarriedStep ==
    ASSUME PlaceInv, KeysCarried, QueueStep, PlaceInv' PROVE KeysCarried'
<1>1. \A w \in Workers : ~Busy(w)' => worker'[w].m = 0
    <2>1. ASSUME NEW u \in Workers, NEW pc \in {"wait", "built", "clear"},
                 Go(u, pc) \/ \E m : worker' = [worker EXCEPT ![u] = [pc |-> pc, m |-> m]]
          PROVE  \A w \in Workers : ~Busy(w)' => worker'[w].m = 0
        <3>1. worker'[u].pc = pc /\ \A w \in Workers : w # u => worker'[w] = worker[w]
            BY <2>1 DEF Go, PlaceInv, Shapes
        <3> QED BY <3>1 DEF KeysCarried, Busy
    <2>2. ASSUME NEW u \in Workers, ClearKey(u)
          PROVE  \A w \in Workers : ~Busy(w)' => worker'[w].m = 0
        BY <2>2 DEF ClearKey, Free, PlaceInv, Shapes, KeysCarried, Busy
    <2>3. CASE UNCHANGED worker
        BY <2>3 DEF KeysCarried, Busy
    <2>4. CASE LoseMemory
        BY <2>4 DEF LoseMemory, Free
    <2>5. CASE \E w \in Workers : WorkerStep(w) \/ LaunchFails(w) \/ PollFails(w) \/ RecordFails(w)
        BY <2>1, <2>2, <2>5
           DEF WorkerStep, LaunchJob, LaunchFails, Succeed, GiveUp, AckBuilt, PollFails, RecordFails
    <2> QED BY <2>3, <2>4, <2>5
            DEF QueueStep, Publish, DispatcherStep, Unblock, Receive, ReceiveUnchecked,
                RedeliveryStep, Redeliver, JobStep, PodEnds, ExpireJob, Reconnect, CleanJobs
<1>2. ASSUME NEW v \in inProgress', v \in inProgress
      PROVE  \E m \in DOMAIN msg' : InHand(m)' /\ tasks'[m] = v
    <2>1. PICK m \in DOMAIN msg : InHand(m) /\ tasks[m] = v
        BY <1>2 DEF KeysCarried
    <2>2. m \in DOMAIN msg' /\ tasks'[m] = v
        BY <2>1, TasksStay
    <2>3. InHand(m)'
        <3>1. ~LoseMemory
            BY <1>2 DEF LoseMemory
        <3>2. ~\E w \in Workers : ClearKey(w) /\ worker[w].m = m
            BY <1>2, <2>1, SMTT(30) DEF ClearKey, Wanted
        <3> QED BY <2>1, <3>1, <3>2, HandSteps
    <2> QED BY <2>2, <2>3
<1>3. ASSUME NEW v \in inProgress', v \notin inProgress
      PROVE  \E m \in DOMAIN msg' : InHand(m)' /\ tasks'[m] = v
    <2>1. PICK m \in DOMAIN msg : Accept(m) /\ UNCHANGED <<tasks, worker>> /\ tasks[m] = v
        BY <1>3 DEF QueueStep, Publish, DispatcherStep, Unblock, Receive, CheckJob, ReceiveUnchecked,
                    WorkerStep, LaunchJob, LaunchFails, Succeed, GiveUp, PollFails, RecordFails,
                    AckBuilt, ClearKey, RedeliveryStep, Redeliver, JobStep, PodEnds, ExpireJob,
                    Reconnect, CleanJobs, LoseMemory, Accept
    <2>2. m \in DOMAIN msg' /\ tasks'[m] = v
        BY <2>1, TasksStay
    <2>3. InHand(m)'
        <3>1. m \in 1..Len(tasks)
            BY DEF PlaceInv, Shapes
        <3> QED BY <2>1, <3>1, Appended DEF Accept, InHand
    <2> QED BY <2>2, <2>3
<1> QED BY <1>1, <1>2, <1>3, SMTT(30) DEF KeysCarried

-------------------------------------------------------------------------------
(* No version beyond the number of builds *)

\* The shells that may still increment the version in this run of theirs.
Spending ==
    {b \in Builders :
        \/ builder[b].pc \in {"create", "query", "delete"}
        \/ builder[b].pc = "held" /\ section[b].pc # "send"}

\* A version that was recorded, read or asked for, or the first one.
Known(x) ==
    \/ x = FirstVersion \/ x = version
    \/ \E b \in Builders : x = section[b].ver
    \/ \E m \in DOMAIN tasks : x = tasks[m]

\* Every build increments once at most, so no version is beyond the number of the
\* builds that have had their turn.
VersionsSpent == \A x \in Nat : Known(x) => x + Cardinality(Spending) <= runs

LEMMA KnownAreNumbers ==
    ASSUME Shapes, NumbersInv, NEW x, Known(x) PROVE x \in Nat
    BY DEF Known, FirstVersion, NumbersInv, Shapes

\* Every shell's step takes it on, out of the lock or to another step of the
\* section; only StartBuild adds to those that have an increment left.
LEMMA SpendingSteps ==
    ASSUME LockTypeOK, NumbersInv, [Next]_vars
    PROVE  \/ runs' = runs /\ Spending' \subseteq Spending
           \/ \E b \in Builders : /\ StartBuild(b) /\ UNCHANGED <<section, version, tasks>>
                                  /\ Spending' \subseteq Spending \cup {b}
<1> DEFINE Shrinks == runs' = runs /\ Spending' \subseteq Spending
<1>1. ASSUME UNCHANGED <<runs, builder, section>> PROVE Shrinks
    BY <1>1 DEF Spending
<1>2. ASSUME NEW b \in Builders, Leave(b) PROVE Shrinks
    BY <1>2 DEF Leave, ReleaseLock, Resting, Spending, LockTypeOK, NumbersInv
<1>3. ASSUME NEW b \in Builders, Proceed(b, 0) \/ Proceed(b, lastId + 1),
             builder[b].pc \in {"create", "query", "delete"}, UNCHANGED <<runs, section>>
      PROVE  Shrinks
    BY <1>3 DEF Proceed, Spending, LockTypeOK
<1>4. ASSUME NEW b \in Builders, NEW pc \in {"create", "query", "delete", "idle", "dead"},
             builder[b].pc \in {"create", "query", "delete"} \/ pc \in {"idle", "dead"},
             builder'[b].pc = pc, \A a \in Builders : a # b => builder'[a] = builder[a],
             UNCHANGED <<runs, section>>
      PROVE  Shrinks
    BY <1>4 DEF Spending
<1>5. ASSUME NEW b \in Builders, InSection(b, "read") \/ InSection(b, "write"),
             \A a \in Builders : a # b => section'[a] = section[a],
             UNCHANGED <<runs, builder>>
      PROVE  Shrinks
    BY <1>5 DEF InSection, Spending
<1>6. ASSUME NEW b \in Builders, CreateLock(b) \/ QueryLock(b), UNCHANGED section
      PROVE  Shrinks
    <2>1. CASE Proceed(b, 0) \/ Proceed(b, lastId + 1)
        BY <1>3, <1>6, <2>1 DEF CreateLock, QueryLock
    <2>2. ASSUME NEW pc \in {"create", "query", "delete", "idle"},
                 \/ builder' = [builder EXCEPT ![b].pc = pc]
                 \/ \E r \in row : builder' = [builder EXCEPT ![b].pc = pc, ![b].seen = r.id]
          PROVE  Shrinks
        <3>1. builder'[b].pc = pc /\ \A a \in Builders : a # b => builder'[a] = builder[a]
            BY <2>2 DEF LockTypeOK
        <3> QED BY <1>4, <1>6, <3>1 DEF CreateLock, QueryLock
    <2> QED BY <1>6, <2>1, <2>2 DEF CreateLock, QueryLock
<1>7. ASSUME NEW b \in Builders, DeleteStaleLock(b), UNCHANGED section PROVE Shrinks
    <2>1. /\ builder'[b].pc = "create" /\ builder[b].pc = "delete" /\ runs' = runs
          /\ \A a \in Builders : a # b => builder'[a] = builder[a]
        BY <1>7 DEF DeleteStaleLock, LockTypeOK
    <2> QED BY <1>4, <1>7, <2>1
<1>8. ASSUME NEW b \in Builders, BuilderStep(b)
      PROVE  \/ Shrinks
             \/ /\ StartBuild(b) /\ UNCHANGED <<section, version, tasks>>
                /\ Spending' \subseteq Spending \cup {b}
    <2>1. CASE StartBuild(b) /\ CleanJobs /\ UNCHANGED <<section, behind, faults>>
        <3>1. \A a \in Builders : a # b => builder'[a] = builder[a]
            BY <2>1 DEF StartBuild, LockTypeOK
        <3>2. Spending' \subseteq Spending \cup {b}
            BY <2>1, <3>1 DEF Spending
        <3> QED BY <2>1, <3>2 DEF CleanJobs
    <2>2. CASE UNCHANGED section /\ (CreateLock(b) \/ QueryLock(b) \/ DeleteStaleLock(b))
        BY <2>2, <1>6, <1>7
    <2>3. CASE UNCHANGED section /\ Unreachable(b)
        BY <2>3, <1>3 DEF Unreachable
    <2>4. CASE UNCHANGED section /\ Heartbeat(b)
        BY <2>4, <1>1 DEF Heartbeat
    <2>5. CASE ReadVersion(b) \/ WriteVersion(b)
        BY <2>5, <1>5 DEF ReadVersion, WriteVersion, lockVars, NumbersInv
    <2>6. CASE Leave(b)
        BY <2>6, <1>2
    <2> QED BY <1>8, <2>1, <2>2, <2>3, <2>4, <2>5, <2>6
            DEF BuilderStep, SkipBuild, WriteFails, Trigger
<1>9. CASE Faults
    <2>1. CASE UNCHANGED section /\ (MissHeartbeats \/ ResetLocks \/ ApiDown \/ UNCHANGED lockVars)
        BY <2>1, <1>1 DEF MissHeartbeats, Age, ResetLocks, ApiDown, lockVars
    <2>2. ASSUME NEW b \in Builders, KillBuilder(b), UNCHANGED section PROVE Shrinks
        BY <2>2, <1>4 DEF KillBuilder, Resting, LockTypeOK
    <2>3. ASSUME NEW b \in Builders, ReadFails(b) \/ WriteLost(b) \/ TriggerFails(b)
          PROVE  Shrinks
        <3>1. CASE Leave(b)
            BY <1>2, <3>1
        <3>2. ASSUME InSection(b, "read") \/ InSection(b, "write"), UNCHANGED lockVars,
                     NEW to, section' = [section EXCEPT ![b] = to]
              PROVE  Shrinks
            BY <1>5, <3>2 DEF lockVars, NumbersInv
        <3>3. CASE ReadFails(b)
            BY <3>1, <3>2, <3>3 DEF ReadFails
        <3>4. CASE WriteLost(b)
            BY <3>2, <3>4 DEF WriteLost
        <3>5. CASE TriggerFails(b)
            BY <3>1, <3>5 DEF TriggerFails
        <3> QED BY <2>3, <3>3, <3>4, <3>5
    <2> QED BY <1>9, <2>1, <2>2, <2>3 DEF Faults
<1>10. CASE OrchestratorStep \/ Redelivery \/ Cluster \/ UNCHANGED vars
    BY <1>10, <1>1 DEF OrchestratorStep, Redelivery, Cluster, vars, lockVars
<1>11. CASE Clock \/ Restart
    BY <1>11, <1>1 DEF Clock, Restart, GrowStale, Age, ApiUp
<1> QED BY <1>8, <1>9, <1>10, <1>11 DEF Next

\* A step makes no version known but the one a shell increments, which spends it.
LEMMA KnownSteps ==
    ASSUME PlaceInv, NumbersInv, [Next]_vars, NEW x, Known(x)'
    PROVE  \/ Known(x)
           \/ /\ runs' = runs
              /\ \E b \in Spending :
                     x = section[b].ver + 1 /\ Spending' \subseteq Spending \ {b}
<1>1. ASSUME version' = version \/ Known(version'),
             \A b \in Builders : section'[b] = section[b] \/ Known(section'[b].ver),
             \A m \in DOMAIN tasks' : (m \in DOMAIN tasks /\ tasks'[m] = tasks[m]) \/ Known(tasks'[m])
      PROVE  Known(x)
    BY <1>1 DEF Known
<1>2. Known(0) /\ Known(version) /\ \A b \in Builders : Known(section[b].ver)
    BY DEF Known, FirstVersion
<1>3. ASSUME UNCHANGED <<version, section, tasks>> PROVE Known(x)
    BY <1>1, <1>3
<1>4. ASSUME NEW b \in Builders, Leave(b) \/ UNCHANGED section,
             version' \in {version, section[b].ver, 0},
             UNCHANGED tasks \/ Publish(section[b].ver)
      PROVE  Known(x)
    <2>1. \A c \in Builders : section'[c] = section[c] \/ Known(section'[c].ver)
        BY <1>2, <1>4 DEF Leave, Outside, NumbersInv
    <2>2. \A m \in DOMAIN tasks' : (m \in DOMAIN tasks /\ tasks'[m] = tasks[m]) \/ Known(tasks'[m])
        <3>1. section[b].ver \in Nat /\ Known(section[b].ver)
            BY <1>2 DEF NumbersInv
        <3>2. CASE Publish(section[b].ver)
            BY <3>1, <3>2 DEF Publish, PlaceInv, Shapes
        <3> QED BY <1>4, <3>2
    <2> QED BY <1>1, <1>2, <1>4, <2>1, <2>2
<1>5. ASSUME NEW b \in Builders, UNCHANGED <<version, tasks>>, NEW pc,
             NEW ver \in {version, 0},
             section' = [section EXCEPT ![b] = [pc |-> pc, ver |-> ver]]
      PROVE  Known(x)
    <2>1. \A c \in Builders : section'[c] = section[c] \/ Known(section'[c].ver)
        BY <1>2, <1>5 DEF NumbersInv
    <2> QED BY <1>1, <1>5, <2>1
<1>6. ASSUME NEW b \in Builders, InSection(b, "write"), UNCHANGED <<tasks, lockVars>>,
             section' = [section EXCEPT ![b] = [pc |-> "send", ver |-> @.ver + 1]],
             version' \in {version, section[b].ver + 1}
      PROVE  \/ Known(x)
             \/ /\ runs' = runs /\ b \in Spending
                /\ x = section[b].ver + 1 /\ Spending' \subseteq Spending \ {b}
    <2>1. /\ section'[b] = [pc |-> "send", ver |-> section[b].ver + 1]
          /\ \A c \in Builders : c # b => section'[c] = section[c]
        BY <1>6 DEF NumbersInv
    <2>2. b \in Spending /\ runs' = runs /\ Spending' \subseteq Spending \ {b}
        BY <1>6, <2>1 DEF InSection, Spending, lockVars
    <2>3. Known(x) \/ x = section[b].ver + 1
        BY <1>6, <2>1 DEF Known
    <2> QED BY <2>2, <2>3
<1>7. ASSUME NEW b \in Builders, BuilderStep(b)
      PROVE  \/ Known(x)
             \/ /\ runs' = runs /\ b \in Spending
                /\ x = section[b].ver + 1 /\ Spending' \subseteq Spending \ {b}
    <2>1. CASE UNCHANGED <<queueVars, section>> \/ (CleanJobs /\ UNCHANGED section)
        BY <1>3, <2>1 DEF queueVars, CleanJobs
    <2>2. CASE ReadVersion(b)
        BY <1>5, <2>2 DEF ReadVersion, queueVars, FirstVersion
    <2>3. CASE WriteVersion(b)
        BY <1>6, <2>3 DEF WriteVersion
    <2>4. CASE SkipBuild(b) \/ WriteFails(b)
        BY <1>4, <2>4 DEF SkipBuild, WriteFails, queueVars
    <2>5. CASE Trigger(b)
        BY <1>4, <2>5 DEF Trigger, Publish
    <2> QED BY <1>7, <2>1, <2>2, <2>3, <2>4, <2>5 DEF BuilderStep
<1>8. CASE OrchestratorStep
    <2>1. CASE DispatcherStep
        BY <1>3, <1>8, <2>1 DEF OrchestratorStep, DispatcherStep, Unblock, Receive
    <2>2. ASSUME NEW w \in Workers, WorkerStep(w) PROVE Known(x)
        <3>1. CASE UNCHANGED version
            BY <1>3, <1>8, <2>2, <3>1 DEF OrchestratorStep, WorkerStep, LaunchJob, Succeed,
                                          GiveUp, AckBuilt, ClearKey
        <3>2. CASE Succeed(w)
            <4>1. worker[w].m \in DOMAIN tasks
                BY <3>2 DEF Succeed, PlaceInv, Shapes, Busy
            <4>2. Known(version')
                BY <3>2, <4>1 DEF Succeed, Wanted, Known
            <4> QED BY <1>1, <1>8, <3>2, <4>2 DEF OrchestratorStep, Succeed
        <3> QED BY <2>2, <3>1, <3>2 DEF WorkerStep, LaunchJob, GiveUp, AckBuilt, ClearKey
    <2> QED BY <1>8, <2>1, <2>2 DEF OrchestratorStep
<1>9. CASE Redelivery \/ Cluster \/ Clock \/ UNCHANGED vars
    BY <1>3, <1>9 DEF Redelivery, RedeliveryStep, Redeliver, Cluster, JobStep, PodEnds, ExpireJob,
                      Clock, vars, queueVars
<1>10. CASE Restart
    BY <1>1, <1>2, <1>10 DEF Restart, FirstVersion
<1>11. CASE Faults
    <2>1. CASE UNCHANGED <<queueVars, section>> \/ (LoseMemory /\ UNCHANGED section)
        BY <1>3, <2>1 DEF queueVars, LoseMemory
    <2>2. CASE QueueFault /\ UNCHANGED section
        BY <1>3, <2>2 DEF QueueFault, Reconnect, ReceiveUnchecked, LaunchFails, PollFails, RecordFails
    <2>3. ASSUME NEW b \in Builders, ReadFails(b) PROVE Known(x)
        <3>1. UNCHANGED <<version, tasks>>
            BY <2>3 DEF ReadFails, queueVars
        <3>2. CASE Leave(b)
            BY <1>4, <3>1, <3>2
        <3>3. ASSUME NEW pc, NEW ver \in {version, FirstVersion},
                     section' = [section EXCEPT ![b] = [pc |-> pc, ver |-> ver]]
              PROVE  Known(x)
            BY <1>5, <3>1, <3>3 DEF FirstVersion
        <3>4. \/ Leave(b)
              \/ \E ver \in {version, FirstVersion} :
                     \/ section' = [section EXCEPT ![b] = [pc |-> "send", ver |-> ver]]
                     \/ section' = [section EXCEPT ![b] = [pc |-> "write", ver |-> ver]]
            BY <2>3 DEF ReadFails
        <3> QED BY <3>2, <3>3, <3>4
    <2>4. ASSUME NEW b \in Builders, WriteLost(b)
          PROVE  \/ Known(x)
                 \/ /\ runs' = runs /\ b \in Spending
                    /\ x = section[b].ver + 1 /\ Spending' \subseteq Spending \ {b}
        BY <1>6, <2>4 DEF WriteLost, queueVars
    <2>5. ASSUME NEW b \in Builders, TriggerFails(b) PROVE Known(x)
        BY <1>4, <2>5 DEF TriggerFails, queueVars
    <2> QED BY <1>11, <2>1, <2>2, <2>3, <2>4, <2>5 DEF Faults
<1> QED BY <1>7, <1>8, <1>9, <1>10, <1>11 DEF Next

LEMMA SpendingFinite ==
    /\ IsFiniteSet(Spending) /\ Cardinality(Spending) \in Nat
    /\ IsFiniteSet(Spending') /\ Cardinality(Spending') \in Nat
<1>1. Spending \subseteq Builders /\ Spending' \subseteq Builders
    BY DEF Spending
<1> QED BY <1>1, FS_Subset, FS_CardinalityType, BuildLockAssumption

LEMMA VersionsStep ==
    LockTypeOK /\ PlaceInv /\ NumbersInv /\ VersionsSpent /\ [Next]_vars => VersionsSpent'
<1> SUFFICES ASSUME LockTypeOK, PlaceInv, NumbersInv, VersionsSpent, [Next]_vars,
                    NEW x \in Nat, Known(x)'
             PROVE  x + Cardinality(Spending') <= runs'
    BY DEF VersionsSpent
<1>1. runs \in Nat /\ Cardinality(Spending) \in Nat /\ Cardinality(Spending') \in Nat
    BY SpendingFinite DEF LockTypeOK
<1>2. ASSUME Known(x), runs' = runs, Spending' \subseteq Spending
      PROVE  x + Cardinality(Spending') <= runs'
    <2>1. Cardinality(Spending') <= Cardinality(Spending)
        BY <1>2, SpendingFinite, FS_Subset
    <2> QED BY <1>1, <1>2, <2>1 DEF VersionsSpent
<1>3. ASSUME Known(x), NEW b \in Builders, StartBuild(b), Spending' \subseteq Spending \cup {b}
      PROVE  x + Cardinality(Spending') <= runs'
    <2>1. /\ IsFiniteSet(Spending \cup {b})
          /\ Cardinality(Spending \cup {b}) \in Nat
          /\ Cardinality(Spending \cup {b}) <= Cardinality(Spending) + 1
        <3>1. /\ IsFiniteSet(Spending \cup {b})
              /\ \/ Cardinality(Spending \cup {b}) = Cardinality(Spending)
                 \/ Cardinality(Spending \cup {b}) = Cardinality(Spending) + 1
            BY SpendingFinite, FS_AddElement
        <3> QED BY <1>1, <3>1
    <2>2. Cardinality(Spending') <= Cardinality(Spending \cup {b})
        BY <1>3, <2>1, FS_Subset
    <2>3. runs' = runs + 1
        BY <1>3 DEF StartBuild
    <2>4. x + Cardinality(Spending) <= runs
        BY <1>3 DEF VersionsSpent
    <2> QED BY <1>1, <2>1, <2>2, <2>3, <2>4
<1>4. ASSUME NEW b \in Spending, runs' = runs, x = section[b].ver + 1,
             Spending' \subseteq Spending \ {b}
      PROVE  x + Cardinality(Spending') <= runs'
    <2>1. /\ IsFiniteSet(Spending \ {b})
          /\ Cardinality(Spending \ {b}) = Cardinality(Spending) - 1
        BY <1>4, SpendingFinite, FS_RemoveElement
    <2>2. Cardinality(Spending') <= Cardinality(Spending) - 1
        BY <1>4, <2>1, FS_Subset
    <2>3. section[b].ver \in Nat /\ Known(section[b].ver)
        BY <1>4 DEF Spending, NumbersInv, Known
    <2>4. section[b].ver + Cardinality(Spending) <= runs
        BY <2>3 DEF VersionsSpent
    <2> QED BY <1>1, <1>4, <2>2, <2>3, <2>4
<1> QED BY <1>2, <1>3, <1>4, SpendingSteps, KnownSteps

-------------------------------------------------------------------------------
(* Types *)

\* The channel never holds more than it can; jobs and images are of known versions.
QueueTypes ==
    /\ Len(queue) <= QueueCap
    /\ job \in [Versions -> JobStates] /\ image \in SUBSET Versions

OwnTypes == behind \in BOOLEAN /\ faults \in 0..MaxFaults

LEMMA QueueTypesStep ==
    ASSUME PlaceInv, QueueTypes, QueueStep PROVE QueueTypes'
<1>1. Len(queue) \in Nat /\ QueueCap \in Nat \ {0} /\ queue \in Seq(1..Len(tasks))
    BY BuildQueueAssumption DEF PlaceInv, Shapes
<1>2. ASSUME NEW m, queue' = Append(queue, m), Len(queue) < QueueCap PROVE Len(queue') <= QueueCap
    BY <1>1, <1>2
<1>3. ASSUME queue # <<>>, queue' = Tail(queue) PROVE Len(queue') <= QueueCap
    <2>1. Len(queue') = Len(queue) - 1
        BY <1>1, <1>3
    <2> QED BY <1>1, <2>1 DEF QueueTypes
<1>4. ASSUME UNCHANGED <<queue, job, image>> PROVE QueueTypes'
    BY <1>4 DEF QueueTypes
<1>5. CASE DispatcherStep \/ \E m \in DOMAIN msg : ReceiveUnchecked(m)
    <2>1. UNCHANGED <<job, image>>
        BY <1>5 DEF DispatcherStep, Unblock, Receive, ReceiveUnchecked
    <2>2. UNCHANGED queue \/ (Len(queue) < QueueCap /\ \E m : queue' = Append(queue, m))
        BY <1>5 DEF DispatcherStep, Unblock, Receive, CheckJob, ReceiveUnchecked, Accept
    <2> QED BY <1>2, <2>1, <2>2 DEF QueueTypes
<1>6. ASSUME NEW w \in Workers,
             WorkerStep(w) \/ LaunchFails(w) \/ PollFails(w) \/ RecordFails(w)
      PROVE  QueueTypes'
    <2>1. CASE LaunchJob(w)
        BY <1>3, <2>1 DEF LaunchJob, QueueTypes, JobStates
    <2>2. CASE LaunchFails(w)
        BY <1>3, <2>2 DEF LaunchFails, QueueTypes
    <2> QED BY <1>4, <1>6, <2>1, <2>2
            DEF WorkerStep, Succeed, GiveUp, AckBuilt, ClearKey, PollFails, RecordFails
<1>7. ASSUME NEW v \in Versions, PodEnds(v) \/ ExpireJob(v) PROVE QueueTypes'
    BY <1>7 DEF PodEnds, ExpireJob, QueueTypes, JobStates
<1>8. CASE CleanJobs
    BY <1>8 DEF CleanJobs, QueueTypes, JobStates
<1>9. CASE LoseMemory
    <2>1. Len(queue') = 0 /\ UNCHANGED <<job, image>>
        BY <1>9 DEF LoseMemory
    <2> QED BY <1>1, <2>1 DEF QueueTypes
<1>10. CASE RedeliveryStep \/ Reconnect
    BY <1>4, <1>10 DEF RedeliveryStep, Redeliver, Reconnect
<1>11. ASSUME NEW v, Publish(v) PROVE QueueTypes'
    BY <1>4, <1>11 DEF Publish
<1> QED BY <1>4, <1>5, <1>6, <1>7, <1>8, <1>9, <1>10, <1>11 DEF QueueStep, JobStep

LEMMA OwnTypesStep == OwnTypes /\ [Next]_vars => OwnTypes'
<1> SUFFICES ASSUME OwnTypes, [Next]_vars PROVE OwnTypes'
    OBVIOUS
<1>1. faults' \in 0..MaxFaults
    <2>1. UNCHANGED faults \/ (faults < MaxFaults /\ faults' = faults + 1)
        BY DEF Next, BuilderStep, ReadVersion, SkipBuild, WriteVersion, WriteFails, Trigger,
               OrchestratorStep, Redelivery, Cluster, Clock, Restart, Faults, Fault, vars
    <2> QED BY <2>1, BuildSystemAssumption DEF OwnTypes
<1>2. behind' \in BOOLEAN
    <2>1. \/ UNCHANGED behind \/ NoteVersion \/ behind' = TRUE
          \/ behind' = (behind \/ FirstVersion < version)
        BY DEF Next, BuilderStep, ReadVersion, SkipBuild, WriteVersion, WriteFails, Trigger,
               OrchestratorStep, Redelivery, Cluster, Clock, Restart, Faults, ReadFails, WriteLost,
               TriggerFails, vars
    <2> QED BY <2>1 DEF OwnTypes, NoteVersion
<1> QED BY <1>1, <1>2 DEF OwnTypes

TypeInv ==
    /\ LockTypeOK /\ PlaceInv /\ KeysCarried /\ NumbersInv /\ VersionsSpent
    /\ QueueTypes /\ OwnTypes

LEMMA TypeInvAtFirst == Init => TypeInv
<1> SUFFICES ASSUME Init PROVE TypeInv
    OBVIOUS
<1>1. LockTypeOK
    BY InitTypes DEF Init
<1>2. PlaceInv /\ KeysCarried
    BY PlacesAtFirst DEF Init, QueueInit, Free, KeysCarried
<1>3. NumbersInv
    BY DEF Init, NumbersInv, QueueInit, FirstVersion, Outside
<1>4. VersionsSpent
    <2>1. Spending = {}
        BY DEF Init, LockInit, Resting, Spending
    <2>2. Cardinality(Spending) = 0 /\ runs = 0
        BY <2>1, FS_EmptySet DEF Init, LockInit
    <2>3. \A x \in Nat : Known(x) => x = 0
        BY DEF Known, Init, QueueInit, FirstVersion, Outside
    <2> QED BY <2>2, <2>3 DEF VersionsSpent
<1>5. QueueTypes
    <2>1. FirstVersion \in Versions
        BY BuildSystemAssumption, BuildLockAssumption DEF FirstVersion
    <2>2. Len(queue) = 0 /\ QueueCap \in Nat
        BY BuildQueueAssumption DEF Init, QueueInit
    <2> QED BY <2>1, <2>2 DEF QueueTypes, Init, QueueInit, JobStates
<1>6. OwnTypes
    <2>1. behind = FALSE /\ faults = 0 /\ MaxFaults \in Nat
        BY BuildSystemAssumption DEF Init
    <2>2. faults \in 0..MaxFaults
        BY <2>1
    <2> QED BY <2>1, <2>2 DEF OwnTypes
<1> QED BY <1>1, <1>2, <1>3, <1>4, <1>5, <1>6 DEF TypeInv

LEMMA TypeInvStep == TypeInv /\ [Next]_vars => TypeInv'
<1> SUFFICES ASSUME TypeInv, [Next]_vars PROVE TypeInv'
    OBVIOUS
<1>1. LockTypeOK'
    BY TypeStep, LockStepOrNone DEF TypeInv
<1>2. PlaceInv' /\ NumbersInv' /\ KeysCarried'
    BY PlacesStep, QueueSteps, KeysCarriedStep DEF TypeInv
<1>3. VersionsSpent'
    BY VersionsStep DEF TypeInv
<1>4. QueueTypes'
    BY QueueSteps, QueueTypesStep DEF TypeInv
<1>5. OwnTypes'
    BY OwnTypesStep DEF TypeInv
<1> QED BY <1>1, <1>2, <1>3, <1>4, <1>5 DEF TypeInv

\* Versions are numbered up to the number of builds.
LEMMA KnownAreVersions ==
    ASSUME TypeInv, NEW x, Known(x) PROVE x \in Versions
<1>1. x \in Nat
    BY KnownAreNumbers DEF TypeInv, PlaceInv
<1>2. x + Cardinality(Spending) <= runs
    BY <1>1 DEF TypeInv, VersionsSpent
<1>3. runs \in 0..MaxRuns /\ Cardinality(Spending) \in Nat
    BY SpendingFinite DEF TypeInv, LockTypeOK
<1> QED BY <1>1, <1>2, <1>3, BuildLockAssumption, BuildSystemAssumption

LEMMA TypeInvTypes == TypeInv => TypeOK
<1> SUFFICES ASSUME TypeInv PROVE TypeOK
    OBVIOUS
<1>1. tasks \in Seq(Versions)
    <2>1. tasks \in Seq(Nat) /\ \A m \in DOMAIN tasks : tasks[m] \in Versions
        BY KnownAreVersions DEF TypeInv, PlaceInv, Shapes, Known
    <2>2. Len(tasks) \in Nat /\ DOMAIN tasks = 1..Len(tasks) /\ tasks \in [1..Len(tasks) -> Versions]
        BY <2>1
    <2> QED BY <2>2, SeqDef
<1>2. version \in Versions
    BY KnownAreVersions DEF Known
<1>3. section \in [Builders -> [pc : {"read", "write", "send"}, ver : Versions]]
    <2>1. \A b \in Builders : section[b].ver \in Versions
        BY KnownAreVersions DEF Known
    <2> QED BY <2>1 DEF TypeInv, NumbersInv
<1>4. \A m \in DOMAIN msg : msg[m] \in [at : Positions, redelivered : 0..MaxTaskRetries, why : Reasons]
    BY RecordTypes DEF TypeInv, PlaceInv, Records
<1>5. inProgress \in SUBSET Versions
    <2>1. \A v \in inProgress : \E m \in DOMAIN tasks : tasks[m] = v
        <3>1. DOMAIN msg = DOMAIN tasks
            BY DEF TypeInv, PlaceInv, Shapes
        <3> QED BY <3>1 DEF TypeInv, KeysCarried
    <2> QED BY <2>1, KnownAreVersions DEF Known
<1>6. queue \in Seq(DOMAIN tasks)
    BY DEF TypeInv, PlaceInv, Shapes
<1>7. QueueTypeOK
    BY <1>1, <1>2, <1>4, <1>5, <1>6 DEF QueueTypeOK, TypeInv, PlaceInv, Shapes, QueueTypes, Pcs
<1> QED BY <1>3, <1>7 DEF TypeInv, TypeOK, OwnTypes

(* The types of the lock, the queue and the shells; above all, the channel    *)
(* never holds more tasks than it can, and no version is ever recorded, read, *)
(* built or pushed beyond the number of builds that were started.             *)
THEOREM TypesKept == Spec => []TypeOK
BY TypeInvAtFirst, TypeInvStep, TypeInvTypes, PTL DEF Spec

-------------------------------------------------------------------------------
(* Settled messages *)

\* Why a message was settled.  A duplicate was settled while another message of
\* its version was in hand, and what is in hand is never a duplicate.
SettledWell ==
    \A m \in DOMAIN msg :
        /\ msg[m].why = "none" <=> msg[m].at # "acked"
        /\ msg[m].why \in {"done", "built"} => tasks[m] \in image
        /\ msg[m].why = "duplicate" =>
               /\ ~InHand(m)
               /\ \E n \in DOMAIN msg : tasks[n] = tasks[m] /\ msg[n].why # "duplicate"

\* What succeeded left its image.
Imaged ==
    /\ \A v \in Versions : job[v] = "succeeded" => v \in image
    /\ \A w \in Workers : worker[w].pc = "built" => Wanted(w) \in image

SettleInv == TypeInv /\ SettledWell /\ Imaged

LEMMA WantedIsVersion ==
    ASSUME TypeInv, NEW w \in Workers, Busy(w)
    PROVE  worker[w].m \in DOMAIN msg /\ Wanted(w) = tasks[worker[w].m] /\ Wanted(w) \in Versions
<1>1. worker[w].m \in DOMAIN msg /\ worker[w].m \in DOMAIN tasks
    BY SMTT(30) DEF TypeInv, PlaceInv, Shapes
<1> QED BY <1>1, KnownAreVersions DEF Wanted, Known

LEMMA ImagedStep ==
    ASSUME TypeInv, Imaged, QueueStep, TypeInv' PROVE Imaged' /\ image \subseteq image'
<1>1. image \subseteq image'
    BY DEF QueueStep, Publish, DispatcherStep, Unblock, Receive, CheckJob, ReceiveUnchecked,
           WorkerStep, LaunchJob, LaunchFails, Succeed, GiveUp, PollFails, RecordFails,
           AckBuilt, ClearKey, RedeliveryStep, Redeliver, JobStep, PodEnds, ExpireJob,
           Reconnect, CleanJobs, LoseMemory
<1>2. \A v \in Versions : job'[v] = "succeeded" => v \in image'
    <2>1. ASSUME NEW v \in Versions, PodEnds(v) \/ ExpireJob(v)
          PROVE  \A u \in Versions : job'[u] = "succeeded" => u \in image'
        BY <2>1, <1>1 DEF PodEnds, ExpireJob, Imaged, TypeInv, QueueTypes
    <2>2. ASSUME NEW w \in Workers, LaunchJob(w)
          PROVE  \A u \in Versions : job'[u] = "succeeded" => u \in image'
        BY <2>2, <1>1 DEF LaunchJob, Imaged, TypeInv, QueueTypes
    <2>3. CASE CleanJobs
        BY <2>3, <1>1 DEF CleanJobs, Imaged
    <2>4. CASE UNCHANGED job
        BY <2>4, <1>1, SMTT(30) DEF Imaged
    <2> QED BY <2>1, <2>2, <2>3, <2>4
            DEF QueueStep, Publish, DispatcherStep, Unblock, Receive, ReceiveUnchecked,
                WorkerStep, LaunchFails, Succeed, GiveUp, PollFails, RecordFails,
                AckBuilt, ClearKey, RedeliveryStep, Redeliver, JobStep, Reconnect, LoseMemory
<1>3. \A w \in Workers : worker'[w].pc = "built" => Wanted(w)' \in image'
    <2>1. ASSUME NEW w \in Workers, worker'[w].pc = "built", worker[w].pc = "built",
                 worker'[w].m = worker[w].m
          PROVE  Wanted(w)' \in image'
        <3>1. worker[w].m \in DOMAIN msg
            BY <2>1, WantedIsVersion DEF Busy
        <3> QED BY <1>1, <2>1, <3>1, TasksStay DEF Imaged, Wanted, TypeInv
    <2>2. ASSUME NEW u \in Workers, Succeed(u) \/ RecordFails(u), NEW w \in Workers,
                 worker'[w].pc = "built"
          PROVE  Wanted(w)' \in image'
        <3>1. Wanted(u) \in image
            BY <2>2, WantedIsVersion DEF Succeed, RecordFails, Imaged, Busy
        <3>2. /\ worker'[w].m = worker[w].m /\ tasks' = tasks
              /\ w = u \/ worker'[w] = worker[w]
            BY <2>2 DEF Succeed, RecordFails, Go, TypeInv, PlaceInv, Shapes
        <3> QED BY <1>1, <2>1, <2>2, <3>1, <3>2 DEF Wanted
    <2>3. ASSUME NEW u \in Workers, NEW pc \in {"wait", "clear", "idle"},
                 \/ Go(u, pc)
                 \/ \E m : worker' = [worker EXCEPT ![u] = [pc |-> pc, m |-> m]],
                 NEW w \in Workers, worker'[w].pc = "built"
          PROVE  Wanted(w)' \in image'
        <3>1. worker'[w] = worker[w]
            BY <2>3 DEF Go, TypeInv, PlaceInv, Shapes
        <3> QED BY <2>1, <2>3, <3>1
    <2>4. ASSUME UNCHANGED worker, NEW w \in Workers, worker'[w].pc = "built"
          PROVE  Wanted(w)' \in image'
        BY <2>1, <2>4
    <2>5. ASSUME LoseMemory, NEW w \in Workers PROVE worker'[w].pc # "built"
        BY <2>5 DEF LoseMemory, Free
    <2>6. ASSUME NEW u \in Workers, WorkerStep(u) \/ LaunchFails(u) \/ PollFails(u) \/ RecordFails(u)
          PROVE  \A w \in Workers : worker'[w].pc = "built" => Wanted(w)' \in image'
        BY <2>2, <2>3, <2>6 DEF WorkerStep, LaunchJob, LaunchFails, GiveUp, PollFails,
                                AckBuilt, ClearKey, Free
    <2> QED BY <2>4, <2>5, <2>6
            DEF QueueStep, Publish, DispatcherStep, Unblock, Receive, ReceiveUnchecked,
                RedeliveryStep, Redeliver, JobStep, PodEnds, ExpireJob, Reconnect, CleanJobs
<1> QED BY <1>1, <1>2, <1>3 DEF Imaged

\* A message that was settled as a duplicate does not come into anyone's hands.
LEMMA DuplicateStaysOut ==
    ASSUME TypeInv, SettledWell, QueueStep, NEW n \in DOMAIN msg, msg[n].why = "duplicate"
    PROVE  ~InHand(n)'
<1>1. ~InHand(n) /\ msg[n].at = "acked"
    BY DEF SettledWell
<1> QED BY <1>1, HandSteps DEF TypeInv

\* Nobody settles a message.
LEMMA NoneSettled ==
    ASSUME TypeInv, SettledWell, QueueStep, image \subseteq image',
           UNCHANGED tasks, DOMAIN msg' = DOMAIN msg,
           \A n \in DOMAIN msg : /\ msg'[n].why = msg[n].why
                                 /\ msg'[n].at = "acked" <=> msg[n].at = "acked"
    PROVE  SettledWell'
<1> SUFFICES ASSUME NEW m \in DOMAIN msg
             PROVE  /\ msg'[m].why = "none" <=> msg'[m].at # "acked"
                    /\ msg'[m].why \in {"done", "built"} => tasks[m] \in image'
                    /\ msg'[m].why = "duplicate" =>
                           /\ ~InHand(m)'
                           /\ \E n \in DOMAIN msg : tasks[n] = tasks[m] /\ msg'[n].why # "duplicate"
    BY DEF SettledWell
<1>1. msg[m].why = "duplicate" => ~InHand(m)'
    BY DuplicateStaysOut
<1> QED BY <1>1 DEF SettledWell

\* One message is settled, for a reason that stands.
LEMMA OneSettled ==
    ASSUME TypeInv, SettledWell, QueueStep, image \subseteq image', UNCHANGED tasks,
           NEW m \in DOMAIN msg, NEW why \in Reasons \ {"none"}, Settle(m, why),
           why \in {"done", "built"} => tasks[m] \in image',
           why = "duplicate" => /\ ~InHand(m)'
                                /\ \E n \in DOMAIN msg : n # m /\ tasks[n] = tasks[m]
                                                         /\ msg[n].why # "duplicate"
    PROVE  SettledWell'
<1>1. /\ DOMAIN msg' = DOMAIN msg
      /\ msg'[m].at = "acked" /\ msg'[m].why = why
      /\ \A n \in DOMAIN msg : n # m => msg'[n] = msg[n]
    BY DEF Settle
<1>2. \A n \in DOMAIN msg : msg[n].why = "duplicate" =>
          \E k \in DOMAIN msg : tasks[k] = tasks[n] /\ msg'[k].why # "duplicate"
    <2> SUFFICES ASSUME NEW n \in DOMAIN msg, msg[n].why = "duplicate"
                 PROVE  \E k \in DOMAIN msg : tasks[k] = tasks[n] /\ msg'[k].why # "duplicate"
        OBVIOUS
    <2>1. PICK k \in DOMAIN msg : tasks[k] = tasks[n] /\ msg[k].why # "duplicate"
        BY DEF SettledWell
    <2>2. CASE k = m /\ why = "duplicate"
        <3>1. PICK j \in DOMAIN msg : j # m /\ tasks[j] = tasks[m] /\ msg[j].why # "duplicate"
            BY <2>2
        <3> QED BY <1>1, <2>1, <2>2, <3>1
    <2> QED BY <1>1, <2>1, <2>2
<1> SUFFICES ASSUME NEW n \in DOMAIN msg
             PROVE  /\ msg'[n].why = "none" <=> msg'[n].at # "acked"
                    /\ msg'[n].why \in {"done", "built"} => tasks[n] \in image'
                    /\ msg'[n].why = "duplicate" =>
                           /\ ~InHand(n)'
                           /\ \E k \in DOMAIN msg : tasks[k] = tasks[n] /\ msg'[k].why # "duplicate"
    BY <1>1 DEF SettledWell
<1>3. CASE n = m
    BY <1>1, <1>3
<1>4. CASE n # m
    <2>1. msg'[n] = msg[n]
        BY <1>1, <1>4
    <2>2. msg[n].why = "duplicate" => ~InHand(n)'
        BY DuplicateStaysOut
    <2> QED BY <1>2, <2>1, <2>2 DEF SettledWell
<1> QED BY <1>3, <1>4

\* A failure settles the message or leaves it to be delivered again.
LEMMA FailSettles ==
    ASSUME TypeInv, SettledWell, QueueStep, image \subseteq image', UNCHANGED tasks,
           NEW m \in DOMAIN msg, Fail(m)
    PROVE  SettledWell'
<1>1. CASE Settle(m, "terminal")
    BY <1>1, OneSettled DEF Reasons
<1>2. CASE msg' = [msg EXCEPT ![m].at = IF @ = "held" THEN "nacked" ELSE @]
    <2>1. /\ DOMAIN msg' = DOMAIN msg
          /\ \A n \in DOMAIN msg : msg[n] \in Records /\
                 (msg'[n] = msg[n] \/ (msg[n].at = "held" /\ msg'[n] = [msg[n] EXCEPT !.at = "nacked"]))
        BY <1>2, RecordTypes DEF TypeInv, PlaceInv, Records
    <2>2. \A n \in DOMAIN msg : /\ msg'[n].why = msg[n].why
                                /\ msg'[n].at = "acked" <=> msg[n].at = "acked"
        BY <2>1 DEF Records
    <2> QED BY <2>1, <2>2, NoneSettled
<1> QED BY <1>1, <1>2 DEF Fail

\* The dispatcher drops a message because its job is active or has succeeded, or
\* because another message of its version is in hand; else it accepts it.
LEMMA ReceiveSettles ==
    ASSUME TypeInv, SettledWell, Imaged, QueueStep, image \subseteq image',
           NEW m \in DOMAIN msg, Receive(m) \/ ReceiveUnchecked(m)
    PROVE  SettledWell'
<1>1. UNCHANGED tasks /\ msg[m].at = "topic" /\ tasks[m] \in Versions
    BY KnownAreVersions DEF Receive, ReceiveUnchecked, Known, TypeInv, PlaceInv, Shapes
<1>2. CASE Accept(m)
    <2>1. /\ DOMAIN msg' = DOMAIN msg
          /\ \A n \in DOMAIN msg : n # m => msg'[n] = msg[n]
          /\ msg'[m] = [msg[m] EXCEPT !.at = "held"]
        BY <1>2 DEF Accept, TypeInv, PlaceInv
    <2>2. \A n \in DOMAIN msg : /\ msg'[n].why = msg[n].why
                                /\ msg'[n].at = "acked" <=> msg[n].at = "acked"
        <3>1. \A n \in DOMAIN msg : msg[n] \in Records
            BY RecordTypes DEF TypeInv, PlaceInv
        <3>2. msg[m].at = "topic" /\ msg'[m].at = "held" /\ msg'[m].why = msg[m].why
            BY <1>1, <2>1, <3>1 DEF Records
        <3> QED BY <2>1, <3>2
    <2> QED BY <1>1, <2>1, <2>2, NoneSettled
<1>3. CASE tasks[m] \in inProgress /\ InHand(m) /\ Settle(m, "self")
    BY <1>1, <1>3, OneSettled DEF Reasons
<1>4. CASE tasks[m] \in inProgress /\ ~InHand(m) /\ Settle(m, "duplicate")
           /\ UNCHANGED <<blocked, queue, worker>>
    <2>1. ~InHand(m)'
        BY <1>4 DEF InHand
    <2>2. PICK n \in DOMAIN msg : InHand(n) /\ tasks[n] = tasks[m]
        BY <1>4 DEF TypeInv, KeysCarried
    <2>3. n # m /\ msg[n].why # "duplicate"
        BY <1>4, <2>2 DEF SettledWell
    <2> QED BY <1>1, <1>4, <2>1, <2>2, <2>3, OneSettled DEF Reasons
<1>5. CASE Active(tasks[m]) /\ Settle(m, "active")
    BY <1>1, <1>5, OneSettled DEF Reasons
<1>6. CASE job[tasks[m]] = "succeeded" /\ Settle(m, "done")
    <2>1. tasks[m] \in image'
        BY <1>1, <1>6 DEF Imaged
    <2> QED BY <1>1, <1>6, <2>1, OneSettled DEF Reasons
<1> QED BY <1>2, <1>3, <1>4, <1>5, <1>6 DEF Receive, CheckJob, ReceiveUnchecked

LEMMA SettledStep ==
    ASSUME TypeInv, SettledWell, Imaged, QueueStep, TypeInv', image \subseteq image'
    PROVE  SettledWell'
<1>1. ASSUME UNCHANGED <<tasks, msg>> PROVE SettledWell'
    BY <1>1, NoneSettled
<1>2. ASSUME NEW b \in Builders, Publish(section[b].ver) PROVE SettledWell'
    <2>1. /\ DOMAIN msg = 1..Len(tasks) /\ DOMAIN msg' = 1..Len(tasks')
          /\ Len(tasks') = Len(tasks) + 1 /\ Len(tasks) \in Nat
          /\ \A n \in DOMAIN msg : msg'[n] = msg[n] /\ tasks'[n] = tasks[n]
          /\ msg'[Len(tasks) + 1] = [at |-> "topic", redelivered |-> 0, why |-> "none"]
          /\ UNCHANGED image
        BY <1>2 DEF Publish, TypeInv, PlaceInv, Shapes
    <2>2. \A n \in DOMAIN msg' : n \in DOMAIN msg \/ (msg'[n].why = "none" /\ msg'[n].at = "topic")
        BY <2>1
    <2>3. \A n \in DOMAIN msg : msg[n].why = "duplicate" => ~InHand(n)'
        BY DuplicateStaysOut
    <2>4. \A n \in DOMAIN msg :
              /\ msg'[n].why = "none" <=> msg'[n].at # "acked"
              /\ msg'[n].why \in {"done", "built"} => tasks'[n] \in image'
              /\ msg'[n].why = "duplicate" =>
                     /\ ~InHand(n)'
                     /\ \E k \in DOMAIN msg' : tasks'[k] = tasks'[n] /\ msg'[k].why # "duplicate"
        <3> SUFFICES ASSUME NEW n \in DOMAIN msg
                     PROVE  /\ msg[n].why = "none" <=> msg[n].at # "acked"
                            /\ msg[n].why \in {"done", "built"} => tasks[n] \in image
                            /\ msg[n].why = "duplicate" =>
                               /\ ~InHand(n)'
                               /\ \E k \in DOMAIN msg : tasks[k] = tasks[n] /\ msg[k].why # "duplicate"
            BY <2>1, TasksStay DEF TypeInv
        <3> QED BY <2>3 DEF SettledWell
    <2> QED BY <2>2, <2>4 DEF SettledWell
<1>3. CASE DispatcherStep \/ \E m \in DOMAIN msg : ReceiveUnchecked(m)
    BY <1>1, <1>3, ReceiveSettles DEF DispatcherStep, Unblock
<1>4. ASSUME NEW w \in Workers, WorkerStep(w) \/ LaunchFails(w) \/ PollFails(w) \/ RecordFails(w)
      PROVE  SettledWell'
    <2>1. CASE LaunchFails(w)
        <3>1. Head(queue) \in DOMAIN msg
            BY <2>1 DEF LaunchFails, TypeInv, PlaceInv, Shapes
        <3> QED BY <2>1, <3>1, FailSettles DEF LaunchFails
    <2>2. CASE GiveUp(w) \/ PollFails(w)
        <3>1. worker[w].m \in DOMAIN msg
            BY <2>2, WantedIsVersion DEF GiveUp, PollFails, Busy
        <3> QED BY <2>2, <3>1, FailSettles DEF GiveUp, PollFails
    <2>3. CASE AckBuilt(w)
        <3>1. worker[w].m \in DOMAIN msg /\ tasks[worker[w].m] \in image'
            BY <2>3, WantedIsVersion DEF AckBuilt, Busy, Imaged
        <3> QED BY <2>3, <3>1, OneSettled DEF AckBuilt, Reasons
    <2> QED BY <1>1, <1>4, <2>1, <2>2, <2>3
            DEF WorkerStep, LaunchJob, Succeed, ClearKey, RecordFails
<1>5. ASSUME NEW m \in DOMAIN msg, Redeliver(m) PROVE SettledWell'
    <2>1. /\ DOMAIN msg' = DOMAIN msg /\ msg[m].at = "nacked" /\ msg'[m].at = "topic"
          /\ msg'[m].why = msg[m].why
          /\ \A n \in DOMAIN msg : n # m => msg'[n] = msg[n]
        <3>1. msg[m] \in Records
            BY RecordTypes DEF TypeInv, PlaceInv
        <3> QED BY <1>5, <3>1 DEF Redeliver, Records
    <2> QED BY <1>5, <2>1, NoneSettled DEF Redeliver
<1>6. ASSUME msg' = Unacked, UNCHANGED tasks PROVE SettledWell'
    <2>1. /\ DOMAIN msg' = DOMAIN msg
          /\ \A n \in DOMAIN msg : /\ msg'[n].why = msg[n].why
                                   /\ msg'[n].at = "acked" <=> msg[n].at = "acked"
        <3>1. \A n \in DOMAIN msg : msg[n] \in Records
            BY RecordTypes DEF TypeInv, PlaceInv
        <3> QED BY <1>6, <3>1 DEF Unacked, Records
    <2> QED BY <1>6, <2>1, NoneSettled
<1> QED BY <1>1, <1>2, <1>3, <1>4, <1>5, <1>6
        DEF QueueStep, RedeliveryStep, JobStep, PodEnds, ExpireJob, Reconnect, CleanJobs, LoseMemory

LEMMA SettleInvStep == SettleInv /\ [Next]_vars => SettleInv'
<1> SUFFICES ASSUME SettleInv, [Next]_vars PROVE SettleInv'
    OBVIOUS
<1>1. TypeInv /\ TypeInv' /\ QueueStep
    BY TypeInvStep, QueueSteps DEF SettleInv
<1>2. Imaged' /\ image \subseteq image'
    BY <1>1, ImagedStep DEF SettleInv
<1> QED BY <1>1, <1>2, SettledStep DEF SettleInv

\* Of the messages of a forgotten version one was not settled as a duplicate, and
\* what was not built can only have been skipped.
LEMMA ForgottenWasSkipped == SettleInv => LostOnlyIfSkipped
<1> SUFFICES ASSUME SettleInv, NEW v \in Versions, Forgotten(v)
             PROVE  SettledAs(v, "active") \/ SettledAs(v, "self")
    BY DEF LostOnlyIfSkipped
<1>1. DOMAIN tasks = DOMAIN msg
    BY DEF SettleInv, TypeInv, PlaceInv, Shapes
<1>2. PICK m \in DOMAIN msg : tasks[m] = v
    BY <1>1 DEF Forgotten
<1>3. PICK n \in DOMAIN msg : tasks[n] = v /\ msg[n].why # "duplicate"
    BY <1>2 DEF SettleInv, SettledWell
<1>4. msg[n].at = "acked" /\ msg[n].why # "terminal" /\ v \notin image
    BY <1>1, <1>3 DEF Forgotten, SettledAs
<1>5. msg[n].why \in Reasons
    BY RecordTypes DEF SettleInv, TypeInv, PlaceInv, Records
<1>6. msg[n].why \in {"active", "self"}
    BY <1>3, <1>4, <1>5 DEF SettleInv, SettledWell, Reasons
<1> QED BY <1>3, <1>6 DEF SettledAs

(* A request that was acknowledged ends in an image or in a reported failure, *)
(* unless the dispatcher took it for superfluous: because its job was active, *)
(* or because its key was in progress and the message the one in progress.    *)
(* Duplicates, retries, redeliveries and restarts lose none.                  *)
THEOREM LostOnlyIfSkippedAlways == Spec => []LostOnlyIfSkipped
<1>1. Init => SettleInv
    BY TypeInvAtFirst DEF Init, QueueInit, Free, SettleInv, SettledWell, Imaged
<1> QED BY <1>1, SettleInvStep, ForgottenWasSkipped, PTL DEF Spec
-------------------------------------------------------------------------------
(* The recorded version leads *)

\* A shell outside the lock starts from the top.
FreshShells == \A b \in Builders : builder[b].pc \notin {"held", "dead"} => section[b].pc = "read"

\* Nobody asks for a version beyond the recorded one, and the shell that is to
\* increment has read the recorded one, or, without an answer, the first one, which
\* the orchestrator records when it is back.
Leading ==
    /\ \A m \in DOMAIN tasks : tasks[m] <= version
    /\ \A b \in Builders :
         /\ InSection(b, "write") => \/ section[b].ver = version
                                     \/ ~up /\ section[b].ver = FirstVersion
         /\ InSection(b, "send") => section[b].ver <= version

Leads == ~disturbed /\ ~behind => Leading

\* No shell leaves the lock but by dying in it.
NobodyLeaves ==
    \A a \in Builders : builder'[a].pc \in {builder[a].pc, "dead"}
                          \/ builder[a].pc \notin {"held", "dead"}

LEMMA LockMoves ==
    ASSUME LockTypeOK, NEW b \in Builders,
           \/ StartBuild(b) \/ CreateLock(b) \/ QueryLock(b) \/ DeleteStaleLock(b)
           \/ Unreachable(b) \/ Heartbeat(b) \/ KillBuilder(b)
    PROVE  NobodyLeaves
<1>1. ASSUME \A a \in Builders : a # b => builder'[a] = builder[a],
             builder'[b].pc = "dead" \/ builder[b].pc \notin {"held", "dead"}
      PROVE  NobodyLeaves
    BY <1>1 DEF NobodyLeaves
<1>2. CASE StartBuild(b)
    BY <1>1, <1>2 DEF StartBuild, LockTypeOK
<1>3. CASE CreateLock(b) \/ QueryLock(b) \/ DeleteStaleLock(b) \/ Unreachable(b)
    <2>1. builder[b].pc \notin {"held", "dead"}
        BY <1>3 DEF CreateLock, QueryLock, DeleteStaleLock, Unreachable
    <2>2. ASSUME NEW to, builder' = [builder EXCEPT ![b] = to]
          PROVE  \A a \in Builders : a # b => builder'[a] = builder[a]
        BY <2>2 DEF LockTypeOK
    <2>3. \E to : builder' = [builder EXCEPT ![b] = to]
        <3>1. CASE Proceed(b, 0) \/ Proceed(b, lastId + 1)
            BY <3>1 DEF Proceed
        <3>2. ASSUME NEW pc, builder' = [builder EXCEPT ![b].pc = pc]
              PROVE  \E to : builder' = [builder EXCEPT ![b] = to]
            BY <3>2
        <3>3. ASSUME NEW pc, NEW id, builder' = [builder EXCEPT ![b].pc = pc, ![b].seen = id]
              PROVE  \E to : builder' = [builder EXCEPT ![b] = to]
            <4>1. builder' = [builder EXCEPT ![b] = [builder[b] EXCEPT !.pc = pc, !.seen = id]]
                BY <3>3 DEF LockTypeOK
            <4> QED BY <4>1
        <3> QED BY <1>3, <3>1, <3>2, <3>3 DEF CreateLock, QueryLock, DeleteStaleLock, Unreachable
    <2> QED BY <1>1, <2>1, <2>2, <2>3
<1>4. CASE Heartbeat(b)
    BY <1>4 DEF Heartbeat, NobodyLeaves
<1>5. CASE KillBuilder(b)
    BY <1>1, <1>5 DEF KillBuilder, LockTypeOK, Resting
<1> QED BY <1>2, <1>3, <1>4, <1>5

\* A shell's section changes only while it is inside, and is left from the top.
LEMMA SectionSteps ==
    ASSUME LockTypeOK, NumbersInv, [Next]_vars
    PROVE  \/ UNCHANGED section /\ NobodyLeaves
           \/ \E b \in Builders : Leave(b)
           \/ \E b \in Builders : /\ Holds(b) /\ UNCHANGED builder
                                  /\ \A c \in Builders : c # b => section'[c] = section[c]
<1>1. UNCHANGED builder => NobodyLeaves
    BY DEF NobodyLeaves
<1>2. ASSUME NEW b \in Builders, BuilderStep(b)
      PROVE  \/ UNCHANGED section /\ NobodyLeaves
             \/ Leave(b)
             \/ /\ Holds(b) /\ UNCHANGED builder
                /\ \A c \in Builders : c # b => section'[c] = section[c]
    <2>1. CASE UNCHANGED section /\ (StartBuild(b) \/ CreateLock(b) \/ QueryLock(b)
                                      \/ DeleteStaleLock(b) \/ Unreachable(b) \/ Heartbeat(b))
        BY <2>1, LockMoves
    <2>2. CASE ReadVersion(b) \/ WriteVersion(b)
        BY <2>2 DEF ReadVersion, WriteVersion, InSection, Holds, lockVars, NumbersInv
    <2>3. CASE SkipBuild(b) \/ WriteFails(b) \/ Trigger(b)
        BY <2>3 DEF SkipBuild, WriteFails, Trigger
    <2> QED BY <1>2, <2>1, <2>2, <2>3 DEF BuilderStep
<1>3. CASE Faults
    <2>1. CASE UNCHANGED section /\ (MissHeartbeats \/ ResetLocks \/ ApiDown \/ UNCHANGED lockVars)
        BY <1>1, <2>1 DEF MissHeartbeats, Age, ResetLocks, ApiDown, lockVars
    <2>2. ASSUME NEW b \in Builders, KillBuilder(b), UNCHANGED section
          PROVE  UNCHANGED section /\ NobodyLeaves
        BY <2>2, LockMoves
    <2>3. ASSUME NEW b \in Builders, ReadFails(b) \/ WriteLost(b) \/ TriggerFails(b)
          PROVE  \/ Leave(b)
                 \/ /\ Holds(b) /\ UNCHANGED builder
                    /\ \A c \in Builders : c # b => section'[c] = section[c]
        <3>1. CASE ReadFails(b)
            BY <3>1 DEF ReadFails, InSection, Holds, lockVars, NumbersInv
        <3>2. CASE WriteLost(b)
            BY <3>2 DEF WriteLost, InSection, Holds, lockVars, NumbersInv
        <3>3. CASE TriggerFails(b)
            BY <3>3 DEF TriggerFails
        <3> QED BY <2>3, <3>1, <3>2, <3>3
    <2> QED BY <1>3, <2>1, <2>2, <2>3 DEF Faults
<1>4. CASE OrchestratorStep \/ Redelivery \/ Cluster \/ Clock \/ Restart \/ UNCHANGED vars
    BY <1>1, <1>4 DEF OrchestratorStep, Redelivery, Cluster, Clock, GrowStale, Age, Restart, ApiUp,
                      vars, lockVars
<1> QED BY <1>2, <1>3, <1>4 DEF Next

LEMMA FreshStep ==
    LockTypeOK /\ NumbersInv /\ FreshShells /\ [Next]_vars => FreshShells'
<1> SUFFICES ASSUME LockTypeOK, NumbersInv, FreshShells, [Next]_vars PROVE FreshShells'
    OBVIOUS
<1>1. CASE UNCHANGED section /\ NobodyLeaves
    BY <1>1 DEF NobodyLeaves, FreshShells
<1>2. ASSUME NEW b \in Builders, Leave(b) PROVE FreshShells'
    BY <1>2 DEF Leave, ReleaseLock, Outside, FreshShells, LockTypeOK, NumbersInv
<1>3. ASSUME NEW b \in Builders, Holds(b), UNCHANGED builder,
             \A c \in Builders : c # b => section'[c] = section[c]
      PROVE  FreshShells'
    BY <1>3 DEF Holds, FreshShells
<1> QED BY <1>1, <1>2, <1>3, SectionSteps

\* What is noted stays noted.
LEMMA HistoryStays ==
    ASSUME [Next]_vars, ~disturbed', ~behind' PROVE ~disturbed /\ ~behind
<1>1. ~disturbed
    BY LockStepOrNone DEF LockNext, LockStep, LockFault, StartBuild, CreateLock, QueryLock,
       DeleteStaleLock, Unreachable, Heartbeat, ReleaseLock, GrowStale, MissHeartbeats, Age,
       ResetLocks, ApiUp, ApiDown, KillBuilder, lockVars
<1>2. \/ UNCHANGED behind \/ NoteVersion \/ behind' = TRUE
      \/ behind' = (behind \/ FirstVersion < version)
    BY DEF Next, BuilderStep, ReadVersion, SkipBuild, WriteVersion, WriteFails, Trigger,
           OrchestratorStep, Redelivery, Cluster, Clock, Restart, Faults, ReadFails, WriteLost,
           TriggerFails, vars
<1>3. ~behind
    BY <1>2, Zenon DEF NoteVersion
<1> QED BY <1>1, <1>3

\* No task beyond the recorded version, and every shell inside as it was, at the
\* top, or with a version it has from the recorded one.
LEMMA LeadingKept ==
    ASSUME Shapes, NumbersInv, Leading, version' \in Nat, version <= version',
           \A m \in DOMAIN tasks' : \/ m \in DOMAIN tasks /\ tasks'[m] = tasks[m]
                                    \/ tasks'[m] <= version',
           \A b \in Builders :
               \/ builder'[b].pc # "held" \/ section'[b].pc = "read"
               \/ /\ builder[b].pc = "held" /\ section'[b] = section[b]
                  /\ section[b].pc = "write" =>
                         version' = version /\ (up' = up \/ ~up' \/ version = 0)
               \/ /\ section'[b].pc = "write"
                  /\ section'[b].ver = version' \/ (~up' /\ section'[b].ver = FirstVersion)
               \/ section'[b].pc = "send" /\ section'[b].ver <= version'
    PROVE  Leading'
<1>1. ASSUME NEW m \in DOMAIN tasks' PROVE tasks'[m] <= version'
    <2>1. CASE m \in DOMAIN tasks /\ tasks'[m] = tasks[m]
        <3>1. tasks[m] \in Nat /\ tasks[m] <= version /\ version \in Nat
            BY <2>1 DEF Shapes, Leading, NumbersInv
        <3> QED BY <2>1, <3>1
    <2> QED BY <1>1, <2>1
<1>2. ASSUME NEW b \in Builders
      PROVE  /\ InSection(b, "write")' => \/ section'[b].ver = version'
                                          \/ ~up' /\ section'[b].ver = FirstVersion
             /\ InSection(b, "send")' => section'[b].ver <= version'
    <2>1. version \in Nat /\ section[b].ver \in Nat
        BY DEF NumbersInv
    <2>2. CASE builder'[b].pc # "held" \/ section'[b].pc = "read"
        BY <2>2 DEF InSection
    <2>3. CASE /\ builder[b].pc = "held" /\ section'[b] = section[b]
               /\ section[b].pc = "write" =>
                      version' = version /\ (up' = up \/ ~up' \/ version = 0)
        <3>1. section[b].pc = "write" => section[b].ver = version
                                            \/ (~up /\ section[b].ver = FirstVersion)
            BY <2>3 DEF Leading, InSection
        <3>2. section[b].pc = "send" => section[b].ver <= version
            BY <2>3 DEF Leading, InSection
        <3>3. section'[b].pc = section[b].pc /\ section'[b].ver = section[b].ver
            BY <2>3
        <3>4. section[b].pc = "send" => section[b].ver <= version'
            BY <2>1, <3>2
        <3>5. section[b].pc = "write" => section[b].ver = version'
                                            \/ (~up' /\ section[b].ver = FirstVersion)
            BY <2>3, <3>1 DEF FirstVersion
        <3> QED BY <3>3, <3>4, <3>5 DEF InSection
    <2>4. CASE /\ section'[b].pc = "write"
               /\ section'[b].ver = version' \/ (~up' /\ section'[b].ver = FirstVersion)
        BY <2>4 DEF InSection
    <2>5. CASE section'[b].pc = "send" /\ section'[b].ver <= version'
        BY <2>5 DEF InSection
    <2> QED BY <2>2, <2>3, <2>4, <2>5
<1> QED BY <1>1, <1>2 DEF Leading

\* As long as nobody disturbs the lock or sets the recorded version back, it leads.
LEMMA LeadsStep ==
    TypeInv /\ LockInv /\ FreshShells /\ Leads /\ [Next]_vars => Leads'
<1> SUFFICES ASSUME TypeInv, LockInv, FreshShells, Leads, [Next]_vars, ~disturbed', ~behind'
             PROVE  Leading'
    BY DEF Leads
<1>1. ~disturbed /\ ~behind /\ Leading
    BY HistoryStays DEF Leads
<1>2. /\ LockTypeOK /\ NumbersInv /\ PlaceInv /\ Shapes /\ version \in Nat
      /\ \A m \in DOMAIN tasks : tasks[m] \in Nat
      /\ section \in [Builders -> [pc : {"read", "write", "send"}, ver : Nat]]
    BY DEF TypeInv, PlaceInv, Shapes, NumbersInv
<1>3. \A a, b \in Builders : Holds(a) /\ Holds(b) => a = b
    BY <1>1 DEF LockInv, AloneInside
<1> DEFINE Asked == \A m \in DOMAIN tasks' : \/ m \in DOMAIN tasks /\ tasks'[m] = tasks[m]
                                             \/ tasks'[m] <= version'
\* Nothing of the shells and the version changes, but perhaps the lock.
<1>4. ASSUME UNCHANGED <<section, version>>, NobodyLeaves, Asked,
             up' = up \/ ~up' \/ version = 0
      PROVE  Leading'
    <2>1. ASSUME NEW b \in Builders
          PROVE  \/ builder'[b].pc # "held" \/ section'[b].pc = "read"
                 \/ /\ builder[b].pc = "held" /\ section'[b] = section[b]
                    /\ section[b].pc = "write" =>
                           version' = version /\ (up' = up \/ ~up' \/ version = 0)
        BY <1>4 DEF NobodyLeaves, FreshShells
    <2>2. version' \in Nat /\ version <= version'
        BY <1>2, <1>4
    <2> QED BY <1>1, <1>2, <1>4, <2>1, <2>2, LeadingKept
<1>5. UNCHANGED builder => NobodyLeaves
    BY DEF NobodyLeaves
<1>6. UNCHANGED tasks => Asked
    OBVIOUS
\* A shell leaves.
<1>7. ASSUME NEW b \in Builders, Leave(b), UNCHANGED version, Asked PROVE Leading'
    <2>1. ASSUME NEW c \in Builders
          PROVE  \/ builder'[c].pc # "held"
                 \/ /\ builder[c].pc = "held" /\ section'[c] = section[c] /\ up' = up
        BY <1>2, <1>7 DEF Leave, ReleaseLock, Resting, LockTypeOK
    <2>2. version' \in Nat /\ version <= version'
        BY <1>2, <1>7
    <2> QED BY <1>1, <1>2, <1>7, <2>1, <2>2, LeadingKept
\* The shell inside goes on.
<1>8. ASSUME NEW b \in Builders, Holds(b), UNCHANGED <<builder, tasks>>,
             NEW pc, NEW ver, section' = [section EXCEPT ![b] = [pc |-> pc, ver |-> ver]],
             version' \in Nat, version <= version',
             \/ pc = "write" /\ (ver = version' \/ (~up' /\ ver = FirstVersion))
             \/ pc = "send" /\ ver <= version'
      PROVE  Leading'
    <2>1. ASSUME NEW c \in Builders
          PROVE  \/ builder'[c].pc # "held"
                 \/ /\ section'[c].pc = "write"
                    /\ section'[c].ver = version' \/ (~up' /\ section'[c].ver = FirstVersion)
                 \/ section'[c].pc = "send" /\ section'[c].ver <= version'
        <3>1. CASE c = b
            <4>1. section'[c] = [pc |-> pc, ver |-> ver]
                BY <1>2, <1>8, <3>1
            <4>2. section'[c].pc = pc /\ section'[c].ver = ver
                BY <4>1
            <4> QED BY <1>8, <4>2
        <3>2. CASE c # b
            BY <1>3, <1>8, <3>2 DEF Holds
        <3> QED BY <3>1, <3>2
    <2>2. Asked
        BY <1>6, <1>8
    <2> QED BY <1>1, <1>2, <1>8, <2>1, <2>2, LeadingKept
<1>9. ASSUME NEW b \in Builders, BuilderStep(b) PROVE Leading'
    <2>1. CASE /\ UNCHANGED section /\ (CleanJobs \/ UNCHANGED queueVars)
               /\ (StartBuild(b) \/ CreateLock(b) \/ QueryLock(b)
                     \/ DeleteStaleLock(b) \/ Unreachable(b) \/ Heartbeat(b))
        <3>1. NobodyLeaves
            BY <1>2, <2>1, LockMoves
        <3>2. UNCHANGED <<version, tasks>>
            BY <2>1 DEF CleanJobs, queueVars
        <3>3. up' = up
            BY <2>1 DEF StartBuild, CreateLock, QueryLock, DeleteStaleLock, Unreachable, Heartbeat
        <3> QED BY <1>4, <1>6, <2>1, <3>1, <3>2, <3>3
    <2>2. CASE ReadVersion(b)
        <3>1. /\ Holds(b) /\ UNCHANGED <<builder, tasks, version, up>>
              /\ section' = [section EXCEPT ![b] =
                     [pc |-> "write", ver |-> IF up THEN version ELSE FirstVersion]]
            BY <2>2 DEF ReadVersion, InSection, Holds, lockVars, queueVars
        <3>2. PICK ver : ver = IF up THEN version ELSE FirstVersion
            OBVIOUS
        <3>3. ver = version' \/ (~up' /\ ver = FirstVersion)
            BY <3>1, <3>2
        <3>4. section' = [section EXCEPT ![b] = [pc |-> "write", ver |-> ver]]
            BY <3>1, <3>2
        <3>5. version' \in Nat /\ version <= version'
            BY <1>2, <3>1
        <3> QED BY <1>8, <3>1, <3>3, <3>4, <3>5
    <2>3. CASE SkipBuild(b) \/ WriteFails(b)
        <3>1. Leave(b) /\ UNCHANGED <<version, tasks>>
            BY <2>3 DEF SkipBuild, WriteFails, queueVars
        <3> QED BY <1>6, <1>7, <3>1
    <2>4. CASE WriteVersion(b)
        <3>1. /\ Holds(b) /\ UNCHANGED <<builder, tasks>> /\ version' = section[b].ver + 1
              /\ section' = [section EXCEPT ![b] = [pc |-> "send", ver |-> section[b].ver + 1]]
              /\ InSection(b, "write") /\ up
            BY <2>4 DEF WriteVersion, InSection, Holds, lockVars
        <3>2. section[b].ver = version
            BY <1>1, <3>1 DEF Leading
        <3>3. PICK ver : ver = section[b].ver + 1
            OBVIOUS
        <3>4. version' \in Nat /\ version <= version' /\ ver <= version'
            BY <1>2, <3>1, <3>2, <3>3
        <3> QED BY <1>8, <3>1, <3>3, <3>4
    <2>5. CASE Trigger(b)
        <3>1. Leave(b) /\ NoteVersion /\ InSection(b, "send")
            BY <2>5 DEF Trigger
        <3>2. section[b].ver <= version /\ section[b].ver \in Nat
            BY <1>1, <1>2, <3>1 DEF Leading
        <3>3. ~(version' < version)
            BY <3>1 DEF NoteVersion
        <3>4. \/ version' \in {version, section[b].ver} /\ UNCHANGED tasks
              \/ version' = version /\ tasks' = Append(tasks, section[b].ver)
            BY <2>5 DEF Trigger, Publish
        <3>5. version' = version
            BY <1>2, <3>2, <3>3, <3>4
        <3>6. Asked
            <4>1. CASE tasks' = Append(tasks, section[b].ver)
                <5>1. tasks \in Seq(Nat)
                    BY <1>2 DEF Shapes
                <5> QED BY <3>2, <3>5, <4>1, <5>1
            <4> QED BY <1>6, <3>4, <4>1
        <3> QED BY <1>7, <3>1, <3>5, <3>6
    <2> QED BY <1>9, <2>1, <2>2, <2>3, <2>4, <2>5 DEF BuilderStep
<1>10. CASE OrchestratorStep
    <2>1. UNCHANGED <<section, builder, up>> /\ NoteVersion
        BY <1>10 DEF OrchestratorStep, lockVars
    <2>2. UNCHANGED tasks
        BY <1>10 DEF OrchestratorStep, DispatcherStep, Unblock, Receive, WorkerStep, LaunchJob,
                     Succeed, GiveUp, AckBuilt, ClearKey
    <2>3. version' = version
        <3>1. CASE UNCHANGED version
            BY <3>1
        <3>2. ASSUME NEW w \in Workers, Succeed(w) PROVE version' = version
            <4>1. worker[w].m \in DOMAIN tasks
                BY <1>2, <3>2 DEF Succeed, PlaceInv, Shapes, Busy
            <4>2. version' \in Nat /\ version' <= version
                BY <1>1, <1>2, <3>2, <4>1 DEF Succeed, Wanted, Leading
            <4>3. ~(version' < version)
                BY <2>1 DEF NoteVersion
            <4> QED BY <1>2, <4>2, <4>3
        <3> QED BY <1>10, <3>1, <3>2
                DEF OrchestratorStep, DispatcherStep, Unblock, Receive, WorkerStep, LaunchJob,
                    GiveUp, AckBuilt, ClearKey
    <2> QED BY <1>4, <1>5, <1>6, <2>1, <2>2, <2>3
<1>11. ASSUME UNCHANGED <<section, builder, version, tasks>>, up' = up \/ ~up' PROVE Leading'
    BY <1>4, <1>5, <1>6, <1>11
<1>12. CASE Redelivery \/ Cluster \/ Clock \/ UNCHANGED vars
    BY <1>11, <1>12 DEF Redelivery, RedeliveryStep, Redeliver, Cluster, JobStep, PodEnds, ExpireJob,
                        Clock, GrowStale, Age, vars, lockVars, queueVars
<1>13. CASE Restart
    <2>1. /\ UNCHANGED <<section, builder, tasks>> /\ version' = FirstVersion /\ NoteVersion
        BY <1>13 DEF Restart, ApiUp
    <2>3. ~(version' < version)
        BY <2>1, Zenon DEF NoteVersion
    <2>2. version' = version /\ version = 0
        BY <1>2, <2>1, <2>3 DEF FirstVersion
    <2> QED BY <1>4, <1>5, <1>6, <2>1, <2>2
<1>14. CASE Faults
    <2>1. CASE (MissHeartbeats \/ ResetLocks) /\ UNCHANGED <<queueVars, section>>
        BY <1>11, <2>1 DEF MissHeartbeats, Age, ResetLocks, queueVars
    <2>2. ASSUME NEW b \in Builders, KillBuilder(b), UNCHANGED <<queueVars, section>> PROVE Leading'
        <3>1. NobodyLeaves /\ UNCHANGED <<section, version, tasks, up>>
            BY <1>2, <2>2, LockMoves DEF KillBuilder, queueVars
        <3> QED BY <1>4, <1>6, <3>1
    <2>3. CASE QueueFault /\ UNCHANGED <<lockVars, section>>
        BY <1>11, <2>3 DEF QueueFault, Reconnect, ReceiveUnchecked, LaunchFails, PollFails,
                           RecordFails, lockVars
    <2>4. CASE ApiDown /\ LoseMemory /\ UNCHANGED section
        BY <1>11, <2>4 DEF ApiDown, LoseMemory
    <2>5. ASSUME NEW b \in Builders, ReadFails(b) PROVE Leading'
        <3>1. UNCHANGED <<version, tasks>> /\ InSection(b, "read")
            BY <2>5 DEF ReadFails, queueVars
        <3>2. CASE Leave(b)
            BY <1>6, <1>7, <3>1, <3>2
        <3>3. version' \in Nat /\ version <= version'
            BY <1>2, <3>1
        <3>4. ASSUME NEW ver \in {version, FirstVersion}, UNCHANGED lockVars,
                     section' = [section EXCEPT ![b] = [pc |-> "send", ver |-> ver]]
              PROVE  Leading'
            <4>1. ver <= version'
                BY <1>2, <3>1, <3>4 DEF FirstVersion
            <4> QED BY <1>8, <3>1, <3>3, <3>4, <4>1 DEF Holds, InSection, lockVars
        <3>5. ASSUME behind' = (behind \/ FirstVersion < version), UNCHANGED lockVars,
                     section' = [section EXCEPT ![b] = [pc |-> "write", ver |-> FirstVersion]]
              PROVE  Leading'
            <4>2. ~(FirstVersion < version)
                BY <3>5, Zenon
            <4>1. FirstVersion = version'
                BY <1>2, <3>1, <4>2 DEF FirstVersion
            <4> QED BY <1>8, <3>1, <3>3, <3>5, <4>1 DEF Holds, InSection, lockVars
        <3> QED BY <2>5, <3>2, <3>4, <3>5 DEF ReadFails
    <2>6. ASSUME NEW b \in Builders, WriteLost(b) PROVE FALSE
        BY <2>6 DEF WriteLost
    <2>7. ASSUME NEW b \in Builders, TriggerFails(b) PROVE Leading'
        BY <1>6, <1>7, <2>7 DEF TriggerFails, queueVars
    <2> QED BY <1>14, <2>1, <2>2, <2>3, <2>4, <2>5, <2>6, <2>7 DEF Faults
<1> QED BY <1>9, <1>10, <1>12, <1>13, <1>14 DEF Next

(* A shell that writes a new version writes one that no task has, as long as  *)
(* nobody disturbs the lock or sets the recorded version back, for any number *)
(* of shells: build_service reads, increments and writes the version inside   *)
(* the lock, and what was asked for is never ahead of what is recorded.       *)
THEOREM VersionsUniqueAlways == Spec => VersionsUnique
<1> DEFINE New == ~disturbed /\ ~behind =>
                      \A b \in Builders : WriteVersion(b) =>
                          \A m \in DOMAIN tasks : tasks[m] # section'[b].ver
<1>1. Init => LockInv /\ FreshShells /\ Leads
    <2>1. Init => LockInv
        BY InitTypes DEF Init, LockInit, LockInv, Resting, RowIsHolders, SeenIsDead, AloneInside, Holds
    <2>2. Init => FreshShells /\ Leads
        BY DEF Init, QueueInit, LockInit, Resting, Outside, FreshShells, Leads, Leading, InSection
    <2> QED BY <2>1, <2>2
<1>2. LockInv /\ [Next]_vars => LockInv'
    BY ExclusionStep, LockStepOrNone
<1>3. TypeInv /\ FreshShells /\ [Next]_vars => FreshShells'
    BY FreshStep DEF TypeInv
<1>4. TypeInv /\ Leads => New
    <2> SUFFICES ASSUME TypeInv, Leads, ~disturbed, ~behind,
                        NEW b \in Builders, WriteVersion(b), NEW m \in DOMAIN tasks
                 PROVE  tasks[m] # section'[b].ver
        OBVIOUS
    <2>1. section[b].ver = version /\ tasks[m] <= version
        BY DEF Leads, Leading, WriteVersion
    <2>2. version \in Nat /\ tasks[m] \in Nat
        BY DEF TypeInv, NumbersInv, PlaceInv, Shapes
    <2>3. section'[b].ver = section[b].ver + 1
        BY DEF WriteVersion, TypeInv, NumbersInv
    <2> QED BY <2>1, <2>2, <2>3
<1>5. TypeInv /\ Leads => [New]_vars
    BY <1>4
<1> QED BY <1>1, <1>2, <1>3, <1>5, TypeInvAtFirst, TypeInvStep, LeadsStep, PTL DEF Spec, VersionsUnique

===============================================================================
