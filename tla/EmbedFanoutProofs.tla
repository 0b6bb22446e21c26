-------------------------- MODULE EmbedFanoutProofs --------------------------
(***************************************************************************)
(* The embedding fan-out for any number of searches, sub-queries, attempts *)
(* and faults.                                                             *)
(*                                                                         *)
(* What carries it: an attempt that is registered is being read; every     *)
(* result anywhere belongs to a job that was published; and as long as no  *)
(* job was answered twice, a result is in one place only -- on the topic,  *)
(* with the dispatcher, in a channel or gathered -- so that a channel has  *)
(* room for all that can come and the gathered ones can be counted.        *)
(***************************************************************************)
EXTENDS EmbedFanout, FiniteSetTheorems, TLAPS

JobStates == {"none", "queued", "held", "answered", "gone"}
Answered == {"answered", "gone"}

Gots == UNION {[1..n -> Results \cup {NoResult}] : n \in Nat}

SearcherRecords ==
    [pc : SearcherPhases, attempt : 0..MaxAttempts, next : Nat, gathered : Nat, got : Gots]

Sends == [pc : {"send"}, result : Results, to : Attempts]

\* What the goroutine of s can be.
Fits(s, x) ==
    /\ x \in SearcherRecords
    /\ x.got \in [1..N[s] -> Results \cup {NoResult}]
    /\ x.next \in 1..(N[s] + 1) /\ x.gathered \in 0..N[s]
    /\ x.pc = "publish" => x.next <= N[s]
    /\ x.pc = "gather" => x.next = N[s] + 1
    /\ x.pc # "idle" => x.attempt # 0

\* The types, with the bounds that make every index one that exists.
Types ==
    /\ searcher \in [Searchers -> SearcherRecords]
    /\ \A s \in Searchers : Fits(s, searcher[s])
    /\ pending \in [RequestIds -> Attempts \cup {None}]
    /\ buffer \in [Attempts -> Seq(Results)]
    /\ \A a \in Attempts : Len(buffer[a]) <= N[a[1]]
    /\ jobs \in [Attempts -> UNION {[1..n -> JobStates] : n \in Nat}]
    /\ \A a \in Attempts : jobs[a] \in [1..N[a[1]] -> JobStates]
    /\ results \in Seq(Results)
    /\ dispatcher \in {Receiving} \cup Sends
    /\ late \subseteq Attempts /\ repeats \subseteq Attempts /\ faults \in 0..MaxFaults

-------------------------------------------------------------------------------

\* The results in a queue, and those in the dispatcher's hand.
In(q) == {q[k] : k \in DOMAIN q}
Hand == IF dispatcher.pc = "send" THEN {dispatcher.result} ELSE {}

\* Two results that answer one job.
Same(r, q) == r.from = q.from /\ r.index = q.index
Distinct(q) == \A k, l \in DOMAIN q : Same(q[k], q[l]) => k = l

\* Attempt a has begun.
Begun(a) == a[2] <= searcher[a[1]].attempt

\* A result answers a job of an attempt that has begun.
Genuine(r) ==
    /\ r.request = Request[r.from[1]] /\ r.index \in 1..N[r.from[1]]
    /\ Begun(r.from)

\* What is registered is being read, by an attempt of that request.
Registered ==
    \A q \in RequestIds : pending[q] # None =>
        Reads(pending[q]) /\ Request[pending[q][1]] = q

\* The jobs of an attempt are published in its time and in their order.
Published ==
    /\ \A a \in Attempts : \A i \in 1..N[a[1]] : jobs[a][i] # "none" => Begun(a)
    /\ \A s \in Searchers : searcher[s].pc = "publish" =>
          \A i \in searcher[s].next..N[s] : jobs[Current(s)][i] = "none"

\* Results are genuine, and in a channel of their own request.
Traced ==
    /\ \A r \in In(results) : Genuine(r)
    /\ \A r \in Hand : Genuine(r) /\ r.request = Request[dispatcher.to[1]]
    /\ \A a \in Attempts : \A r \in In(buffer[a]) : Genuine(r) /\ r.request = Request[a[1]]

Owned == Registered /\ Published /\ Traced

\* A result is in one place, and its job stays answered.
OnePlace ==
    /\ Distinct(results)
    /\ \A r \in In(results) \cup Hand : jobs[r.from][r.index] \in Answered
    /\ \A r \in Hand : \A q \in In(results) : ~Same(r, q)
    /\ \A a \in Attempts :
        /\ Distinct(buffer[a])
        /\ \A r \in In(buffer[a]) : /\ jobs[r.from][r.index] \in Answered
                                    /\ \A q \in In(results) \cup Hand : ~Same(r, q)

\* So it is as long as no job was delivered again after its answer.
Once == repeats = {} => OnePlace

\* The only use of its request id.
Alone(s) == \A t \in Searchers \ {s} : Request[t] # Request[s]

\* Where a result for attempt a can be, short of the gather loop.
Trail(a) == In(results) \cup Hand \cup In(buffer[a])

\* In its first attempt, undisturbed.
Quiet(s) == searcher[s].attempt = 1 /\ Alone(s) /\ repeats = {}

Gathered(s) == {i \in 1..N[s] : searcher[s].got[i] # NoResult}
Vector(s, i) == [request |-> Request[s], from |-> Current(s), index |-> i, error |-> FALSE]

\* The channel of the first attempt has results of this attempt only.
OwnResults ==
    \A a \in Attempts : a[2] = 1 /\ Alone(a[1]) =>
        /\ \A r \in In(buffer[a]) : r.from = a
        /\ \A r \in Hand : dispatcher.to = a => r.from = a

\* An attempt that nothing disturbs is registered as long as it reads, and what
\* it has gathered is gone from everywhere else.
Collected(s) ==
    LET a == Current(s) IN
    /\ searcher[s].pc \in {"publish", "gather"} => pending[Request[s]] = a
    /\ \A i \in Gathered(s) :
        /\ searcher[s].got[i] = Vector(s, i) /\ jobs[a][i] \in Answered
        /\ \A r \in Trail(a) : r.from = a => r.index # i
    /\ Cardinality(Gathered(s)) = searcher[s].gathered
    /\ searcher[s].pc = "gathered" => searcher[s].gathered = N[s]

AllCollected ==
    \A s \in Searchers : Quiet(s) => Collected(s)

\* Sub-query i of attempt a: with a gateway, on its way or gathered.
Known(s, a, i) ==
    jobs[a][i] \in {"queued", "held"} \/ Travels(a, i) \/ i \in Gathered(s)

\* Every job an undisturbed attempt has published is known of until its deadline.
NoneLost ==
    \A s \in Searchers :
        Quiet(s) /\ searcher[s].pc \in {"publish", "gather"} /\ Current(s) \notin late =>
            \A i \in 1..(searcher[s].next - 1) : Known(s, Current(s), i)

IInv == Types /\ Owned /\ Once /\ OwnResults /\ AllCollected /\ NoneLost

-------------------------------------------------------------------------------
(* Queues of results *)

LEMMA EmptyQueue == In(<<>>) = {} /\ Distinct(<<>>) /\ <<>> \in Seq(Results)
    BY DEF In, Distinct

\* The head goes, the rest stays, and the head was unlike the rest.
LEMMA TailFacts ==
    ASSUME NEW q \in Seq(Results), q # <<>>
    PROVE  /\ Head(q) \in Results /\ Tail(q) \in Seq(Results)
           /\ Len(Tail(q)) = Len(q) - 1 /\ Len(q) \in Nat
           /\ In(q) = In(Tail(q)) \cup {Head(q)}
           /\ Distinct(q) =>
                Distinct(Tail(q)) /\ \A r \in In(Tail(q)) : ~Same(Head(q), r)
<1>1. /\ Head(q) \in Results /\ Tail(q) \in Seq(Results) /\ Head(q) = q[1]
      /\ Len(Tail(q)) = Len(q) - 1 /\ Len(q) \in Nat \ {0}
      /\ DOMAIN q = 1..Len(q) /\ DOMAIN Tail(q) = 1..(Len(q) - 1)
      /\ \A k \in 1..(Len(q) - 1) : Tail(q)[k] = q[k + 1]
    OBVIOUS
<1>2. In(q) = In(Tail(q)) \cup {Head(q)}
    <2>1. ASSUME NEW r \in In(q) PROVE r \in In(Tail(q)) \cup {Head(q)}
        <3>1. PICK k \in 1..Len(q) : r = q[k]
            BY <1>1 DEF In
        <3>2. CASE k = 1
            BY <1>1, <3>1, <3>2
        <3>3. CASE k # 1
            <4>1. k - 1 \in 1..(Len(q) - 1) /\ (k - 1) + 1 = k
                BY <1>1, <3>3
            <4>2. Tail(q)[k - 1] = r
                BY <1>1, <3>1, <4>1
            <4> QED BY <1>1, <4>1, <4>2 DEF In
        <3> QED BY <3>2, <3>3
    <2>2. ASSUME NEW r \in In(Tail(q)) PROVE r \in In(q)
        <3>1. PICK k \in 1..(Len(q) - 1) : r = Tail(q)[k]
            BY <1>1, <2>2 DEF In
        <3>2. k + 1 \in DOMAIN q /\ r = q[k + 1]
            BY <1>1, <3>1
        <3> QED BY <3>2 DEF In
    <2>3. Head(q) \in In(q)
        BY <1>1 DEF In
    <2> QED BY <2>1, <2>2, <2>3
<1>3. ASSUME Distinct(q)
      PROVE  Distinct(Tail(q)) /\ \A r \in In(Tail(q)) : ~Same(Head(q), r)
    <2>1. \A k, l \in 1..Len(q) : Same(q[k], q[l]) => k = l
        BY <1>1, <1>3 DEF Distinct
    <2>2. ASSUME NEW k \in 1..(Len(q) - 1), NEW l \in 1..(Len(q) - 1),
                 Same(Tail(q)[k], Tail(q)[l])
          PROVE  k = l
        <3>1. k + 1 \in 1..Len(q) /\ l + 1 \in 1..Len(q) /\ Same(q[k + 1], q[l + 1])
            BY <1>1, <2>2
        <3>2. k + 1 = l + 1
            BY <2>1, <3>1
        <3> QED BY <3>2
    <2>3. ASSUME NEW k \in 1..(Len(q) - 1) PROVE ~Same(Head(q), Tail(q)[k])
        <3>1. k + 1 \in 1..Len(q) /\ 1 \in 1..Len(q) /\ k + 1 # 1
            BY <1>1
        <3>2. ~Same(q[1], q[k + 1])
            BY <2>1, <3>1
        <3> QED BY <1>1, <3>2
    <2> QED BY <1>1, <2>2, <2>3 DEF Distinct, In
<1> QED BY <1>1, <1>2, <1>3

\* One result more, unlike those before it.
LEMMA AppendFacts ==
    ASSUME NEW q \in Seq(Results), NEW x \in Results
    PROVE  /\ Append(q, x) \in Seq(Results) /\ Len(Append(q, x)) = Len(q) + 1
           /\ In(Append(q, x)) = In(q) \cup {x}
           /\ Distinct(q) /\ (\A r \in In(q) : ~Same(x, r)) => Distinct(Append(q, x))
<1>1. /\ Append(q, x) \in Seq(Results) /\ Len(Append(q, x)) = Len(q) + 1 /\ Len(q) \in Nat
      /\ DOMAIN q = 1..Len(q) /\ DOMAIN Append(q, x) = 1..(Len(q) + 1)
      /\ \A k \in 1..Len(q) : Append(q, x)[k] = q[k]
      /\ Append(q, x)[Len(q) + 1] = x
    OBVIOUS
<1>2. \A k \in 1..(Len(q) + 1) : k \in 1..Len(q) \/ k = Len(q) + 1
    BY <1>1
<1>3. In(Append(q, x)) = In(q) \cup {x}
    BY <1>1, <1>2 DEF In
<1>4. ASSUME Distinct(q), \A r \in In(q) : ~Same(x, r)
      PROVE  Distinct(Append(q, x))
    <2>1. \A k \in 1..Len(q) : ~Same(x, q[k]) /\ ~Same(q[k], x)
        BY <1>1, <1>4 DEF In, Same
    <2>2. \A k, l \in 1..Len(q) : Same(q[k], q[l]) => k = l
        BY <1>1, <1>4 DEF Distinct
    <2> QED BY <1>1, <1>2, <2>1, <2>2 DEF Distinct
<1> QED BY <1>1, <1>3, <1>4

\* A result put back in front.
LEMMA PrependFacts ==
    ASSUME NEW q \in Seq(Results), NEW x \in Results
    PROVE  /\ <<x>> \o q \in Seq(Results)
           /\ In(<<x>> \o q) = In(q) \cup {x}
<1>1. /\ <<x>> \o q \in Seq(Results) /\ Len(<<x>> \o q) = Len(q) + 1 /\ Len(q) \in Nat
      /\ DOMAIN q = 1..Len(q) /\ DOMAIN (<<x>> \o q) = 1..(Len(q) + 1)
      /\ (<<x>> \o q)[1] = x
      /\ \A k \in 1..Len(q) : (<<x>> \o q)[k + 1] = q[k]
    OBVIOUS
<1>2. \A k \in 1..(Len(q) + 1) : k = 1 \/ (k - 1 \in 1..Len(q) /\ (k - 1) + 1 = k)
    BY <1>1
<1>3. \A k \in 1..Len(q) : k + 1 \in 1..(Len(q) + 1)
    BY <1>1
<1>4. ASSUME NEW r \in In(<<x>> \o q) PROVE r \in In(q) \cup {x}
    <2>1. PICK k \in 1..(Len(q) + 1) : r = (<<x>> \o q)[k]
        BY <1>1, <1>4 DEF In
    <2>2. k # 1 => r = q[k - 1] /\ k - 1 \in DOMAIN q
        BY <1>1, <1>2, <2>1
    <2> QED BY <1>1, <2>1, <2>2 DEF In
<1>5. ASSUME NEW r \in In(q) PROVE r \in In(<<x>> \o q)
    <2>1. PICK k \in 1..Len(q) : r = q[k]
        BY <1>1, <1>5 DEF In
    <2>2. k + 1 \in DOMAIN (<<x>> \o q) /\ r = (<<x>> \o q)[k + 1]
        BY <1>1, <1>3, <2>1
    <2> QED BY <2>2 DEF In
<1>6. x \in In(<<x>> \o q)
    BY <1>1 DEF In
<1> QED BY <1>1, <1>4, <1>5, <1>6

-------------------------------------------------------------------------------
(* Types *)

LEMMA Constants ==
    /\ \A s \in Searchers : N[s] \in Nat \ {0} /\ Request[s] \in RequestIds
    /\ MaxAttempts \in Nat \ {0} /\ MaxFaults \in Nat
    /\ \A a \in Attempts : /\ a[1] \in Searchers /\ a[2] \in 1..MaxAttempts
                           /\ a = <<a[1], a[2]>> /\ N[a[1]] \in Nat \ {0}
    /\ \A s \in Searchers, k \in 1..MaxAttempts : <<s, k>> \in Attempts
    /\ None \notin Attempts
    BY EmbedFanoutAssumption DEF RequestIds, Attempts, None

\* The attempt a searcher is in.
LEMMA CurrentAttempt ==
    ASSUME Types, NEW s \in Searchers, searcher[s].attempt # 0
    PROVE  Current(s) \in Attempts /\ Current(s)[1] = s /\ Current(s)[2] = searcher[s].attempt
    BY Constants DEF Types, Fits, SearcherRecords, Current

\* One searcher moves.
LEMMA Moves ==
    ASSUME Types, NEW s \in Searchers, NEW x, Fits(s, x), searcher' = [searcher EXCEPT ![s] = x]
    PROVE  /\ searcher' \in [Searchers -> SearcherRecords]
           /\ \A t \in Searchers : Fits(t, searcher'[t])
           /\ searcher'[s] = x /\ \A t \in Searchers \ {s} : searcher'[t] = searcher[t]
    BY DEF Types, Fits

\* embedFanout returns: its searcher keeps everything but the step.
LEMMA Returns ==
    ASSUME Types, NEW s \in Searchers, NEW outcome \in {"gathered", "failed"},
           searcher[s].pc # "idle", Return(s, outcome)
    PROVE  /\ searcher'[s] = [searcher[s] EXCEPT !.pc = outcome]
           /\ \A t \in Searchers \ {s} : searcher'[t] = searcher[t]
           /\ searcher' \in [Searchers -> SearcherRecords]
           /\ \A t \in Searchers : Fits(t, searcher'[t])
           /\ pending'[Request[s]] = None
           /\ \A q \in RequestIds \ {Request[s]} : pending'[q] = pending[q]
           /\ pending' \in [RequestIds -> Attempts \cup {None}]
<1> DEFINE x == [searcher[s] EXCEPT !.pc = outcome]
<1>1. searcher' = [searcher EXCEPT ![s] = x] /\ pending' = [pending EXCEPT ![Request[s]] = None]
    BY DEF Return
<1>2. searcher[s] \in SearcherRecords /\ Fits(s, searcher[s])
    BY DEF Types
<1>3. x \in SearcherRecords
    BY <1>2 DEF SearcherRecords, SearcherPhases
<1>4. Fits(s, x)
    BY <1>2, <1>3 DEF Fits, SearcherRecords
<1> HIDE DEF x
<1>5. /\ pending' \in [RequestIds -> Attempts \cup {None}]
      /\ pending'[Request[s]] = None
      /\ \A q \in RequestIds \ {Request[s]} : pending'[q] = pending[q]
    BY <1>1, Constants DEF Types
<1> QED BY <1>1, <1>4, <1>5, Moves DEF x

\* A job goes on.
LEMMA JobMoves ==
    ASSUME Types, NEW a \in Attempts, NEW i \in 1..N[a[1]], NEW state \in JobStates,
           jobs' = [jobs EXCEPT ![a][i] = state]
    PROVE  /\ jobs' \in [Attempts -> UNION {[1..n -> JobStates] : n \in Nat}]
           /\ \A b \in Attempts : jobs'[b] \in [1..N[b[1]] -> JobStates]
           /\ jobs'[a] = [jobs[a] EXCEPT ![i] = state]
           /\ \A b \in Attempts \ {a} : jobs'[b] = jobs[b]
<1>1. jobs[a] \in [1..N[a[1]] -> JobStates] /\ N[a[1]] \in Nat
    BY Constants DEF Types
<1>2. [jobs[a] EXCEPT ![i] = state] \in [1..N[a[1]] -> JobStates]
    BY <1>1
<1>3. jobs' = [jobs EXCEPT ![a] = [jobs[a] EXCEPT ![i] = state]]
    OBVIOUS
<1>4. [jobs[a] EXCEPT ![i] = state] \in UNION {[1..n -> JobStates] : n \in Nat}
    BY <1>1, <1>2
<1> QED BY <1>2, <1>3, <1>4 DEF Types

\* A channel changes.
LEMMA ChannelMoves ==
    ASSUME Types, NEW a \in Attempts, NEW q \in Seq(Results), Len(q) <= N[a[1]],
           buffer' = [buffer EXCEPT ![a] = q]
    PROVE  /\ buffer' \in [Attempts -> Seq(Results)]
           /\ \A b \in Attempts : Len(buffer'[b]) <= N[b[1]]
           /\ buffer'[a] = q /\ \A b \in Attempts \ {a} : buffer'[b] = buffer[b]
    BY DEF Types

\* What the other steps of a searcher make of its state.
Fresh(s) == [pc |-> "publish", attempt |-> searcher[s].attempt + 1, next |-> 1,
             gathered |-> 0, got |-> [i \in 1..N[s] |-> NoResult]]

LEMMA Registers ==
    ASSUME Types, NEW s \in Searchers, Register(s)
    PROVE  /\ <<s, searcher[s].attempt + 1>> \in Attempts
           /\ searcher' \in [Searchers -> SearcherRecords]
           /\ \A t \in Searchers : Fits(t, searcher'[t])
           /\ searcher'[s] = Fresh(s)
           /\ searcher'[s].pc = "publish" /\ searcher'[s].attempt = searcher[s].attempt + 1
           /\ searcher'[s].next = 1 /\ searcher'[s].gathered = 0
           /\ \A i \in 1..N[s] : searcher'[s].got[i] = NoResult
           /\ \A t \in Searchers \ {s} : searcher'[t] = searcher[t]
           /\ pending' \in [RequestIds -> Attempts \cup {None}]
           /\ pending'[Request[s]] = <<s, searcher[s].attempt + 1>>
           /\ \A q \in RequestIds \ {Request[s]} : pending'[q] = pending[q]
<1>1. searcher[s].attempt \in 0..MaxAttempts /\ searcher[s].attempt < MaxAttempts
    BY DEF Types, Fits, SearcherRecords, Register
<1>2. searcher[s].attempt + 1 \in 1..MaxAttempts /\ searcher[s].attempt + 1 # 0
    BY <1>1, Constants
<1>3. <<s, searcher[s].attempt + 1>> \in Attempts
    BY <1>2, Constants
<1>4. [i \in 1..N[s] |-> NoResult] \in [1..N[s] -> Results \cup {NoResult}]
    OBVIOUS
<1>5. [i \in 1..N[s] |-> NoResult] \in Gots
    BY <1>4, Constants DEF Gots
<1>6. Fresh(s) \in SearcherRecords
    BY <1>2, <1>5 DEF Fresh, SearcherRecords, SearcherPhases
<1>7. Fits(s, Fresh(s))
    BY <1>2, <1>4, <1>6, Constants DEF Fits, Fresh
<1>8. searcher' = [searcher EXCEPT ![s] = Fresh(s)]
    BY DEF Register, Fresh
<1>9. pending' = [pending EXCEPT ![Request[s]] = <<s, searcher[s].attempt + 1>>]
    BY DEF Register
<1>10. pending' \in [RequestIds -> Attempts \cup {None}]
    BY <1>3, <1>9 DEF Types
<1>11. /\ pending'[Request[s]] = <<s, searcher[s].attempt + 1>>
       /\ \A q \in RequestIds \ {Request[s]} : pending'[q] = pending[q]
    BY <1>9, Constants DEF Types
<1>12. searcher'[s] = Fresh(s)
    BY <1>7, <1>8, Moves
<1>13. /\ Fresh(s).pc = "publish" /\ Fresh(s).attempt = searcher[s].attempt + 1
       /\ Fresh(s).next = 1 /\ Fresh(s).gathered = 0
       /\ \A i \in 1..N[s] : Fresh(s).got[i] = NoResult
    BY DEF Fresh
<1> QED BY <1>3, <1>7, <1>8, <1>10, <1>11, <1>12, <1>13, Moves

Sent(s) == [searcher[s] EXCEPT !.next = @ + 1,
                               !.pc = IF searcher[s].next = N[s] THEN "gather" ELSE @]

LEMMA Publishes ==
    ASSUME Types, NEW s \in Searchers, PublishJob(s)
    PROVE  /\ searcher[s].next \in 1..N[s]
           /\ searcher' \in [Searchers -> SearcherRecords]
           /\ \A t \in Searchers : Fits(t, searcher'[t])
           /\ searcher'[s] = Sent(s)
           /\ \A t \in Searchers \ {s} : searcher'[t] = searcher[t]
<1>1. Fits(s, searcher[s]) /\ searcher[s].pc = "publish" /\ N[s] \in Nat
    BY Constants DEF Types, PublishJob
<1>2. searcher[s].next \in 1..N[s]
    BY <1>1 DEF Fits
<1>3. Sent(s) \in SearcherRecords
    <2> DEFINE pc == IF searcher[s].next = N[s] THEN "gather" ELSE searcher[s].pc
               next == searcher[s].next + 1
    <2>1. pc \in SearcherPhases /\ next \in Nat
        BY <1>1, <1>2 DEF SearcherPhases
    <2>2. Sent(s) = [searcher[s] EXCEPT !.next = next, !.pc = pc]
        BY DEF Sent
    <2> HIDE DEF pc, next
    <2> QED BY <1>1, <2>1, <2>2 DEF Fits, SearcherRecords
<1>4. Fits(s, Sent(s))
    BY <1>1, <1>2, <1>3, SMTT(30) DEF Sent, Fits, SearcherRecords
<1>5. searcher' = [searcher EXCEPT ![s] = Sent(s)]
    <2>1. searcher' = [searcher EXCEPT ![s].next = searcher[s].next + 1, ![s].pc =
                         IF searcher[s].next = N[s] THEN "gather" ELSE searcher[s].pc]
        BY <1>1 DEF PublishJob, Types, Fits, SearcherRecords
    <2> QED BY <2>1, <1>1 DEF Sent, Fits, Types, SearcherRecords
<1> QED BY <1>2, <1>4, <1>5, Moves

Taken(s, r) == [searcher[s] EXCEPT !.gathered = @ + 1, !.got = [@ EXCEPT ![r.index] = r]]

LEMMA Gathers ==
    ASSUME Types, NEW s \in Searchers, GatherResult(s)
    PROVE  LET a == Current(s)
               r == Head(buffer[a])
           IN  /\ searcher[s].pc = "gather" /\ buffer[a] # <<>> /\ ~r.error /\ r \in Results
               /\ a \in Attempts /\ a[1] = s
               /\ buffer' = [buffer EXCEPT ![a] = Tail(buffer[a])]
               /\ searcher' \in [Searchers -> SearcherRecords]
               /\ \A t \in Searchers : Fits(t, searcher'[t])
               /\ searcher'[s] = IF r.index \in 1..N[s] THEN Taken(s, r) ELSE searcher[s]
               /\ \A t \in Searchers \ {s} : searcher'[t] = searcher[t]
               /\ UNCHANGED <<pending, jobs, results, dispatcher, late, repeats, faults>>
<1> DEFINE a == Current(s)
           r == Head(buffer[a])
<1>1. /\ searcher[s].pc = "gather" /\ buffer[a] # <<>> /\ ~r.error
      /\ searcher[s].gathered < N[s]
      /\ buffer' = [buffer EXCEPT ![a] = Tail(buffer[a])]
      /\ searcher' = IF r.index \in 1..N[s]
             THEN [searcher EXCEPT ![s].gathered = @ + 1, ![s].got[r.index] = r]
             ELSE searcher
      /\ UNCHANGED <<pending, jobs, results, dispatcher, late, repeats, faults>>
    BY DEF GatherResult
<1>2. Fits(s, searcher[s]) /\ N[s] \in Nat /\ searcher[s].attempt # 0
    BY <1>1, Constants DEF Types, Fits
<1>3. a \in Attempts /\ a[1] = s
    BY <1>2, CurrentAttempt
<1>4. r \in Results
    BY <1>1, <1>3 DEF Types
<1> HIDE DEF a, r
<1>5. CASE r.index \in 1..N[s]
    <2> DEFINE got == [searcher[s].got EXCEPT ![r.index] = r]
               count == searcher[s].gathered + 1
    <2>1. got \in [1..N[s] -> Results \cup {NoResult}] /\ got \in Gots
        BY <1>2, <1>4, <1>5 DEF Fits, Gots
    <2>2. count \in 1..N[s] /\ count \in Nat
        BY <1>1, <1>2 DEF Fits
    <2>3. searcher' = [searcher EXCEPT ![s].gathered = count, ![s].got = got]
        BY <1>1, <1>2, <1>5 DEF Types, Fits, SearcherRecords
    <2>4. Taken(s, r) = [searcher[s] EXCEPT !.gathered = count, !.got = got]
        BY DEF Taken
    <2> HIDE DEF got, count
    <2>5. Taken(s, r) \in SearcherRecords
        BY <1>2, <2>1, <2>2, <2>4 DEF Fits, SearcherRecords
    <2>6. Fits(s, Taken(s, r))
        BY <1>2, <2>1, <2>2, <2>4, <2>5 DEF Fits, SearcherRecords
    <2>7. searcher' = [searcher EXCEPT ![s] = Taken(s, r)]
        BY <1>2, <2>3, <2>4 DEF Types, Fits, SearcherRecords
    <2> QED BY <1>1, <1>3, <1>4, <1>5, <2>6, <2>7, Moves DEF a, r
<1>6. CASE r.index \notin 1..N[s]
    BY <1>1, <1>3, <1>4, <1>6 DEF Types, a, r
<1> QED BY <1>5, <1>6

\* The dispatcher's hand.
LEMMA Holding ==
    ASSUME Types
    PROVE  /\ dispatcher.pc = "send" => /\ dispatcher.result \in Results
                                        /\ dispatcher.to \in Attempts
                                        /\ Hand = {dispatcher.result}
           /\ dispatcher.pc # "send" => Hand = {}
           /\ Hand \subseteq Results
    BY DEF Types, Sends, Receiving, Hand

\* The head of the topic is looked up.
LEMMA Dispatches ==
    ASSUME Types, Dispatch
    PROVE  LET r == Head(results)
               a == pending[r.request]
           IN  /\ results # <<>> /\ results' = Tail(results) /\ results' \in Seq(Results)
               /\ r \in Results /\ a \in Attempts \cup {None}
               /\ dispatcher' \in {Receiving} \cup Sends /\ Hand = {}
               /\ a = None => dispatcher' = dispatcher /\ Hand' = {}
               /\ a # None => /\ dispatcher' = [pc |-> "send", result |-> r, to |-> a]
                              /\ Hand' = {r}
               /\ UNCHANGED <<searcher, pending, buffer, jobs, late, repeats, faults>>
<1> DEFINE r == Head(results)
           a == pending[r.request]
<1>1. /\ dispatcher.pc = "receive" /\ results # <<>> /\ results' = Tail(results)
      /\ dispatcher' = IF a = None THEN dispatcher ELSE [pc |-> "send", result |-> r, to |-> a]
      /\ UNCHANGED <<searcher, pending, buffer, jobs, late, repeats, faults>>
    BY DEF Dispatch
<1>2. r \in Results /\ results' \in Seq(Results)
    BY <1>1, TailFacts DEF Types
<1>3. a \in Attempts \cup {None}
    BY <1>2 DEF Types, Results
<1>4. dispatcher = Receiving
    BY <1>1 DEF Types, Sends, Receiving
<1> HIDE DEF a, r
<1>5. dispatcher' \in {Receiving} \cup Sends
    BY <1>1, <1>2, <1>3, <1>4 DEF Sends
<1>6. Hand = {} /\ (a = None => Hand' = {}) /\ (a # None => Hand' = {r})
    BY <1>1, <1>4 DEF Hand, Receiving
<1> QED BY <1>1, <1>2, <1>3, <1>5, <1>6 DEF a, r

\* The channel takes what the dispatcher has.
LEMMA SendsOn ==
    ASSUME Types, Send
    PROVE  LET a == dispatcher.to
               r == dispatcher.result
           IN  /\ dispatcher.pc = "send" /\ a \in Attempts /\ r \in Results
               /\ Len(buffer[a]) < N[a[1]]
               /\ buffer' = [buffer EXCEPT ![a] = Append(buffer[a], r)]
               /\ dispatcher' = Receiving /\ Hand = {r} /\ Hand' = {}
               /\ UNCHANGED <<searcher, pending, jobs, results, late, repeats, faults>>
    BY Holding DEF Send, Hand, Receiving, Capacity

\* A gateway answers.
LEMMA Answers ==
    ASSUME Types, NEW a \in Attempts, NEW i \in 1..N[a[1]], PublishResult(a, i)
    PROVE  \E error \in BOOLEAN :
             LET r == [request |-> Request[a[1]], from |-> a, index |-> i, error |-> error]
             IN  /\ r \in Results /\ results' = Append(results, r)
                 /\ results' \in Seq(Results)
<1>1. PICK error \in BOOLEAN :
          results' = Append(results, [request |-> Request[a[1]], from |-> a,
                                      index |-> i, error |-> error])
    BY DEF PublishResult
<1>2. Request[a[1]] \in RequestIds /\ i \in Nat
    BY Constants
<1>3. [request |-> Request[a[1]], from |-> a, index |-> i, error |-> error] \in Results
    BY <1>2 DEF Results
<1> QED BY <1>1, <1>3, AppendFacts DEF Types

LEMMA InitTypes == Init => Types
<1> SUFFICES ASSUME Init PROVE Types
    OBVIOUS
<1>1. ASSUME NEW s \in Searchers PROVE Fits(s, searcher[s])
    <2> DEFINE got == [i \in 1..N[s] |-> NoResult]
    <2>1. got \in [1..N[s] -> Results \cup {NoResult}] /\ got \in Gots
        BY Constants DEF Gots
    <2>2. searcher[s] = [pc |-> "idle", attempt |-> 0, next |-> 1, gathered |-> 0, got |-> got]
        BY DEF Init
    <2> HIDE DEF got
    <2>3. searcher[s] \in SearcherRecords
        BY <2>1, <2>2, Constants DEF SearcherRecords, SearcherPhases
    <2> QED BY <2>1, <2>2, <2>3, Constants DEF Fits
<1>2. searcher \in [Searchers -> SearcherRecords]
    BY <1>1 DEF Init, Fits
<1>3. \A a \in Attempts : jobs[a] \in [1..N[a[1]] -> JobStates]
    BY DEF Init, JobStates
<1>4. jobs \in [Attempts -> UNION {[1..n -> JobStates] : n \in Nat}]
    BY <1>3, Constants, ZenonT(60) DEF Init
<1>5. buffer \in [Attempts -> Seq(Results)] /\ \A a \in Attempts : Len(buffer[a]) <= N[a[1]]
    BY Constants DEF Init
<1>6. /\ pending \in [RequestIds -> Attempts \cup {None}] /\ results \in Seq(Results)
      /\ dispatcher \in {Receiving} \cup Sends
      /\ late \subseteq Attempts /\ repeats \subseteq Attempts
    BY DEF Init
<1>7. faults \in 0..MaxFaults
    BY Constants DEF Init
<1> QED BY <1>1, <1>2, <1>3, <1>4, <1>5, <1>6, <1>7 DEF Types

\* A step that leaves jobs, channels and the result topic alone keeps their types.
LEMMA SearcherTypes ==
    ASSUME Types, NEW s \in Searchers,
           Register(s) \/ SearcherStep(s) \/ PublishFails(s)
    PROVE  Types'
<1>1. faults' \in 0..MaxFaults
    <2>1. UNCHANGED faults \/ Fault
        BY DEF SearcherStep, Register, PublishJob, PublishFails, GatherResult, GatherError,
               GatherDone, GatherTimeout, Finish
    <2> QED BY <2>1, Constants DEF Types, Fault
<1>2. CASE Register(s)
    BY <1>1, <1>2, Registers DEF Register, Types
<1>3. CASE PublishJob(s)
    <2>1. Current(s) \in Attempts /\ Current(s)[1] = s
        BY <1>3, CurrentAttempt DEF PublishJob, Types, Fits
    <2>2. jobs' = [jobs EXCEPT ![Current(s)][searcher[s].next] = "queued"]
        BY <1>3 DEF PublishJob
    <2>3. /\ jobs' \in [Attempts -> UNION {[1..n -> JobStates] : n \in Nat}]
          /\ \A b \in Attempts : jobs'[b] \in [1..N[b[1]] -> JobStates]
        BY <1>3, <2>1, <2>2, Publishes, JobMoves DEF JobStates
    <2> QED BY <1>1, <1>3, <2>3, Publishes DEF PublishJob, Types
<1>4. CASE PublishFails(s)
    <2>1. searcher[s].pc = "publish" /\ Return(s, "failed")
        BY <1>4 DEF PublishFails
    <2>2. Current(s) \in Attempts /\ Current(s)[1] = s /\ searcher[s].next \in 1..N[s]
        BY <2>1, CurrentAttempt, Constants DEF Types, Fits
    <2>3. /\ jobs' \in [Attempts -> UNION {[1..n -> JobStates] : n \in Nat}]
          /\ \A b \in Attempts : jobs'[b] \in [1..N[b[1]] -> JobStates]
        <3>1. CASE UNCHANGED jobs
            BY <3>1 DEF Types
        <3>2. CASE jobs' = [jobs EXCEPT ![Current(s)][searcher[s].next] = "queued"]
            BY <2>2, <3>2, JobMoves DEF JobStates
        <3> QED BY <1>4, <3>1, <3>2 DEF PublishFails
    <2> QED BY <1>1, <1>4, <2>1, <2>3, Returns DEF PublishFails, Types
<1>5. CASE GatherResult(s)
    <2>1. Current(s) \in Attempts /\ buffer[Current(s)] \in Seq(Results)
          /\ buffer[Current(s)] # <<>> /\ Len(buffer[Current(s)]) <= N[Current(s)[1]]
        BY <1>5, Gathers DEF Types
    <2>2. Tail(buffer[Current(s)]) \in Seq(Results)
          /\ Len(Tail(buffer[Current(s)])) <= N[Current(s)[1]]
        BY <2>1, TailFacts, Constants
    <2>3. /\ buffer' \in [Attempts -> Seq(Results)]
          /\ \A b \in Attempts : Len(buffer'[b]) <= N[b[1]]
        BY <1>5, <2>1, <2>2, Gathers, ChannelMoves
    <2> QED BY <1>5, <2>3, Gathers DEF Types
<1>6. CASE GatherError(s)
    <2>1. searcher[s].pc = "gather" /\ Return(s, "failed")
        BY <1>6 DEF GatherError
    <2>2. Current(s) \in Attempts /\ buffer[Current(s)] \in Seq(Results)
          /\ buffer[Current(s)] # <<>> /\ Len(buffer[Current(s)]) <= N[Current(s)[1]]
        BY <1>6, <2>1, CurrentAttempt DEF GatherError, Types, Fits
    <2>3. Tail(buffer[Current(s)]) \in Seq(Results)
          /\ Len(Tail(buffer[Current(s)])) <= N[Current(s)[1]]
        BY <2>2, TailFacts, Constants
    <2>4. buffer' = [buffer EXCEPT ![Current(s)] = Tail(buffer[Current(s)])]
        BY <1>6 DEF GatherError
    <2>5. /\ buffer' \in [Attempts -> Seq(Results)]
          /\ \A b \in Attempts : Len(buffer'[b]) <= N[b[1]]
        BY <2>2, <2>3, <2>4, ChannelMoves
    <2> QED BY <1>6, <2>1, <2>5, Returns DEF GatherError, Types
<1>7. CASE GatherDone(s) \/ GatherTimeout(s)
    <2>1. PICK outcome \in {"gathered", "failed"} : Return(s, outcome)
        BY <1>7 DEF GatherDone, GatherTimeout
    <2>2. searcher[s].pc = "gather"
        BY <1>7 DEF GatherDone, GatherTimeout
    <2> QED BY <1>1, <1>7, <2>1, <2>2, Returns DEF GatherDone, GatherTimeout, Types
<1>8. CASE Finish(s)
    <2> DEFINE x == [searcher[s] EXCEPT !.pc = "done"]
    <2>1. Fits(s, searcher[s]) /\ searcher[s].pc # "idle"
        BY <1>8 DEF Types, Finish
    <2>2. Fits(s, x)
        BY <2>1 DEF Fits, SearcherRecords, SearcherPhases
    <2>3. searcher' = [searcher EXCEPT ![s] = x]
        BY <1>8 DEF Finish
    <2> HIDE DEF x
    <2> QED BY <1>8, <2>2, <2>3, Moves DEF Finish, Types
<1> QED BY <1>2, <1>3, <1>4, <1>5, <1>6, <1>7, <1>8 DEF SearcherStep

LEMMA GatewayTypes ==
    ASSUME Types, NEW a \in Attempts, NEW i \in 1..N[a[1]],
           GatewayStep(a, i) \/ Redeliver(a, i)
    PROVE  Types'
<1>1. UNCHANGED faults \/ Fault
    BY DEF GatewayStep, TakeJob, DropExpired, AckJob, PublishResult, Redeliver
<1>2. faults' \in 0..MaxFaults
    BY <1>1, Constants DEF Types, Fault
<1>3. PICK state \in JobStates : jobs' = [jobs EXCEPT ![a][i] = state]
    BY DEF GatewayStep, TakeJob, DropExpired, AckJob, PublishResult, Redeliver, JobStates
<1>4. /\ jobs' \in [Attempts -> UNION {[1..n -> JobStates] : n \in Nat}]
      /\ \A b \in Attempts : jobs'[b] \in [1..N[b[1]] -> JobStates]
    BY <1>3, JobMoves
<1>5. results' \in Seq(Results)
    <2>1. CASE PublishResult(a, i)
        BY <2>1, Answers
    <2>2. CASE UNCHANGED results
        BY <2>2 DEF Types
    <2> QED BY <2>1, <2>2 DEF GatewayStep, TakeJob, DropExpired, AckJob, Redeliver
<1>6. repeats' \subseteq Attempts /\ UNCHANGED <<searcher, pending, buffer, dispatcher, late>>
    BY DEF GatewayStep, TakeJob, DropExpired, AckJob, PublishResult, Redeliver, Types
<1> QED BY <1>2, <1>4, <1>5, <1>6 DEF Types

LEMMA DispatcherTypes ==
    ASSUME Types, DispatcherStep \/ Reconnect
    PROVE  Types'
<1>1. CASE Dispatch
    BY <1>1, Dispatches DEF Types
<1>2. CASE Send
    <2> DEFINE a == dispatcher.to
               q == Append(buffer[a], dispatcher.result)
    <2>1. /\ a \in Attempts /\ buffer' = [buffer EXCEPT ![a] = q]
          /\ Len(buffer[a]) < N[a[1]] /\ buffer[a] \in Seq(Results)
          /\ dispatcher.result \in Results
        BY <1>2, SendsOn DEF Types
    <2>2. q \in Seq(Results) /\ Len(q) <= N[a[1]]
        BY <2>1, AppendFacts, Constants
    <2> HIDE DEF q
    <2>3. /\ buffer' \in [Attempts -> Seq(Results)]
          /\ \A b \in Attempts : Len(buffer'[b]) <= N[b[1]]
        BY <2>1, <2>2, ChannelMoves
    <2> QED BY <1>2, <2>3, SendsOn DEF Types
<1>3. CASE Reconnect
    <2>1. dispatcher.result \in Results /\ dispatcher.result.from \in Attempts
        BY <1>3, Holding DEF Reconnect, Results
    <2>2. results' \in Seq(Results)
        BY <1>3, <2>1, PrependFacts DEF Reconnect, Types
    <2>3. faults' \in 0..MaxFaults
        BY <1>3, Constants DEF Reconnect, Fault, Types
    <2> QED BY <1>3, <2>1, <2>2, <2>3 DEF Reconnect, Types
<1> QED BY <1>1, <1>2, <1>3 DEF DispatcherStep

LEMMA TypesStep == Types /\ [Next]_vars => Types'
<1> SUFFICES ASSUME Types, [Next]_vars PROVE Types'
    OBVIOUS
<1>1. ASSUME NEW a \in Attempts, Deadline(a) PROVE Types'
    BY <1>1 DEF Deadline, Types
<1>2. CASE UNCHANGED vars
    BY <1>2 DEF vars, Types
<1> QED BY <1>1, <1>2, SearcherTypes, GatewayTypes, DispatcherTypes DEF Next

\* The types bound what a searcher asks for and what a channel holds: a result's
\* index is one of the sub-queries', a channel never has more than its slots.
THEOREM TypesKept == Spec => []TypeOK
<1>1. Types => TypeOK
    <2> SUFFICES ASSUME Types PROVE TypeOK
        OBVIOUS
    <2>1. \A s \in Searchers :
            /\ searcher[s].pc \in SearcherPhases
            /\ searcher[s].attempt \in 0..MaxAttempts
            /\ searcher[s].next \in 1..(N[s] + 1)
            /\ searcher[s].gathered \in 0..N[s]
            /\ \A i \in 1..N[s] : searcher[s].got[i] \in Results \cup {NoResult}
        BY DEF Types, Fits, SearcherRecords
    <2>2. \A a \in Attempts : \A i \in 1..N[a[1]] : jobs[a][i] \in JobStates
        BY DEF Types
    <2>3. dispatcher.pc \in {"receive", "send"}
        BY DEF Types, Receiving, Sends
    <2>4. \A a \in Attempts : buffer[a] \in Seq(Results) /\ Len(buffer[a]) <= Capacity(a)
        BY DEF Types, Capacity
    <2> QED BY <2>1, <2>2, <2>3, <2>4 DEF Types, TypeOK, JobStates
<1> QED BY <1>1, InitTypes, TypesStep, PTL DEF Spec

-------------------------------------------------------------------------------
(* Who is registered, what is published, whose results are where *)

\* A job that was published goes on and is never unpublished; without a second
\* delivery, one that was answered stays so.
LEMMA JobGoesOn ==
    ASSUME NEW a \in Attempts, NEW i \in 1..N[a[1]], GatewayStep(a, i) \/ Redeliver(a, i)
    PROVE  /\ \E state \in JobStates \ {"none"} :
                /\ jobs' = [jobs EXCEPT ![a][i] = state]
                /\ repeats' = {} /\ jobs[a][i] \in Answered => state \in Answered
           /\ jobs[a][i] \in JobStates \ {"none"}
           /\ UNCHANGED <<searcher, pending, buffer, dispatcher, late>>
           /\ repeats' = {} => repeats = {}
           /\ UNCHANGED results \/ PublishResult(a, i)
<1>1. CASE TakeJob(a, i) \/ DropExpired(a, i) \/ AckJob(a, i) \/ PublishResult(a, i)
    BY <1>1 DEF TakeJob, DropExpired, AckJob, PublishResult, JobStates, Answered
<1>2. CASE Redeliver(a, i)
    BY <1>2 DEF Redeliver, JobStates, Answered
<1> QED BY <1>1, <1>2 DEF GatewayStep

\* What a step of s changes of the searchers: s alone, its attempt only by
\* Register; it reads on, or it has returned.
LEMMA SearcherMoves ==
    ASSUME Types, NEW s \in Searchers, Register(s) \/ SearcherStep(s) \/ PublishFails(s)
    PROVE  /\ \A t \in Searchers \ {s} : searcher'[t] = searcher[t]
           /\ Register(s) => searcher'[s].attempt = searcher[s].attempt + 1
           /\ ~Register(s) => searcher'[s].attempt = searcher[s].attempt
<1>1. searcher[s] \in SearcherRecords /\ searcher \in [Searchers -> SearcherRecords]
    BY DEF Types
<1>2. CASE Register(s)
    BY <1>2, Registers
<1>3. CASE PublishJob(s)
    <2>1. searcher'[s] = Sent(s) /\ \A t \in Searchers \ {s} : searcher'[t] = searcher[t]
        BY <1>3, Publishes
    <2>2. Sent(s).attempt = searcher[s].attempt
        BY <1>1 DEF Sent, SearcherRecords
    <2> QED BY <1>3, <2>1, <2>2 DEF PublishJob, Register
<1>4. CASE GatherResult(s)
    <2> DEFINE r == Head(buffer[Current(s)])
    <2>1. /\ searcher'[s] = Taken(s, r) \/ searcher'[s] = searcher[s]
          /\ \A t \in Searchers \ {s} : searcher'[t] = searcher[t]
          /\ searcher[s].pc = "gather"
        BY <1>4, Gathers
    <2>2. Taken(s, r).attempt = searcher[s].attempt
        BY <1>1 DEF Taken, SearcherRecords
    <2> QED BY <1>4, <2>1, <2>2 DEF Register
<1>5. ASSUME NEW pc \in SearcherPhases, searcher' = [searcher EXCEPT ![s].pc = pc], ~Register(s)
      PROVE  /\ \A t \in Searchers \ {s} : searcher'[t] = searcher[t]
             /\ searcher'[s].attempt = searcher[s].attempt
    BY <1>1, <1>5 DEF SearcherRecords
<1>6. CASE PublishFails(s) \/ GatherError(s) \/ GatherDone(s) \/ GatherTimeout(s)
    <2>1. searcher[s].pc \in {"publish", "gather"}
        BY <1>6 DEF PublishFails, GatherError, GatherDone, GatherTimeout
    <2>2. ~Register(s)
        BY <2>1 DEF Register
    <2> QED BY <1>5, <1>6, <2>2
            DEF PublishFails, GatherError, GatherDone, GatherTimeout, Return, SearcherPhases
<1>7. CASE Finish(s) /\ ~Register(s)
    BY <1>5, <1>7 DEF Finish, SearcherPhases
<1> QED BY <1>2, <1>3, <1>4, <1>6, <1>7 DEF SearcherStep

\* Attempts are only begun.
LEMMA AttemptsGrow ==
    ASSUME Types, [Next]_vars
    PROVE  \A a \in Attempts : Begun(a) => Begun(a)'
<1>1. \A t \in Searchers : searcher[t].attempt \in 0..MaxAttempts
    BY DEF Types, SearcherRecords
<1>2. ASSUME NEW s \in Searchers, Register(s) \/ SearcherStep(s) \/ PublishFails(s),
             NEW a \in Attempts, Begun(a)
      PROVE  Begun(a)'
    <2>1. a[1] \in Searchers /\ a[2] \in Nat /\ searcher[a[1]].attempt \in Nat
        BY <1>1, Constants
    <2>2. searcher'[a[1]].attempt \in {searcher[a[1]].attempt, searcher[a[1]].attempt + 1}
        <3>1. CASE a[1] = s
            BY <1>2, <3>1, SearcherMoves
        <3>2. CASE a[1] # s
            BY <1>2, <2>1, <3>2, SearcherMoves
        <3> QED BY <3>1, <3>2
    <2> QED BY <1>2, <2>1, <2>2 DEF Begun
<1>3. UNCHANGED searcher => \A a \in Attempts : Begun(a) => Begun(a)'
    BY DEF Begun
<1>4. ASSUME NEW a \in Attempts, Deadline(a) PROVE UNCHANGED searcher
    BY <1>4 DEF Deadline
<1>5. CASE DispatcherStep \/ Reconnect \/ UNCHANGED vars
    BY <1>3, <1>5 DEF DispatcherStep, Dispatch, Send, Reconnect, vars
<1> QED BY <1>2, <1>3, <1>4, <1>5, JobGoesOn DEF Next

\* A registration is made by its reader, and goes when the reader returns.
LEMMA RegisteredStep ==
    ASSUME Types, Registered, [Next]_vars PROVE Registered'
<1>1. ASSUME \A q \in RequestIds, a \in Attempts :
                 pending'[q] = a => Reads(a)' /\ Request[a[1]] = q
      PROVE  Registered'
    <2>1. \A q \in RequestIds : pending'[q] \in Attempts \cup {None}
        BY TypesStep DEF Types
    <2> QED BY <1>1, <2>1 DEF Registered
<1>2. ASSUME NEW q \in RequestIds, NEW a \in Attempts, pending[q] = a
      PROVE  /\ Reads(a) /\ Request[a[1]] = q /\ a[1] \in Searchers
             /\ searcher[a[1]].pc \in {"publish", "gather"}
             /\ a = <<a[1], searcher[a[1]].attempt>>
    BY <1>2, Constants DEF Registered, Reads, Current
<1>3. ASSUME NEW a \in Attempts, searcher'[a[1]].pc \in {"publish", "gather"},
             a = <<a[1], searcher'[a[1]].attempt>>
      PROVE  Reads(a)'
    BY <1>3 DEF Reads, Current
<1>4. ASSUME NEW s \in Searchers, Register(s) PROVE Registered'
    <2> SUFFICES ASSUME NEW q \in RequestIds, NEW a \in Attempts, pending'[q] = a
                 PROVE  Reads(a)' /\ Request[a[1]] = q
        BY <1>1
    <2>1. CASE q = Request[s]
        <3>1. a = <<s, searcher[s].attempt + 1>>
            BY <1>4, <2>1, Registers
        <3>2. a[1] = s
            BY <3>1
        <3> QED BY <1>3, <1>4, <2>1, <3>1, <3>2, Registers
    <2>2. CASE q # Request[s]
        <3>1. pending[q] = a
            BY <1>4, <2>2, Registers
        <3>2. Request[a[1]] = q /\ a[1] \in Searchers \ {s}
            BY <1>2, <2>2, <3>1
        <3>3. searcher'[a[1]] = searcher[a[1]]
            BY <1>4, <3>2, Registers
        <3> QED BY <1>2, <1>3, <3>1, <3>2, <3>3
    <2> QED BY <2>1, <2>2
<1>5. ASSUME NEW s \in Searchers, NEW outcome \in {"gathered", "failed"},
             searcher[s].pc # "idle", Return(s, outcome)
      PROVE  Registered'
    <2> SUFFICES ASSUME NEW q \in RequestIds, NEW a \in Attempts, pending'[q] = a
                 PROVE  Reads(a)' /\ Request[a[1]] = q
        BY <1>1
    <2>1. q # Request[s] /\ pending[q] = a
        <3>1. pending'[Request[s]] = None /\ a # None
            BY <1>5, Returns, Constants
        <3>2. q # Request[s]
            BY <3>1
        <3> QED BY <1>5, <3>2, Returns
    <2>2. Request[a[1]] = q /\ a[1] \in Searchers \ {s}
        BY <1>2, <2>1
    <2>3. searcher'[a[1]] = searcher[a[1]]
        BY <1>5, <2>2, Returns
    <2> QED BY <1>2, <1>3, <2>1, <2>2, <2>3
<1>6. ASSUME UNCHANGED pending,
             \A t \in Searchers : searcher[t].pc \in {"publish", "gather"} =>
                 /\ searcher'[t].pc \in {"publish", "gather"}
                 /\ searcher'[t].attempt = searcher[t].attempt
      PROVE  Registered'
    BY <1>1, <1>2, <1>3, <1>6
<1>7. ASSUME NEW s \in Searchers, SearcherStep(s) \/ PublishFails(s) PROVE Registered'
    <2>1. searcher[s] \in SearcherRecords
        BY DEF Types
    <2>2. CASE PublishJob(s)
        <3>1. Sent(s).pc \in {"publish", "gather"} /\ Sent(s).attempt = searcher[s].attempt
            BY <2>1, <2>2 DEF PublishJob, Sent, SearcherRecords
        <3>2. UNCHANGED pending
            BY <2>2 DEF PublishJob
        <3> QED BY <1>6, <2>2, <3>1, <3>2, Publishes
    <2>3. CASE GatherResult(s)
        <3> DEFINE r == Head(buffer[Current(s)])
        <3>1. /\ searcher'[s] = Taken(s, r) \/ searcher'[s] = searcher[s]
              /\ \A t \in Searchers \ {s} : searcher'[t] = searcher[t]
              /\ UNCHANGED pending
            BY <2>3, Gathers
        <3>2. Taken(s, r).pc = searcher[s].pc /\ Taken(s, r).attempt = searcher[s].attempt
            BY <2>1 DEF Taken, SearcherRecords
        <3> HIDE DEF r
        <3> QED BY <1>6, <3>1, <3>2
    <2>4. CASE Finish(s)
        <3>1. searcher[s].pc \notin {"publish", "gather"} /\ UNCHANGED pending
            BY <2>4 DEF Finish
        <3>2. \A t \in Searchers \ {s} : searcher'[t] = searcher[t]
            BY <2>4 DEF Finish, Types
        <3> QED BY <1>6, <3>1, <3>2
    <2>5. CASE PublishFails(s) \/ GatherError(s) \/ GatherDone(s) \/ GatherTimeout(s)
        BY <1>5, <2>5 DEF PublishFails, GatherError, GatherDone, GatherTimeout
    <2> QED BY <1>7, <2>2, <2>3, <2>4, <2>5 DEF SearcherStep
<1>8. ASSUME UNCHANGED <<searcher, pending>> PROVE Registered'
    BY <1>6, <1>8
<1>9. ASSUME NEW a \in Attempts, Deadline(a) PROVE Registered'
    BY <1>8, <1>9 DEF Deadline
<1>10. CASE DispatcherStep \/ Reconnect \/ UNCHANGED vars
    BY <1>8, <1>10 DEF DispatcherStep, Dispatch, Send, Reconnect, vars
<1> QED BY <1>4, <1>7, <1>8, <1>9, <1>10, JobGoesOn DEF Next

LEMMA PublishedStep ==
    ASSUME Types, Published, [Next]_vars PROVE Published'
<1>1. ASSUME NEW a \in Attempts, NEW i \in 1..N[a[1]], jobs[a][i] # "none"
      PROVE  Begun(a)'
    BY <1>1, AttemptsGrow DEF Published
<1>2. ASSUME UNCHANGED <<searcher, jobs>> PROVE Published'
    BY <1>2 DEF Published, Begun, Current
<1>3. ASSUME NEW s \in Searchers, UNCHANGED jobs, Register(s) PROVE Published'
    <2>1. \A a \in Attempts : \A i \in 1..N[a[1]] : jobs'[a][i] # "none" => Begun(a)'
        BY <1>1, <1>3
    <2>2. \A i \in 1..N[s] : jobs'[Current(s)'][i] = "none"
        <3> DEFINE a == <<s, searcher[s].attempt + 1>>
        <3>1. a \in Attempts /\ Current(s)' = a
            BY <1>3, Registers DEF Current
        <3>2. ~Begun(a)
            BY <1>3, Constants DEF Begun, Types, SearcherRecords
        <3>3. a[1] = s
            OBVIOUS
        <3> HIDE DEF a
        <3> QED BY <1>3, <3>1, <3>2, <3>3 DEF Published
    <2>3. \A t \in Searchers \ {s} : searcher'[t] = searcher[t] /\ Current(t)' = Current(t)
        BY <1>3, Registers DEF Current
    <2>4. searcher'[s].next = 1
        BY <1>3, Registers
    <2>5. ASSUME NEW t \in Searchers, searcher'[t].pc = "publish",
                 NEW i \in searcher'[t].next..N[t]
          PROVE  jobs'[Current(t)'][i] = "none"
        <3>1. CASE t = s
            BY <2>2, <2>4, <2>5, <3>1
        <3>2. CASE t # s
            BY <1>3, <2>3, <2>5, <3>2 DEF Published
        <3> QED BY <3>1, <3>2
    <2> QED BY <2>1, <2>5 DEF Published
<1>4. ASSUME UNCHANGED jobs, NEW s \in Searchers, searcher'[s].pc # "publish",
             \A t \in Searchers \ {s} : searcher'[t] = searcher[t]
      PROVE  Published'
    <2>1. \A a \in Attempts : \A i \in 1..N[a[1]] : jobs'[a][i] # "none" => Begun(a)'
        BY <1>1, <1>4
    <2>2. \A t \in Searchers \ {s} : searcher'[t] = searcher[t] /\ Current(t)' = Current(t)
        BY <1>4 DEF Current
    <2> QED BY <1>4, <2>1, <2>2 DEF Published
\* A job of the current attempt of s is published.
<1>5. ASSUME NEW s \in Searchers, searcher[s].pc = "publish",
             jobs' = [jobs EXCEPT ![Current(s)][searcher[s].next] = "queued"],
             \A t \in Searchers \ {s} : searcher'[t] = searcher[t],
             searcher'[s].attempt = searcher[s].attempt,
             searcher'[s].pc = "publish" => searcher'[s].next = searcher[s].next + 1
      PROVE  Published'
    <2>0. PICK c \in Attempts : c = Current(s)
        BY <1>5, CurrentAttempt DEF Types, Fits
    <2>1. /\ c[1] = s /\ searcher[s].next \in 1..N[s] /\ N[s] \in Nat /\ Begun(c)
        <3>1. c[1] = s /\ c[2] = searcher[s].attempt
            BY <1>5, <2>0, CurrentAttempt DEF Types, Fits
        <3>2. searcher[s].next \in 1..N[s] /\ N[s] \in Nat /\ searcher[s].attempt \in Int
            BY <1>5, Constants DEF Types, Fits, SearcherRecords
        <3> QED BY <3>1, <3>2 DEF Begun
    <2>2. /\ \A a \in Attempts \ {c} : jobs'[a] = jobs[a]
          /\ jobs'[c] = [jobs[c] EXCEPT ![searcher[s].next] = "queued"]
          /\ jobs[c] \in [1..N[s] -> JobStates]
        BY <1>5, <2>0, <2>1, JobMoves DEF JobStates, Types
    <2>3. Begun(c)'
        BY <2>1, AttemptsGrow
    <2>4. c = Current(s)' /\ \A t \in Searchers \ {s} : Current(t)' = Current(t) /\ Current(t) # c
        BY <1>5, <2>0 DEF Current
    <2>5. ASSUME NEW a \in Attempts, NEW i \in 1..N[a[1]], jobs'[a][i] # "none"
          PROVE  Begun(a)'
        BY <1>1, <2>2, <2>3, <2>5
    <2>6. ASSUME NEW t \in Searchers, searcher'[t].pc = "publish",
                 NEW i \in searcher'[t].next..N[t]
          PROVE  jobs'[Current(t)'][i] = "none"
        <3>1. CASE t = s
            <4>1. i \in searcher[s].next..N[s] /\ i # searcher[s].next /\ i \in 1..N[s]
                BY <1>5, <2>1, <2>6, <3>1
            <4>2. jobs[c][i] = "none"
                BY <1>5, <2>0, <4>1 DEF Published
            <4> QED BY <2>2, <2>4, <3>1, <4>1, <4>2
        <3>2. CASE t # s
            <4>1. searcher[t].pc = "publish" /\ i \in searcher[t].next..N[t]
                BY <1>5, <2>6, <3>2
            <4>2. Current(t) \in Attempts \ {c}
                BY <2>4, <3>2, <4>1, CurrentAttempt DEF Types, Fits
            <4> QED BY <2>2, <2>4, <3>2, <4>1, <4>2 DEF Published
        <3> QED BY <3>1, <3>2
    <2> QED BY <2>5, <2>6 DEF Published
<1>6. ASSUME NEW s \in Searchers, SearcherStep(s) \/ PublishFails(s) PROVE Published'
    <2>1. searcher[s] \in SearcherRecords
        BY DEF Types
    <2>2. CASE PublishJob(s)
        <3>1. Sent(s).attempt = searcher[s].attempt /\ Sent(s).next = searcher[s].next + 1
            BY <2>1 DEF Sent, SearcherRecords
        <3>2. /\ searcher[s].pc = "publish"
              /\ jobs' = [jobs EXCEPT ![Current(s)][searcher[s].next] = "queued"]
            BY <2>2 DEF PublishJob
        <3> QED BY <1>5, <2>2, <3>1, <3>2, Publishes
    <2>3. CASE GatherResult(s)
        <3> DEFINE r == Head(buffer[Current(s)])
        <3>1. /\ searcher'[s] = Taken(s, r) \/ searcher'[s] = searcher[s]
              /\ \A t \in Searchers \ {s} : searcher'[t] = searcher[t]
              /\ searcher[s].pc = "gather" /\ UNCHANGED jobs
            BY <2>3, Gathers
        <3>2. Taken(s, r).pc = searcher[s].pc
            BY <2>1 DEF Taken, SearcherRecords
        <3> HIDE DEF r
        <3> QED BY <1>4, <3>1, <3>2
    <2>4. ASSUME NEW outcome \in {"gathered", "failed"}, Return(s, outcome),
                 searcher[s].pc # "idle"
          PROVE  /\ \A t \in Searchers \ {s} : searcher'[t] = searcher[t]
                 /\ searcher'[s].pc # "publish" /\ searcher'[s].attempt = searcher[s].attempt
        <3>1. [searcher[s] EXCEPT !.pc = outcome].pc = outcome
              /\ [searcher[s] EXCEPT !.pc = outcome].attempt = searcher[s].attempt
            BY <2>1 DEF SearcherRecords
        <3> QED BY <2>4, <3>1, Returns
    <2>5. CASE GatherError(s) \/ GatherDone(s) \/ GatherTimeout(s)
        BY <1>4, <2>4, <2>5 DEF GatherError, GatherDone, GatherTimeout
    <2>6. CASE PublishFails(s)
        <3>1. searcher[s].pc = "publish" /\ Return(s, "failed")
            BY <2>6 DEF PublishFails
        <3>2. CASE UNCHANGED jobs
            BY <1>4, <2>4, <3>1, <3>2
        <3>3. CASE jobs' = [jobs EXCEPT ![Current(s)][searcher[s].next] = "queued"]
            BY <1>5, <2>4, <3>1, <3>3
        <3> QED BY <2>6, <3>2, <3>3 DEF PublishFails
    <2>7. CASE Finish(s)
        <3>1. searcher'[s].pc = "done" /\ \A t \in Searchers \ {s} : searcher'[t] = searcher[t]
            BY <2>1, <2>7 DEF Finish, Types, SearcherRecords
        <3>2. UNCHANGED jobs
            BY <2>7 DEF Finish
        <3> QED BY <1>4, <3>1, <3>2
    <2> QED BY <1>6, <2>2, <2>3, <2>5, <2>6, <2>7 DEF SearcherStep
<1>7. ASSUME NEW a \in Attempts, NEW i \in 1..N[a[1]], GatewayStep(a, i) \/ Redeliver(a, i)
      PROVE  Published'
    <2>1. PICK state \in JobStates : jobs' = [jobs EXCEPT ![a][i] = state]
        BY <1>7, JobGoesOn
    <2>2. /\ \A b \in Attempts \ {a} : jobs'[b] = jobs[b]
          /\ jobs'[a] = [jobs[a] EXCEPT ![i] = state]
          /\ jobs[a] \in [1..N[a[1]] -> JobStates]
        BY <2>1, JobMoves DEF Types
    <2>3. UNCHANGED searcher /\ jobs[a][i] # "none"
        BY <1>7, JobGoesOn
    <2>4. \A b \in Attempts : \A k \in 1..N[b[1]] :
              jobs'[b][k] = jobs[b][k] \/ (b = a /\ k = i)
        BY <2>2
    <2>5. \A b \in Attempts : \A k \in 1..N[b[1]] : jobs'[b][k] # "none" => jobs[b][k] # "none"
        BY <2>3, <2>4
    <2>6. ASSUME NEW t \in Searchers, searcher[t].pc = "publish",
                 NEW k \in searcher[t].next..N[t]
          PROVE  jobs'[Current(t)][k] = "none"
        <3>1. Current(t) \in Attempts /\ Current(t)[1] = t
            BY <2>6, CurrentAttempt DEF Types, Fits
        <3>2. k \in 1..N[t]
            BY <2>6, Constants DEF Types, Fits
        <3>3. jobs[Current(t)][k] = "none"
            BY <2>6 DEF Published
        <3> QED BY <2>3, <2>4, <3>1, <3>2, <3>3
    <2> QED BY <1>1, <2>3, <2>5, <2>6 DEF Published, Current
<1>8. ASSUME NEW a \in Attempts, Deadline(a) PROVE Published'
    BY <1>2, <1>8 DEF Deadline
<1>9. CASE DispatcherStep \/ Reconnect \/ UNCHANGED vars
    BY <1>2, <1>9 DEF DispatcherStep, Dispatch, Send, Reconnect, vars
<1>10. ASSUME NEW s \in Searchers, Register(s) PROVE Published'
    BY <1>3, <1>10 DEF Register
<1> QED BY <1>6, <1>7, <1>8, <1>9, <1>10 DEF Next

\* A result that is genuine stays so.
LEMMA GenuineKept ==
    ASSUME Types, [Next]_vars, NEW r \in Results, Genuine(r) PROVE Genuine(r)'
<1>1. r.from \in Attempts
    BY DEF Results
<1>2. Begun(r.from)'
    <2>1. PICK a \in Attempts : a = r.from
        BY <1>1
    <2> QED BY <2>1, AttemptsGrow DEF Genuine
<1> QED BY <1>2 DEF Genuine

LEMMA TracedStep ==
    ASSUME Types, Registered, Published, Traced, [Next]_vars PROVE Traced'
<1>1. /\ In(results) \subseteq Results /\ Hand \subseteq Results
      /\ \A a \in Attempts : In(buffer[a]) \subseteq Results
    BY Holding DEF Types, In
<1>2. \A r \in Results : Genuine(r) => Genuine(r)'
    BY GenuineKept
<1>3. /\ \A r \in In(results) : Genuine(r)'
      /\ \A r \in Hand : Genuine(r)' /\ r.request = Request[dispatcher.to[1]]
      /\ \A a \in Attempts : \A r \in In(buffer[a]) : Genuine(r)' /\ r.request = Request[a[1]]
    BY <1>1, <1>2 DEF Traced
<1>4. ASSUME UNCHANGED <<results, dispatcher>>,
             \A a \in Attempts : In(buffer'[a]) \subseteq In(buffer[a])
      PROVE  Traced'
    BY <1>3, <1>4 DEF Traced, Hand
<1>5. ASSUME NEW a \in Attempts, buffer[a] # <<>>,
             buffer' = [buffer EXCEPT ![a] = Tail(buffer[a])]
      PROVE  \A b \in Attempts : In(buffer'[b]) \subseteq In(buffer[b])
    BY <1>5, TailFacts DEF Types
<1>6. ASSUME NEW s \in Searchers, Register(s) \/ SearcherStep(s) \/ PublishFails(s)
      PROVE  Traced'
    <2>1. CASE GatherResult(s)
        BY <1>4, <1>5, <2>1, Gathers
    <2>2. CASE GatherError(s)
        <3>1. /\ buffer' = [buffer EXCEPT ![Current(s)] = Tail(buffer[Current(s)])]
              /\ buffer[Current(s)] # <<>> /\ Current(s) \in Attempts
            BY <2>2, CurrentAttempt DEF GatherError, Types, Fits
        <3> QED BY <1>4, <1>5, <2>2, <3>1 DEF GatherError
    <2>3. CASE Register(s) \/ PublishJob(s) \/ PublishFails(s) \/ GatherDone(s)
               \/ GatherTimeout(s) \/ Finish(s)
        BY <1>4, <2>3 DEF Register, PublishJob, PublishFails, GatherDone, GatherTimeout, Finish
    <2> QED BY <1>6, <2>1, <2>2, <2>3 DEF SearcherStep
<1>7. ASSUME NEW a \in Attempts, NEW i \in 1..N[a[1]], GatewayStep(a, i) \/ Redeliver(a, i)
      PROVE  Traced'
    <2>1. CASE UNCHANGED results
        BY <1>4, <1>7, <2>1, JobGoesOn
    <2>2. CASE PublishResult(a, i)
        <3>1. PICK error \in BOOLEAN :
                LET r == [request |-> Request[a[1]], from |-> a, index |-> i, error |-> error]
                IN  /\ r \in Results /\ results' = Append(results, r)
                    /\ results' \in Seq(Results)
            BY <2>2, Answers
        <3> DEFINE r == [request |-> Request[a[1]], from |-> a, index |-> i, error |-> error]
        <3>2. r \in Results /\ In(results') = In(results) \cup {r}
            BY <3>1, AppendFacts DEF Types
        <3>3. r.request = Request[r.from[1]] /\ r.index \in 1..N[r.from[1]] /\ r.from = a
            OBVIOUS
        <3> HIDE DEF r
        <3>4. Begun(a)
            BY <1>7, JobGoesOn DEF Published
        <3>5. Genuine(r)
            BY <3>3, <3>4 DEF Genuine
        <3>6. UNCHANGED <<dispatcher, buffer>>
            BY <2>2 DEF PublishResult
        <3> QED BY <1>2, <1>3, <3>2, <3>5, <3>6 DEF Traced, Hand
    <2> QED BY <1>7, <2>1, <2>2, JobGoesOn
<1>8. CASE Dispatch
    <2>1. PICK r \in Results : r = Head(results)
        BY <1>8, Dispatches
    <2>2. PICK a \in Attempts \cup {None} : a = pending[r.request]
        BY <1>8, <2>1, Dispatches
    <2>3. /\ Hand' = {} \/ (a # None /\ Hand' = {r} /\ dispatcher'.to = a)
          /\ results # <<>> /\ results' = Tail(results) /\ UNCHANGED buffer
        BY <1>8, <2>1, <2>2, Dispatches
    <2>4. In(results') \subseteq In(results) /\ r \in In(results)
        BY <2>1, <2>3, TailFacts DEF Types
    <2>5. a # None => Request[a[1]] = r.request
        BY <2>2 DEF Registered, Results
    <2> QED BY <1>3, <2>3, <2>4, <2>5 DEF Traced
<1>9. CASE Send
    <2>1. PICK r \in Results : r = dispatcher.result
        BY <1>9, SendsOn
    <2>2. PICK a \in Attempts : a = dispatcher.to
        BY <1>9, SendsOn
    <2>3. /\ Hand = {r} /\ Hand' = {}
          /\ buffer' = [buffer EXCEPT ![a] = Append(buffer[a], r)]
          /\ UNCHANGED results
        BY <1>9, <2>1, <2>2, SendsOn
    <2>4. Genuine(r)' /\ r.request = Request[a[1]]
        BY <1>3, <2>2, <2>3
    <2>5. \A b \in Attempts : In(buffer'[b]) \subseteq
              IF b = a THEN In(buffer[a]) \cup {r} ELSE In(buffer[b])
        BY <2>3, AppendFacts DEF Types
    <2> QED BY <1>3, <2>3, <2>4, <2>5 DEF Traced
<1>10. CASE Reconnect
    <2>1. /\ dispatcher.result \in Hand /\ dispatcher.result \in Results
          /\ results' = <<dispatcher.result>> \o results /\ UNCHANGED <<dispatcher, buffer>>
        BY <1>10, Holding DEF Reconnect
    <2>2. In(results') = In(results) \cup {dispatcher.result}
        BY <2>1, PrependFacts DEF Types
    <2> QED BY <1>3, <2>1, <2>2 DEF Traced, Hand
<1>11. ASSUME NEW a \in Attempts, Deadline(a) PROVE Traced'
    BY <1>4, <1>11 DEF Deadline
<1>12. CASE UNCHANGED vars
    BY <1>4, <1>12 DEF vars
<1> QED BY <1>6, <1>7, <1>8, <1>9, <1>10, <1>11, <1>12 DEF Next, DispatcherStep

LEMMA OwnedHolds == Spec => [](Types /\ Owned)
<1>1. Init => Types /\ Owned
    <2> SUFFICES ASSUME Init PROVE Types /\ Owned
        OBVIOUS
    <2>1. Registered
        BY DEF Init, Registered
    <2>2. Published
        BY DEF Init, Published
    <2>3. Traced
        BY EmptyQueue DEF Init, Traced, Hand, Receiving
    <2> QED BY <2>1, <2>2, <2>3, InitTypes DEF Owned
<1>2. Types /\ Owned /\ [Next]_vars => (Types /\ Owned)'
    BY TypesStep, RegisteredStep, PublishedStep, TracedStep DEF Owned
<1> QED BY <1>1, <1>2, PTL DEF Spec

\* A channel gets results of its own request only, however registrations,
\* deregistrations, look-ups and sends interleave and whatever is delivered twice:
\* the request's channel, not the attempt's.
THEOREM OwnRequestAlways == Spec => []OwnRequest
<1>1. Types /\ Owned => OwnRequest
    BY DEF Types, Owned, Traced, OwnRequest, In
<1> QED BY <1>1, OwnedHolds, PTL

-------------------------------------------------------------------------------
(* A result is in one place *)

\* Nothing takes an answer back but a second delivery.
LEMMA AnswersStay ==
    ASSUME Types, Published, [Next]_vars, repeats' = {},
           NEW a \in Attempts, NEW i \in 1..N[a[1]], jobs[a][i] \in Answered
    PROVE  jobs'[a][i] \in Answered
<1>1. UNCHANGED jobs => jobs'[a][i] \in Answered
    OBVIOUS
<1>2. ASSUME NEW s \in Searchers, searcher[s].pc = "publish",
             jobs' = [jobs EXCEPT ![Current(s)][searcher[s].next] = "queued"]
      PROVE  jobs'[a][i] \in Answered
    <2>1. Current(s) \in Attempts /\ Current(s)[1] = s
        BY <1>2, CurrentAttempt DEF Types, Fits
    <2>2. searcher[s].next \in 1..N[s]
        BY <1>2, Constants DEF Types, Fits
    <2>3. jobs[Current(s)][searcher[s].next] = "none"
        BY <1>2, <2>2 DEF Published
    <2>4. ~(a = Current(s) /\ i = searcher[s].next)
        BY <2>3 DEF Answered
    <2>5. jobs'[a][i] = jobs[a][i]
        BY <1>2, <2>1, <2>2, <2>4, JobMoves DEF JobStates, Types
    <2> QED BY <2>5
<1>3. ASSUME NEW b \in Attempts, NEW k \in 1..N[b[1]], GatewayStep(b, k) \/ Redeliver(b, k)
      PROVE  jobs'[a][i] \in Answered
    <2>1. PICK state \in JobStates \ {"none"} :
              /\ jobs' = [jobs EXCEPT ![b][k] = state]
              /\ jobs[b][k] \in Answered => state \in Answered
        BY <1>3, JobGoesOn
    <2>2. /\ \A c \in Attempts \ {b} : jobs'[c] = jobs[c]
          /\ jobs'[b] = [jobs[b] EXCEPT ![k] = state]
          /\ jobs[b] \in [1..N[b[1]] -> JobStates]
        BY <2>1, JobMoves DEF Types
    <2> QED BY <2>1, <2>2
<1>4. ASSUME NEW s \in Searchers, Register(s) \/ SearcherStep(s) \/ PublishFails(s)
      PROVE  jobs'[a][i] \in Answered
    <2>1. UNCHANGED jobs \/ PublishJob(s) \/ PublishFails(s)
        BY <1>4 DEF Register, SearcherStep, GatherResult, GatherError, GatherDone,
                    GatherTimeout, Finish
    <2> QED BY <1>1, <1>2, <2>1 DEF PublishJob, PublishFails
<1>5. ASSUME NEW b \in Attempts, Deadline(b) PROVE UNCHANGED jobs
    BY <1>5 DEF Deadline
<1>6. CASE DispatcherStep \/ Reconnect \/ UNCHANGED vars
    BY <1>1, <1>6, SMTT(30) DEF DispatcherStep, Dispatch, Send, Reconnect, vars
<1> QED BY <1>1, <1>3, <1>4, <1>5, <1>6 DEF Next

\* A second delivery is not forgotten.
LEMMA RepeatsGrow == ASSUME [Next]_vars PROVE repeats \subseteq repeats'
    BY JobGoesOn DEF Next, vars, SearcherStep, DispatcherStep, GatewayStep, Register, PublishJob,
           PublishFails, GatherResult, GatherError, GatherDone, GatherTimeout, Finish, Deadline,
           TakeJob, DropExpired, PublishResult, AckJob, Redeliver, Dispatch, Send, Reconnect

LEMMA OnceStep ==
    ASSUME Types, Owned, Once, [Next]_vars PROVE Once'
<1> SUFFICES ASSUME repeats' = {} PROVE OnePlace'
    BY DEF Once
<1>1. OnePlace
    BY RepeatsGrow DEF Once
<1>2. \A r \in Results : Genuine(r) /\ jobs[r.from][r.index] \in Answered =>
                            jobs'[r.from][r.index] \in Answered
    BY AnswersStay DEF Owned, Genuine, Results
<1>3. /\ In(results) \subseteq Results /\ Hand \subseteq Results
      /\ \A a \in Attempts : In(buffer[a]) \subseteq Results
    BY Holding DEF Types, In
<1>4. /\ \A r \in In(results) \cup Hand : jobs'[r.from][r.index] \in Answered
      /\ \A a \in Attempts : \A r \in In(buffer[a]) : jobs'[r.from][r.index] \in Answered
    BY <1>1, <1>2, <1>3 DEF Owned, Traced, OnePlace
<1>5. ASSUME UNCHANGED <<results, dispatcher>>,
             \A a \in Attempts : /\ In(buffer'[a]) \subseteq In(buffer[a])
                                 /\ Distinct(buffer'[a])
      PROVE  OnePlace'
    <2>1. Hand' = Hand /\ results' = results
        BY <1>5 DEF Hand
    <2> QED BY <1>1, <1>4, <1>5, <2>1 DEF OnePlace
<1>6. ASSUME UNCHANGED <<results, dispatcher, buffer>> PROVE OnePlace'
    BY <1>1, <1>5, <1>6 DEF OnePlace
<1>7. ASSUME UNCHANGED <<results, dispatcher>>, NEW a \in Attempts, buffer[a] # <<>>,
             buffer' = [buffer EXCEPT ![a] = Tail(buffer[a])]
      PROVE  OnePlace'
    BY <1>1, <1>5, <1>7, TailFacts DEF Types, OnePlace
<1>8. ASSUME NEW s \in Searchers, Register(s) \/ SearcherStep(s) \/ PublishFails(s)
      PROVE  OnePlace'
    <2>1. CASE GatherResult(s)
        BY <1>7, <2>1, Gathers
    <2>2. CASE GatherError(s)
        <3>1. Current(s) \in Attempts
            BY <2>2, CurrentAttempt DEF GatherError, Types, Fits
        <3> QED BY <1>7, <2>2, <3>1 DEF GatherError
    <2>3. CASE Register(s) \/ PublishJob(s) \/ PublishFails(s) \/ GatherDone(s)
               \/ GatherTimeout(s) \/ Finish(s)
        BY <1>6, <2>3 DEF Register, PublishJob, PublishFails, GatherDone, GatherTimeout, Finish
    <2> QED BY <1>8, <2>1, <2>2, <2>3 DEF SearcherStep
<1>9. ASSUME NEW a \in Attempts, NEW i \in 1..N[a[1]], GatewayStep(a, i) \/ Redeliver(a, i)
      PROVE  OnePlace'
    <2>1. CASE UNCHANGED results
        BY <1>6, <1>9, <2>1, JobGoesOn
    <2>2. CASE PublishResult(a, i)
        <3>1. PICK r \in Results : r.from = a /\ r.index = i /\ results' = Append(results, r)
            <4>1. PICK error \in BOOLEAN :
                    LET r == [request |-> Request[a[1]], from |-> a, index |-> i, error |-> error]
                    IN  /\ r \in Results /\ results' = Append(results, r)
                        /\ results' \in Seq(Results)
                BY <2>2, Answers
            <4> QED BY <4>1
        <3>2. jobs[a][i] \notin Answered /\ UNCHANGED <<dispatcher, buffer>>
            BY <2>2 DEF PublishResult, Answered
        <3>3. jobs'[a][i] \in Answered
            BY <2>2, JobMoves DEF PublishResult, Answered, JobStates, Types
        <3>4. /\ \A q \in In(results) \cup Hand : ~Same(r, q)
              /\ \A b \in Attempts : \A q \in In(buffer[b]) : ~Same(q, r)
            BY <1>1, <3>1, <3>2 DEF OnePlace, Same
        <3>5. In(results') = In(results) \cup {r} /\ Distinct(results')
            BY <1>1, <3>1, <3>4, AppendFacts DEF Types, OnePlace
        <3>6. Hand' = Hand
            BY <3>2 DEF Hand
        <3>7. \A q \in Hand : ~Same(q, r)
            BY <3>4 DEF Same
        <3> QED BY <1>1, <1>4, <3>1, <3>2, <3>3, <3>4, <3>5, <3>6, <3>7 DEF OnePlace
    <2> QED BY <1>9, <2>1, <2>2, JobGoesOn
<1>10. CASE Dispatch
    <2>1. PICK r \in Results : r = Head(results)
        BY <1>10, Dispatches
    <2>2. /\ Hand' \subseteq {r} /\ results # <<>> /\ results' = Tail(results)
          /\ UNCHANGED <<buffer, jobs>>
        BY <1>10, <2>1, Dispatches
    <2>3. /\ In(results) = In(results') \cup {r} /\ Distinct(results')
          /\ \A q \in In(results') : ~Same(r, q)
        BY <1>1, <2>1, <2>2, TailFacts DEF Types, OnePlace
    <2> QED BY <1>1, <2>2, <2>3 DEF OnePlace
<1>11. CASE Send
    <2>1. PICK r \in Results : r = dispatcher.result
        BY <1>11, SendsOn
    <2>2. PICK a \in Attempts : a = dispatcher.to
        BY <1>11, SendsOn
    <2>3. /\ Hand = {r} /\ Hand' = {}
          /\ buffer' = [buffer EXCEPT ![a] = Append(buffer[a], r)]
          /\ UNCHANGED <<results, jobs>>
        BY <1>11, <2>1, <2>2, SendsOn
    <2>4. \A q \in In(buffer[a]) : ~Same(r, q)
        BY <1>1, <2>3 DEF OnePlace, Same
    <2>5. In(buffer'[a]) = In(buffer[a]) \cup {r} /\ Distinct(buffer'[a])
        BY <1>1, <2>3, <2>4, AppendFacts DEF Types, OnePlace
    <2>6. \A b \in Attempts \ {a} : buffer'[b] = buffer[b]
        BY <2>3 DEF Types
    <2> QED BY <1>1, <2>3, <2>5, <2>6 DEF OnePlace
<1>12. CASE Reconnect
    BY <1>12 DEF Reconnect
<1>13. ASSUME NEW a \in Attempts, Deadline(a) PROVE OnePlace'
    BY <1>6, <1>13 DEF Deadline
<1>14. CASE UNCHANGED vars
    BY <1>6, <1>14 DEF vars
<1> QED BY <1>8, <1>9, <1>10, <1>11, <1>12, <1>13, <1>14 DEF Next, DispatcherStep

-------------------------------------------------------------------------------
(* The channel of an undisturbed attempt *)

LEMMA OwnResultsStep ==
    ASSUME Types, Owned, OwnResults, [Next]_vars PROVE OwnResults'
<1>1. ASSUME UNCHANGED dispatcher,
             \A a \in Attempts : In(buffer'[a]) \subseteq In(buffer[a])
      PROVE  OwnResults'
    BY <1>1 DEF OwnResults, Hand
<1>2. ASSUME UNCHANGED dispatcher, NEW a \in Attempts, buffer[a] # <<>>,
             buffer' = [buffer EXCEPT ![a] = Tail(buffer[a])]
      PROVE  OwnResults'
    BY <1>1, <1>2, TailFacts DEF Types
<1>3. ASSUME NEW s \in Searchers, Register(s) \/ SearcherStep(s) \/ PublishFails(s)
      PROVE  OwnResults'
    <2>1. CASE GatherResult(s)
        BY <1>2, <2>1, Gathers
    <2>2. CASE GatherError(s)
        <3>1. Current(s) \in Attempts
            BY <2>2, CurrentAttempt DEF GatherError, Types, Fits
        <3> QED BY <1>2, <2>2, <3>1 DEF GatherError
    <2>3. CASE Register(s) \/ PublishJob(s) \/ PublishFails(s) \/ GatherDone(s)
               \/ GatherTimeout(s) \/ Finish(s)
        BY <1>1, <2>3 DEF Register, PublishJob, PublishFails, GatherDone, GatherTimeout, Finish
    <2> QED BY <1>3, <2>1, <2>2, <2>3 DEF SearcherStep
\* The look-up finds the only attempt the request id has had.
<1>4. CASE Dispatch
    <2>1. PICK r \in Results : r = Head(results)
        BY <1>4, Dispatches
    <2>2. PICK b \in Attempts \cup {None} : b = pending[r.request]
        BY <1>4, <2>1, Dispatches
    <2>3. /\ b = None => Hand' = {}
          /\ b # None => Hand' = {r} /\ dispatcher'.to = b
          /\ results # <<>> /\ UNCHANGED buffer
        BY <1>4, <2>1, <2>2, Dispatches
    <2>4. ASSUME b \in Attempts, b[2] = 1, Alone(b[1]) PROVE r.from = b
        <3>1. Reads(b) /\ Request[b[1]] = r.request
            BY <2>2, <2>4, Constants DEF Owned, Registered, Results
        <3>2. Genuine(r)
            BY <2>1, <2>3, TailFacts DEF Types, Owned, Traced
        <3>3. r.from \in Attempts /\ r.from[1] \in Searchers
            BY Constants DEF Results
        <3>4. r.from[1] = b[1]
            BY <2>4, <3>1, <3>2, <3>3 DEF Genuine, Alone
        <3>5. searcher[b[1]].attempt = 1
            BY <2>4, <3>1 DEF Reads, Current
        <3>6. r.from[2] = 1
            BY <3>2, <3>3, <3>4, <3>5, Constants DEF Genuine, Begun
        <3> QED BY <2>4, <3>3, <3>4, <3>6, Constants
    <2>5. \A a \in Attempts, q \in Hand' :
              a[2] = 1 /\ Alone(a[1]) /\ dispatcher'.to = a => q.from = a
        BY <2>3, <2>4
    <2> QED BY <2>3, <2>5 DEF OwnResults
<1>5. CASE Send
    <2>1. PICK r \in Results : r = dispatcher.result
        BY <1>5, SendsOn
    <2>2. PICK b \in Attempts : b = dispatcher.to
        BY <1>5, SendsOn
    <2>3. /\ Hand = {r} /\ Hand' = {}
          /\ buffer' = [buffer EXCEPT ![b] = Append(buffer[b], r)]
        BY <1>5, <2>1, <2>2, SendsOn
    <2>4. In(buffer'[b]) = In(buffer[b]) \cup {r}
        BY <2>3, AppendFacts DEF Types
    <2>5. \A a \in Attempts \ {b} : buffer'[a] = buffer[a]
        BY <2>3 DEF Types
    <2> QED BY <2>2, <2>3, <2>4, <2>5 DEF OwnResults
<1>6. ASSUME NEW a \in Attempts, NEW i \in 1..N[a[1]], GatewayStep(a, i) \/ Redeliver(a, i)
      PROVE  OwnResults'
    BY <1>1, <1>6, JobGoesOn
<1>7. ASSUME NEW a \in Attempts, Deadline(a) PROVE OwnResults'
    BY <1>1, <1>7 DEF Deadline
<1>8. CASE Reconnect \/ UNCHANGED vars
    BY <1>1, <1>8 DEF Reconnect, vars
<1> QED BY <1>3, <1>4, <1>5, <1>6, <1>7, <1>8 DEF Next, DispatcherStep

\* A full channel has a result of each sub-query, so there is none left for the
\* dispatcher to wait with.
LEMMA NeverOverfull ==
    ASSUME Types, Owned, Once, OwnResults, Stuck PROVE ~Undisturbed(dispatcher.to)
<1> SUFFICES ASSUME Undisturbed(dispatcher.to) PROVE FALSE
    OBVIOUS
<1>1. PICK a \in Attempts : a = dispatcher.to
    BY Holding DEF Stuck
<1>2. PICK x \in Results : x = dispatcher.result /\ Hand = {x}
    BY Holding DEF Stuck
<1> DEFINE n == N[a[1]]
           q == buffer[a]
           f == [k \in 1..(n + 1) |-> IF k = n + 1 THEN x.index ELSE q[k].index]
<1>3. /\ n \in Nat \ {0} /\ q \in Seq(Results) /\ Len(q) = n
      /\ a[2] = 1 /\ Alone(a[1]) /\ repeats = {}
    BY <1>1, Constants DEF Stuck, Capacity, Undisturbed, Alone, Types
<1>4. /\ \A k \in 1..n : q[k] \in In(q) /\ q[k].from = a /\ q[k].index \in 1..n
      /\ x.from = a /\ x.index \in 1..n
    <2>1. \A k \in 1..n : q[k] \in In(q)
        BY <1>3 DEF In
    <2>2. \A r \in In(q) : r.from = a /\ Genuine(r)
        BY <1>3 DEF OwnResults, Owned, Traced
    <2>3. x.from = a /\ Genuine(x)
        BY <1>1, <1>2, <1>3 DEF OwnResults, Owned, Traced
    <2> QED BY <2>1, <2>2, <2>3 DEF Genuine
<1>5. /\ \A k, l \in 1..n : q[k].index = q[l].index => k = l
      /\ \A k \in 1..n : q[k].index # x.index
    <2>1. OnePlace
        BY <1>3 DEF Once
    <2>2. Distinct(q) /\ \A r \in In(q) : ~Same(r, x)
        BY <1>2, <2>1 DEF OnePlace
    <2> HIDE DEF q, n
    <2>3. DOMAIN q = 1..n
        BY <1>3
    <2>4. ASSUME NEW k \in 1..n, NEW l \in 1..n, q[k].index = q[l].index PROVE k = l
        <3>1. Same(q[k], q[l])
            BY <1>4, <2>4 DEF Same
        <3> QED BY <2>2, <2>3, <3>1 DEF Distinct
    <2>5. ASSUME NEW k \in 1..n PROVE q[k].index # x.index
        <3>1. ~Same(q[k], x)
            BY <1>4, <2>2
        <3> QED BY <1>4, <3>1 DEF Same
    <2> QED BY <2>4, <2>5
<1> HIDE DEF q, n
<1>6. f \in [1..(n + 1) -> 1..n]
    BY <1>3, <1>4
<1>7. \A k, l \in 1..(n + 1) : f[k] = f[l] => k = l
    <2>1. \A k \in 1..(n + 1) : k \in 1..n \/ k = n + 1
        BY <1>3
    <2> QED BY <1>5, <2>1
<1> HIDE DEF f
<1>8. /\ IsFiniteSet(1..n) /\ Cardinality(1..n) = n
      /\ IsFiniteSet(1..(n + 1)) /\ Cardinality(1..(n + 1)) = n + 1
    BY <1>3, FS_Interval
<1>9. \E k, l \in 1..(n + 1) : k # l /\ f[k] = f[l]
    <2>1. Cardinality(1..n) < Cardinality(1..(n + 1))
        BY <1>3, <1>8
    <2> QED BY <1>6, <1>8, <2>1, FS_PigeonHole, Zenon
<1> QED BY <1>7, <1>9

-------------------------------------------------------------------------------
(* What an undisturbed attempt has gathered *)

\* Results come onto the trail of an attempt from a gateway that held their job.
LEMMA TrailSteps ==
    ASSUME Types, [Next]_vars, repeats' = {}, NEW a \in Attempts, NEW r \in Trail(a)'
    PROVE  r \in Trail(a) \/ (r \in Results /\ jobs[r.from][r.index] \notin Answered)
<1>1. ASSUME In(results') \subseteq In(results), UNCHANGED dispatcher,
             In(buffer'[a]) \subseteq In(buffer[a])
      PROVE  r \in Trail(a)
    BY <1>1 DEF Trail, Hand
<1>2. ASSUME NEW b \in Attempts, buffer[b] # <<>>,
             buffer' = [buffer EXCEPT ![b] = Tail(buffer[b])]
      PROVE  In(buffer'[a]) \subseteq In(buffer[a])
    BY <1>2, TailFacts DEF Types
<1>3. ASSUME NEW s \in Searchers, Register(s) \/ SearcherStep(s) \/ PublishFails(s)
      PROVE  r \in Trail(a)
    <2>1. CASE GatherResult(s)
        BY <1>1, <1>2, <2>1, Gathers
    <2>2. CASE GatherError(s)
        <3>1. Current(s) \in Attempts
            BY <2>2, CurrentAttempt DEF GatherError, Types, Fits
        <3> QED BY <1>1, <1>2, <2>2, <3>1 DEF GatherError
    <2>3. CASE Register(s) \/ PublishJob(s) \/ PublishFails(s) \/ GatherDone(s)
               \/ GatherTimeout(s) \/ Finish(s)
        BY <1>1, <2>3 DEF Register, PublishJob, PublishFails, GatherDone, GatherTimeout, Finish
    <2> QED BY <1>3, <2>1, <2>2, <2>3 DEF SearcherStep
<1>4. CASE Dispatch
    <2>1. PICK x \in Results : x = Head(results)
        BY <1>4, Dispatches
    <2>2. Hand' \subseteq {x} /\ results # <<>> /\ results' = Tail(results) /\ UNCHANGED buffer
        BY <1>4, <2>1, Dispatches
    <2>3. In(results) = In(results') \cup {x}
        BY <2>1, <2>2, TailFacts DEF Types
    <2> QED BY <2>2, <2>3 DEF Trail
<1>5. CASE Send
    <2>1. PICK x \in Results : x = dispatcher.result
        BY <1>5, SendsOn
    <2>2. PICK b \in Attempts : b = dispatcher.to
        BY <1>5, SendsOn
    <2>3. /\ Hand = {x} /\ Hand' = {} /\ UNCHANGED results
          /\ buffer' = [buffer EXCEPT ![b] = Append(buffer[b], x)]
        BY <1>5, <2>1, <2>2, SendsOn
    <2>4. In(buffer'[a]) \subseteq In(buffer[a]) \cup {x}
        BY <2>3, AppendFacts DEF Types
    <2> QED BY <2>3, <2>4 DEF Trail
<1>6. ASSUME NEW b \in Attempts, NEW i \in 1..N[b[1]], GatewayStep(b, i) \/ Redeliver(b, i)
      PROVE  r \in Trail(a) \/ (r \in Results /\ jobs[r.from][r.index] \notin Answered)
    <2>1. CASE UNCHANGED results
        BY <1>1, <1>6, <2>1, JobGoesOn
    <2>2. CASE PublishResult(b, i)
        <3>1. PICK x \in Results : x.from = b /\ x.index = i /\ results' = Append(results, x)
            <4>1. PICK error \in BOOLEAN :
                    LET y == [request |-> Request[b[1]], from |-> b, index |-> i, error |-> error]
                    IN  /\ y \in Results /\ results' = Append(results, y)
                        /\ results' \in Seq(Results)
                BY <2>2, Answers
            <4> QED BY <4>1
        <3>2. In(results') = In(results) \cup {x}
            BY <3>1, AppendFacts DEF Types
        <3>3. UNCHANGED <<dispatcher, buffer>> /\ jobs[b][i] \notin Answered
            BY <2>2 DEF PublishResult, Answered
        <3> QED BY <3>1, <3>2, <3>3 DEF Trail, Hand
    <2> QED BY <1>6, <2>1, <2>2, JobGoesOn
<1>7. ASSUME NEW b \in Attempts, Deadline(b) PROVE r \in Trail(a)
    BY <1>1, <1>7 DEF Deadline
<1>8. CASE Reconnect
    BY <1>8 DEF Reconnect
<1>9. CASE UNCHANGED vars
    BY <1>1, <1>9 DEF vars
<1> QED BY <1>3, <1>4, <1>5, <1>6, <1>7, <1>8, <1>9 DEF Next, DispatcherStep

\* What the steps of s make of a quiet attempt of s, and the steps of others.
LEMMA QuietBefore ==
    ASSUME Types, NEW s \in Searchers, [Next]_vars, Quiet(s)', ~Register(s)
    PROVE  Quiet(s) /\ Current(s)' = Current(s)
<1>1. repeats = {}
    BY RepeatsGrow DEF Quiet
<1>2. searcher'[s].attempt = searcher[s].attempt
    <2>1. ASSUME NEW t \in Searchers, Register(t) \/ SearcherStep(t) \/ PublishFails(t)
          PROVE  searcher'[s].attempt = searcher[s].attempt
        <3>1. CASE t = s
            BY <2>1, <3>1, SearcherMoves
        <3>2. CASE t # s
            BY <2>1, <3>2, SearcherMoves
        <3> QED BY <3>1, <3>2
    <2>2. UNCHANGED searcher => searcher'[s].attempt = searcher[s].attempt
        OBVIOUS
    <2>3. ASSUME NEW a \in Attempts, Deadline(a) PROVE UNCHANGED searcher
        BY <2>3 DEF Deadline
    <2>4. CASE DispatcherStep \/ Reconnect \/ UNCHANGED vars
        BY <2>2, <2>4 DEF DispatcherStep, Dispatch, Send, Reconnect, vars
    <2> QED BY <2>1, <2>2, <2>3, <2>4, JobGoesOn DEF Next
<1> QED BY <1>1, <1>2 DEF Quiet, Alone, Current

\* What the steps leave of a quiet attempt's account.
LEMMA CollectedKept ==
    ASSUME Types, Published, [Next]_vars, repeats' = {},
           NEW s \in Searchers, Collected(s), searcher[s].attempt # 0,
           searcher'[s].got = searcher[s].got, searcher'[s].gathered = searcher[s].gathered,
           searcher'[s].attempt = searcher[s].attempt,
           searcher'[s].pc \in {"publish", "gather"} =>
               /\ searcher[s].pc \in {"publish", "gather"}
               /\ pending'[Request[s]] = pending[Request[s]],
           searcher'[s].pc = "gathered" =>
               searcher[s].pc = "gathered" \/ searcher[s].gathered = N[s]
    PROVE  Collected(s)'
<1>1. PICK a \in Attempts : a = Current(s) /\ a[1] = s
    BY CurrentAttempt
<1>2. Current(s)' = a
    BY <1>1 DEF Current
<1>3. Gathered(s)' = Gathered(s)
    BY DEF Gathered
<1>4. ASSUME NEW i \in Gathered(s)
      PROVE  /\ searcher'[s].got[i] = Vector(s, i)' /\ jobs'[a][i] \in Answered
             /\ \A r \in Trail(a)' : r.from = a => r.index # i
    <2>1. /\ searcher[s].got[i] = Vector(s, i) /\ jobs[a][i] \in Answered
          /\ \A r \in Trail(a) : r.from = a => r.index # i
        BY <1>1, <1>4 DEF Collected
    <2>2. Vector(s, i)' = Vector(s, i)
        BY <1>1, <1>2 DEF Vector
    <2>3. jobs'[a][i] \in Answered
        BY <1>1, <1>4, <2>1, AnswersStay DEF Gathered
    <2>4. ASSUME NEW r \in Trail(a)', r.from = a PROVE r.index # i
        <3>1. r \in Trail(a) \/ jobs[r.from][r.index] \notin Answered
            BY TrailSteps
        <3> QED BY <2>1, <2>4, <3>1
    <2> QED BY <2>1, <2>2, <2>3, <2>4
<1>5. searcher'[s].pc \in {"publish", "gather"} => pending'[Request[s]] = a
    BY <1>1 DEF Collected
<1>6. /\ Cardinality(Gathered(s)') = searcher'[s].gathered
      /\ searcher'[s].pc = "gathered" => searcher'[s].gathered = N[s]
    BY <1>3 DEF Collected
<1> QED BY <1>2, <1>3, <1>4, <1>5, <1>6 DEF Collected

\* A first attempt begins with nothing gathered.
LEMMA CollectedBegins ==
    ASSUME Types, NEW s \in Searchers, Register(s) PROVE Collected(s)'
<1>1. Gathered(s)' = {}
    BY Registers DEF Gathered
<1>2. /\ searcher'[s].gathered = 0 /\ searcher'[s].pc = "publish"
      /\ pending'[Request[s]] = Current(s)'
    BY Registers DEF Current
<1> QED BY <1>1, <1>2, FS_EmptySet DEF Collected

\* The gather loop takes a result of its own, the only one of its sub-query.
LEMMA CollectedGrows ==
    ASSUME Types, Owned, Once, OwnResults, [Next]_vars, NEW s \in Searchers, Quiet(s),
           Collected(s), GatherResult(s)
    PROVE  Collected(s)'
<1>1. PICK a \in Attempts : a = Current(s) /\ a[1] = s
    BY Gathers
<1>2. PICK r \in Results : r = Head(buffer[a])
    BY <1>1, Gathers
<1>3. /\ searcher[s].pc = "gather" /\ buffer[a] # <<>> /\ ~r.error
      /\ buffer' = [buffer EXCEPT ![a] = Tail(buffer[a])]
      /\ searcher'[s] = IF r.index \in 1..N[s] THEN Taken(s, r) ELSE searcher[s]
      /\ UNCHANGED <<pending, jobs, results, dispatcher>>
    BY <1>1, <1>2, Gathers
<1>4. /\ searcher[s] \in SearcherRecords /\ N[s] \in Nat
      /\ searcher[s].got \in [1..N[s] -> Results \cup {NoResult}]
      /\ searcher[s].gathered \in Nat
    BY Constants DEF Types, Fits
<1>5. a[2] = 1 /\ Alone(s) /\ repeats = {} /\ searcher[s].attempt # 0
    BY <1>1, <1>4 DEF Quiet, Current
<1>6. r \in In(buffer[a]) /\ In(buffer[a]) = In(buffer'[a]) \cup {r}
      /\ \A q \in In(buffer'[a]) : ~Same(r, q)
    BY <1>2, <1>3, <1>5, TailFacts DEF Types, Once, OnePlace
<1>7. r.from = a /\ Genuine(r) /\ r.request = Request[s]
    BY <1>1, <1>5, <1>6 DEF OwnResults, Owned, Traced
<1>8. r.index \in 1..N[s]
    BY <1>1, <1>7 DEF Genuine
<1>9. /\ searcher'[s].got = [searcher[s].got EXCEPT ![r.index] = r]
      /\ searcher'[s].gathered = searcher[s].gathered + 1
      /\ searcher'[s].pc = "gather" /\ searcher'[s].attempt = searcher[s].attempt
    BY <1>3, <1>4, <1>8 DEF Taken, SearcherRecords
<1>10. r # NoResult /\ r = Vector(s, r.index)
    <2>1. r.index # -1
        BY <1>8
    <2>2. r.error = FALSE
        BY <1>3 DEF Results
    <2> QED BY <1>1, <1>7, <2>1, <2>2 DEF NoResult, Vector, Results
<1>11. Gathered(s)' = Gathered(s) \cup {r.index}
    BY <1>4, <1>8, <1>9, <1>10 DEF Gathered
<1>12. /\ r.index \notin Gathered(s)
       /\ \A i \in Gathered(s) : /\ searcher[s].got[i] = Vector(s, i)
                                 /\ jobs[a][i] \in Answered
                                 /\ \A q \in Trail(a) : q.from = a => q.index # i
       /\ Cardinality(Gathered(s)) = searcher[s].gathered
    BY <1>1, <1>6, <1>7 DEF Collected, Trail
<1>13. Cardinality(Gathered(s)') = searcher'[s].gathered
    <2>1. IsFiniteSet(Gathered(s))
        <3>1. IsFiniteSet(1..N[s])
            BY <1>4, FS_Interval
        <3>2. Gathered(s) \in SUBSET (1..N[s])
            BY DEF Gathered
        <3> QED BY <3>1, <3>2, FS_Subset
    <2> QED BY <1>9, <1>11, <1>12, <2>1, FS_AddElement
<1>14. Current(s)' = a /\ \A i : Vector(s, i)' = Vector(s, i)
    BY <1>1, <1>9 DEF Current, Vector
<1>15. jobs'[a][r.index] \in Answered
    BY <1>3, <1>5, <1>6, <1>7 DEF Once, OnePlace
<1>16. ASSUME NEW q \in Trail(a)', q.from = a PROVE q.index # r.index
    <2>1. Hand' = Hand
        BY <1>3 DEF Hand
    <2>2. \A x \in In(results) \cup Hand : ~Same(r, x)
        BY <1>5, <1>6 DEF Once, OnePlace
    <2>3. ~Same(r, q)
        BY <1>3, <1>6, <2>1, <2>2 DEF Trail
    <2> QED BY <1>7, <1>16, <2>3 DEF Same
<1>17. Trail(a)' \subseteq Trail(a)
    BY <1>3, <1>6 DEF Trail, Hand
<1>18. ASSUME NEW i \in Gathered(s)'
       PROVE  /\ searcher'[s].got[i] = Vector(s, i) /\ jobs'[a][i] \in Answered
              /\ \A q \in Trail(a)' : q.from = a => q.index # i
    <2>1. CASE i = r.index
        BY <1>4, <1>8, <1>9, <1>10, <1>15, <1>16, <2>1
    <2>2. CASE i \in Gathered(s) /\ i # r.index
        <3>1. searcher'[s].got[i] = searcher[s].got[i]
            BY <1>4, <1>9, <2>2 DEF Gathered
        <3> QED BY <1>3, <1>12, <1>17, <2>2, <3>1
    <2> QED BY <1>11, <1>18, <2>1, <2>2
<1>19. pending'[Request[s]] = a
    BY <1>1, <1>3 DEF Collected
<1> QED BY <1>9, <1>13, <1>14, <1>18, <1>19 DEF Collected

LEMMA AllCollectedStep ==
    ASSUME Types, Owned, Once, OwnResults, AllCollected, [Next]_vars PROVE AllCollected'
<1> SUFFICES ASSUME NEW s \in Searchers, Quiet(s)' PROVE Collected(s)'
    BY DEF AllCollected
<1>1. CASE Register(s)
    BY <1>1, CollectedBegins
<1>2. CASE ~Register(s)
    <2>1. Quiet(s) /\ Collected(s) /\ repeats' = {} /\ Alone(s)
        BY <1>2, QuietBefore DEF AllCollected, Quiet
    <2>2. searcher[s].attempt # 0 /\ searcher[s] \in SearcherRecords /\ Published
        BY <2>1 DEF Quiet, Types, Owned
    <2>3. ASSUME NEW outcome \in {"gathered", "failed"}, Return(s, outcome),
                 searcher[s].pc # "idle",
                 outcome = "gathered" => searcher[s].gathered = N[s]
          PROVE  Collected(s)'
        <3> DEFINE x == [searcher[s] EXCEPT !.pc = outcome]
        <3>1. /\ x.got = searcher[s].got /\ x.gathered = searcher[s].gathered
              /\ x.attempt = searcher[s].attempt /\ x.pc = outcome
            BY <2>2 DEF SearcherRecords
        <3>2. searcher'[s] = x
            BY <2>3, Returns
        <3> HIDE DEF x
        <3> QED BY <2>1, <2>2, <2>3, <3>1, <3>2, CollectedKept
    <2>4. CASE PublishJob(s)
        <3>1. /\ Sent(s).got = searcher[s].got /\ Sent(s).gathered = searcher[s].gathered
              /\ Sent(s).attempt = searcher[s].attempt /\ Sent(s).pc # "gathered"
            BY <2>2, <2>4 DEF Sent, SearcherRecords, PublishJob
        <3>2. searcher'[s] = Sent(s) /\ searcher[s].pc = "publish" /\ UNCHANGED pending
            BY <2>4, Publishes DEF PublishJob
        <3> QED BY <2>1, <2>2, <3>1, <3>2, CollectedKept
    <2>5. CASE GatherResult(s)
        BY <2>1, <2>5, CollectedGrows
    <2>6. CASE PublishFails(s) \/ GatherError(s) \/ GatherDone(s) \/ GatherTimeout(s)
        BY <2>3, <2>6 DEF PublishFails, GatherError, GatherDone, GatherTimeout
    <2>7. CASE Finish(s)
        <3>1. searcher'[s] = [searcher[s] EXCEPT !.pc = "done"]
            BY <2>7 DEF Finish, Types
        <3>2. /\ searcher'[s].got = searcher[s].got /\ searcher'[s].pc = "done"
              /\ searcher'[s].gathered = searcher[s].gathered
              /\ searcher'[s].attempt = searcher[s].attempt
            BY <2>2, <3>1 DEF SearcherRecords
        <3> QED BY <2>1, <2>2, <3>2, CollectedKept
    <2>8. ASSUME searcher'[s] = searcher[s], pending'[Request[s]] = pending[Request[s]]
          PROVE  Collected(s)'
        BY <2>1, <2>2, <2>8, CollectedKept
    <2>9. ASSUME NEW t \in Searchers \ {s}, Register(t) \/ SearcherStep(t) \/ PublishFails(t)
          PROVE  Collected(s)'
        <3>1. searcher'[s] = searcher[s]
            BY <2>9, SearcherMoves
        <3>2. Request[s] \in RequestIds \ {Request[t]}
            BY <2>1, <2>9, Constants DEF Alone
        <3>3. pending'[Request[s]] = pending[Request[s]]
            <4>1. ASSUME NEW outcome \in {"gathered", "failed"}, Return(t, outcome)
                  PROVE  pending'[Request[s]] = pending[Request[s]]
                BY <3>2, <4>1 DEF Return, Types
            <4>2. CASE Register(t)
                BY <3>2, <4>2, Registers
            <4>3. CASE PublishJob(t) \/ GatherResult(t) \/ Finish(t)
                BY <4>3, Gathers DEF PublishJob, Finish
            <4>4. CASE PublishFails(t) \/ GatherError(t) \/ GatherDone(t) \/ GatherTimeout(t)
                BY <4>1, <4>4 DEF PublishFails, GatherError, GatherDone, GatherTimeout
            <4> QED BY <2>9, <4>2, <4>3, <4>4 DEF SearcherStep
        <3> QED BY <2>8, <3>1, <3>3
    <2>10. ASSUME NEW a \in Attempts, Deadline(a) PROVE Collected(s)'
        BY <2>8, <2>10 DEF Deadline
    <2>11. CASE DispatcherStep \/ Reconnect \/ UNCHANGED vars
        BY <2>8, <2>11 DEF DispatcherStep, Dispatch, Send, Reconnect, vars
    <2>12. CASE SearcherStep(s) \/ PublishFails(s)
        BY <2>4, <2>5, <2>6, <2>7, <2>12 DEF SearcherStep
    <2>13. ASSUME NEW a \in Attempts, NEW i \in 1..N[a[1]], GatewayStep(a, i) \/ Redeliver(a, i)
           PROVE  Collected(s)'
        BY <2>8, <2>13, JobGoesOn
    <2>14. ASSUME NEW t \in Searchers, Register(t) \/ SearcherStep(t) \/ PublishFails(t)
           PROVE  Collected(s)'
        BY <1>2, <2>9, <2>12, <2>14
    <2> QED BY <2>10, <2>11, <2>13, <2>14 DEF Next
<1> QED BY <1>1, <1>2

-------------------------------------------------------------------------------
(* Nothing an undisturbed attempt asked for is lost *)

Under(r, a, i) == r.from = a /\ r.index = i

\* On its way, in terms of what the queues hold.
LEMMA TravelsIn ==
    ASSUME NEW a, NEW i
    PROVE  Travels(a, i) <=>
             \/ \E r \in In(results) : Under(r, a, i)
             \/ dispatcher.to = a /\ \E r \in Hand : Under(r, a, i)
             \/ \E r \in In(buffer[a]) : Under(r, a, i)
    BY DEF Travels, In, Hand, Under

\* What answers a sub-query is a result.
LEMMA IndexedResult ==
    ASSUME NEW r, NEW s \in Searchers, r.index \in 1..N[s] PROVE r # NoResult
<1>1. r.index # -1
    BY Constants
<1> QED BY <1>1 DEF NoResult

\* A job that waits or is held goes on, or is answered.
LEMMA JobKnown ==
    ASSUME Types, [Next]_vars, NEW s \in Searchers, NEW a \in Attempts, a \notin late,
           NEW i \in 1..N[a[1]], jobs[a][i] \in {"queued", "held"}
    PROVE  Known(s, a, i)'
<1>1. jobs'[a][i] \in {"queued", "held"} => Known(s, a, i)'
    BY DEF Known
<1>2. ASSUME NEW b \in Attempts, NEW k \in 1..N[b[1]], NEW state \in {"queued", "held"},
             jobs' = [jobs EXCEPT ![b][k] = state]
      PROVE  Known(s, a, i)'
    <2>1. /\ \A c \in Attempts \ {b} : jobs'[c] = jobs[c]
          /\ jobs'[b] = [jobs[b] EXCEPT ![k] = state]
          /\ jobs[b] \in [1..N[b[1]] -> JobStates]
        BY <1>2, JobMoves DEF Types, JobStates
    <2> QED BY <1>1, <2>1
<1>3. ASSUME NEW t \in Searchers, Register(t) \/ SearcherStep(t) \/ PublishFails(t)
      PROVE  Known(s, a, i)'
    <2>1. CASE UNCHANGED jobs
        BY <1>1, <2>1
    <2>2. CASE /\ searcher[t].pc = "publish"
               /\ jobs' = [jobs EXCEPT ![Current(t)][searcher[t].next] = "queued"]
        <3>1. Current(t) \in Attempts /\ Current(t)[1] = t
            BY <2>2, CurrentAttempt DEF Types, Fits
        <3>2. searcher[t].next \in 1..N[t]
            BY <2>2, Constants DEF Types, Fits
        <3> QED BY <1>2, <2>2, <3>1, <3>2
    <2> QED BY <1>3, <2>1, <2>2 DEF Register, SearcherStep, PublishJob, PublishFails,
               GatherResult, GatherError, GatherDone, GatherTimeout, Finish
<1>4. ASSUME NEW b \in Attempts, NEW k \in 1..N[b[1]], GatewayStep(b, k) \/ Redeliver(b, k)
      PROVE  Known(s, a, i)'
    <2>1. CASE a = b /\ i = k
        <3>1. CASE PublishResult(b, k)
            <4>1. PICK x \in Results : x.from = b /\ x.index = k /\ results' = Append(results, x)
                <5>1. PICK error \in BOOLEAN :
                        LET y == [request |-> Request[b[1]], from |-> b, index |-> k,
                                  error |-> error]
                        IN  /\ y \in Results /\ results' = Append(results, y)
                            /\ results' \in Seq(Results)
                    BY <3>1, Answers
                <5> QED BY <5>1
            <4>2. x \in In(results')
                BY <4>1, AppendFacts DEF Types
            <4>3. Travels(a, i)'
                BY <2>1, <4>1, <4>2 DEF Travels, In
            <4> QED BY <4>3 DEF Known
        <3>2. CASE TakeJob(b, k) \/ Redeliver(b, k)
            BY <1>2, <3>2 DEF TakeJob, Redeliver
        <3> QED BY <1>4, <2>1, <3>1, <3>2 DEF GatewayStep, DropExpired, AckJob
    <2>2. CASE ~(a = b /\ i = k)
        <3>1. PICK state \in JobStates : jobs' = [jobs EXCEPT ![b][k] = state]
            BY <1>4, JobGoesOn
        <3>2. /\ \A c \in Attempts \ {b} : jobs'[c] = jobs[c]
              /\ jobs'[b] = [jobs[b] EXCEPT ![k] = state]
              /\ jobs[b] \in [1..N[b[1]] -> JobStates]
            BY <3>1, JobMoves DEF Types
        <3>3. jobs'[a][i] = jobs[a][i]
            BY <2>2, <3>2
        <3> QED BY <1>1, <3>3
    <2> QED BY <2>1, <2>2
<1>5. ASSUME NEW b \in Attempts, Deadline(b) PROVE UNCHANGED jobs
    BY <1>5 DEF Deadline
<1>6. CASE DispatcherStep \/ Reconnect \/ UNCHANGED vars
    BY <1>1, <1>6 DEF DispatcherStep, Dispatch, Send, Reconnect, vars
<1> QED BY <1>1, <1>3, <1>4, <1>5, <1>6 DEF Next

\* A result on its way gets on, or is gathered.
LEMMA ResultKnown ==
    ASSUME Types, Owned, [Next]_vars, repeats' = {}, NEW s \in Searchers, NEW a \in Attempts,
           a = Current(s), a[1] = s, pending[Request[s]] = a,
           searcher'[s].pc \in {"publish", "gather"}, ~Register(s),
           NEW i \in 1..N[s], Travels(a, i)
    PROVE  Known(s, a, i)'
<1> DEFINE OnTopic == \E r \in In(results) : Under(r, a, i)
           InHand == dispatcher.to = a /\ \E r \in Hand : Under(r, a, i)
           InBuffer == \E r \in In(buffer[a]) : Under(r, a, i)
<1>1. (OnTopic \/ InHand \/ InBuffer)' => Known(s, a, i)'
    BY TravelsIn DEF Known, Travels, In, Hand, Under
<1>2. OnTopic \/ InHand \/ InBuffer
    BY TravelsIn
<1>3. ASSUME UNCHANGED dispatcher, In(results) \subseteq In(results'),
             In(buffer[a]) \subseteq In(buffer'[a])
      PROVE  Known(s, a, i)'
    <2>1. Hand' = Hand
        BY <1>3 DEF Hand
    <2>2. (OnTopic \/ InHand \/ InBuffer)'
        BY <1>2, <1>3, <2>1
    <2> QED BY <1>1, <2>2
<1>4. ASSUME NEW t \in Searchers, Register(t) \/ SearcherStep(t) \/ PublishFails(t)
      PROVE  Known(s, a, i)'
    <2>1. CASE UNCHANGED <<buffer, results, dispatcher>>
        BY <1>3, <2>1
    <2>2. ASSUME t # s, buffer[Current(t)] # <<>>, Current(t) \in Attempts,
                 buffer' = [buffer EXCEPT ![Current(t)] = Tail(buffer[Current(t)])],
                 UNCHANGED <<results, dispatcher>>
          PROVE  Known(s, a, i)'
        <3>1. Current(t) # a
            BY <2>2 DEF Current
        <3>2. buffer'[a] = buffer[a]
            BY <2>2, <3>1 DEF Types
        <3> QED BY <1>3, <2>2, <3>2
    <2>3. CASE GatherResult(t) /\ t # s
        BY <2>2, <2>3, Gathers
    <2>4. CASE GatherError(t)
        <3>1. t # s
            <4>1. GatherError(s) => searcher'[s].pc = "failed"
                BY Returns DEF GatherError, Return, Types, SearcherRecords
            <4> QED BY <2>4, <4>1
        <3>2. Current(t) \in Attempts
            BY <2>4, CurrentAttempt DEF GatherError, Types, Fits
        <3> QED BY <2>2, <2>4, <3>1, <3>2 DEF GatherError
    <2>5. CASE GatherResult(t) /\ t = s
        <3>1. PICK r \in Results : r = Head(buffer[a])
            BY <2>5, Gathers
        <3>2. /\ buffer[a] # <<>> /\ buffer' = [buffer EXCEPT ![a] = Tail(buffer[a])]
              /\ searcher'[s] = IF r.index \in 1..N[s] THEN Taken(s, r) ELSE searcher[s]
              /\ UNCHANGED <<results, dispatcher>>
            BY <2>5, <3>1, Gathers
        <3>3. In(buffer[a]) = In(buffer'[a]) \cup {r}
            BY <3>1, <3>2, TailFacts DEF Types
        <3>4. Hand' = Hand
            BY <3>2 DEF Hand
        <3>5. (OnTopic \/ InHand \/ InBuffer)' \/ Under(r, a, i)
            BY <1>2, <3>2, <3>3, <3>4
        <3>6. ASSUME Under(r, a, i) PROVE i \in Gathered(s)'
            <4>1. /\ searcher[s] \in SearcherRecords
                  /\ searcher[s].got \in [1..N[s] -> Results \cup {NoResult}]
                BY DEF Types, Fits
            <4>2. searcher'[s].got = [searcher[s].got EXCEPT ![i] = r]
                BY <3>2, <3>6, <4>1 DEF Under, Taken, SearcherRecords
            <4>3. searcher'[s].got[i] = r
                BY <4>1, <4>2
            <4>4. r # NoResult
                BY <3>6, IndexedResult DEF Under
            <4> QED BY <4>3, <4>4 DEF Gathered
        <3> QED BY <1>1, <3>5, <3>6 DEF Known
    <2> QED BY <1>4, <2>1, <2>3, <2>4, <2>5 DEF SearcherStep, Register, PublishJob,
               PublishFails, GatherDone, GatherTimeout, Finish
<1>5. ASSUME NEW b \in Attempts, NEW k \in 1..N[b[1]], GatewayStep(b, k) \/ Redeliver(b, k)
      PROVE  Known(s, a, i)'
    <2>1. UNCHANGED <<dispatcher, buffer>>
        BY <1>5, JobGoesOn
    <2>2. In(results) \subseteq In(results')
        <3>1. CASE UNCHANGED results
            BY <3>1
        <3>2. CASE PublishResult(b, k)
            BY <3>2, Answers, AppendFacts, ZenonT(60) DEF Types
        <3> QED BY <1>5, <3>1, <3>2, JobGoesOn
    <2> QED BY <1>3, <2>1, <2>2
\* A result of the attempt finds the attempt registered.
<1>6. CASE Dispatch
    <2>1. PICK r \in Results : r = Head(results)
        BY <1>6, Dispatches
    <2>2. /\ pending[r.request] = None => UNCHANGED dispatcher
          /\ pending[r.request] # None => Hand' = {r} /\ dispatcher'.to = pending[r.request]
          /\ results # <<>> /\ results' = Tail(results) /\ UNCHANGED buffer /\ Hand = {}
        BY <1>6, <2>1, Dispatches
    <2>3. In(results) = In(results') \cup {r}
        BY <2>1, <2>2, TailFacts DEF Types
    <2>4. ASSUME Under(r, a, i) PROVE Hand' = {r} /\ dispatcher'.to = a
        <3>1. r.request = Request[s]
            BY <2>3, <2>4 DEF Under, Owned, Traced, Genuine
        <3> QED BY <2>2, <3>1, Constants
    <2>5. (OnTopic \/ InHand \/ InBuffer)'
        BY <1>2, <2>2, <2>3, <2>4
    <2> QED BY <1>1, <2>5
<1>7. CASE Send
    <2>1. PICK r \in Results : r = dispatcher.result
        BY <1>7, SendsOn
    <2>2. PICK b \in Attempts : b = dispatcher.to
        BY <1>7, SendsOn
    <2>3. /\ Hand = {r} /\ UNCHANGED results
          /\ buffer' = [buffer EXCEPT ![b] = Append(buffer[b], r)]
        BY <1>7, <2>1, <2>2, SendsOn
    <2>4. /\ In(buffer'[b]) = In(buffer[b]) \cup {r}
          /\ \A c \in Attempts \ {b} : buffer'[c] = buffer[c]
        BY <2>3, AppendFacts DEF Types
    <2>5. (OnTopic \/ InHand \/ InBuffer)'
        BY <1>2, <2>2, <2>3, <2>4
    <2> QED BY <1>1, <2>5
<1>8. CASE Reconnect
    BY <1>8 DEF Reconnect
<1>9. ASSUME NEW b \in Attempts, Deadline(b) PROVE Known(s, a, i)'
    BY <1>3, <1>9 DEF Deadline
<1>10. CASE UNCHANGED vars
    BY <1>3, <1>10 DEF vars
<1> QED BY <1>4, <1>5, <1>6, <1>7, <1>8, <1>9, <1>10 DEF Next, DispatcherStep

\* A search that still reads was reading, and only its own steps publish and gather.
LEMMA ReadsOn ==
    ASSUME Types, [Next]_vars, NEW s \in Searchers, ~Register(s),
           searcher'[s].pc \in {"publish", "gather"}
    PROVE  /\ searcher[s].pc \in {"publish", "gather"}
           /\ searcher'[s].next = searcher[s].next \/ PublishJob(s)
           /\ searcher'[s].got = searcher[s].got \/ GatherResult(s)
<1>1. searcher[s] \in SearcherRecords
    BY DEF Types
<1>2. ASSUME searcher'[s] = searcher[s]
      PROVE  /\ searcher[s].pc \in {"publish", "gather"}
             /\ searcher'[s].next = searcher[s].next /\ searcher'[s].got = searcher[s].got
    BY <1>2
<1>3. CASE PublishJob(s)
    <2>1. searcher'[s] = Sent(s) /\ searcher[s].pc = "publish"
        BY <1>3, Publishes DEF PublishJob
    <2>2. Sent(s).got = searcher[s].got
        BY <1>1 DEF Sent, SearcherRecords
    <2> QED BY <1>3, <2>1, <2>2
<1>4. CASE GatherResult(s)
    <2>1. PICK r : r = Head(buffer[Current(s)])
        OBVIOUS
    <2>2. /\ searcher[s].pc = "gather"
          /\ searcher'[s] = Taken(s, r) \/ searcher'[s] = searcher[s]
        BY <1>4, <2>1, Gathers
    <2>3. Taken(s, r).next = searcher[s].next
        BY <1>1 DEF Taken, SearcherRecords
    <2> QED BY <1>4, <2>2, <2>3
<1>5. ASSUME NEW outcome \in {"gathered", "failed", "done"},
             searcher' = [searcher EXCEPT ![s].pc = outcome]
      PROVE  FALSE
    <2>1. searcher'[s].pc = outcome
        BY <1>1, <1>5 DEF Types, SearcherRecords
    <2> QED BY <2>1
<1>6. ~PublishFails(s) /\ ~GatherError(s) /\ ~GatherDone(s) /\ ~GatherTimeout(s) /\ ~Finish(s)
    BY <1>5 DEF PublishFails, GatherError, GatherDone, GatherTimeout, Finish, Return
<1>7. ASSUME NEW t \in Searchers, Register(t) \/ SearcherStep(t) \/ PublishFails(t)
      PROVE  \/ searcher'[s] = searcher[s]
             \/ PublishJob(s)
             \/ GatherResult(s)
    <2>1. CASE t = s
        BY <1>6, <1>7, <2>1 DEF SearcherStep
    <2>2. CASE t # s
        BY <1>7, <2>2, SearcherMoves
    <2> QED BY <2>1, <2>2
<1>8. ASSUME NEW a \in Attempts, Deadline(a) PROVE UNCHANGED searcher
    BY <1>8 DEF Deadline
<1>9. CASE DispatcherStep \/ Reconnect \/ UNCHANGED vars
    BY <1>2, <1>9 DEF DispatcherStep, Dispatch, Send, Reconnect, vars
<1> QED BY <1>2, <1>3, <1>4, <1>7, <1>8, <1>9, JobGoesOn DEF Next

\* What is gathered stays gathered while the attempt goes on.
LEMMA GatheredStays ==
    ASSUME Types, NEW s \in Searchers, NEW i \in Gathered(s),
           searcher'[s].got = searcher[s].got \/ GatherResult(s)
    PROVE  i \in Gathered(s)'
<1>1. CASE searcher'[s].got = searcher[s].got
    BY <1>1 DEF Gathered
<1>2. CASE GatherResult(s)
    <2>1. PICK r : r = Head(buffer[Current(s)])
        OBVIOUS
    <2>2. searcher'[s] = IF r.index \in 1..N[s] THEN Taken(s, r) ELSE searcher[s]
        BY <1>2, <2>1, Gathers
    <2>3. /\ searcher[s] \in SearcherRecords
          /\ searcher[s].got \in [1..N[s] -> Results \cup {NoResult}]
        BY DEF Types, Fits
    <2>4. i \in 1..N[s] /\ searcher[s].got[i] # NoResult
        BY DEF Gathered
    <2>5. CASE r.index \in 1..N[s]
        <3>1. searcher'[s].got = [searcher[s].got EXCEPT ![r.index] = r]
            BY <2>2, <2>3, <2>5 DEF Taken, SearcherRecords
        <3>2. r # NoResult
            BY <2>5, IndexedResult
        <3>3. searcher'[s].got[i] # NoResult
            BY <2>3, <2>4, <3>1, <3>2
        <3> QED BY <2>4, <3>3 DEF Gathered
    <2>6. CASE r.index \notin 1..N[s]
        BY <2>2, <2>4, <2>6 DEF Gathered
    <2> QED BY <2>5, <2>6
<1> QED BY <1>1, <1>2

LEMMA NoneLostStep ==
    ASSUME Types, Owned, AllCollected, NoneLost, [Next]_vars PROVE NoneLost'
<1> SUFFICES ASSUME NEW s \in Searchers, Quiet(s)', searcher'[s].pc \in {"publish", "gather"},
                    Current(s)' \notin late', NEW i \in 1..(searcher'[s].next - 1)
             PROVE  Known(s, Current(s), i)'
    BY DEF NoneLost
<1>1. ~Register(s)
    <2>1. Register(s) => searcher'[s].next = 1
        BY Registers
    <2> QED BY <2>1
<1>2. Quiet(s) /\ Current(s)' = Current(s)
    BY <1>1, QuietBefore
<1>3. /\ searcher[s].pc \in {"publish", "gather"}
      /\ searcher'[s].next = searcher[s].next \/ PublishJob(s)
      /\ searcher'[s].got = searcher[s].got \/ GatherResult(s)
    BY <1>1, ReadsOn
<1>4. PICK a \in Attempts : a = Current(s) /\ a[1] = s
    BY <1>2, CurrentAttempt DEF Quiet
<1>5. late \subseteq late'
    BY JobGoesOn DEF Next, Register, SearcherStep, PublishJob, GatherResult, GatherError,
       GatherDone, GatherTimeout, Finish, PublishFails, Deadline, DispatcherStep, Dispatch, Send,
       Reconnect, GatewayStep, TakeJob, DropExpired, PublishResult, AckJob, Redeliver, vars
<1>6. a \notin late /\ pending[Request[s]] = a /\ repeats' = {}
    BY <1>2, <1>3, <1>4, <1>5 DEF AllCollected, Collected, Quiet
<1>7. i \in 1..N[s] /\ searcher[s].next \in Nat /\ searcher'[s].next \in Nat
    <2>1. Fits(s, searcher[s]) /\ Fits(s, searcher'[s])
        BY TypesStep DEF Types
    <2> QED BY <2>1, Constants, SMTT(30) DEF Fits
<1>8. CASE i \in 1..(searcher[s].next - 1)
    <2>1. Known(s, a, i)
        BY <1>2, <1>3, <1>4, <1>6, <1>8 DEF NoneLost
    <2>2. CASE jobs[a][i] \in {"queued", "held"}
        BY <1>2, <1>4, <1>6, <1>7, <2>2, JobKnown
    <2>3. CASE Travels(a, i)
        BY <1>1, <1>2, <1>4, <1>6, <1>7, <2>3, ResultKnown
    <2>4. CASE i \in Gathered(s)
        BY <1>3, <2>4, GatheredStays DEF Known
    <2> QED BY <2>1, <2>2, <2>3, <2>4 DEF Known
<1>9. CASE i \notin 1..(searcher[s].next - 1)
    <2>1. PublishJob(s)
        BY <1>3, <1>9
    <2>2. searcher'[s].next = searcher[s].next + 1
        <3>1. searcher[s] \in SearcherRecords
            BY DEF Types
        <3> QED BY <2>1, <3>1, Publishes DEF Sent, SearcherRecords
    <2>3. i = searcher[s].next
        BY <1>7, <1>9, <2>2
    <2>4. jobs' = [jobs EXCEPT ![a][i] = "queued"]
        BY <1>4, <2>1, <2>3 DEF PublishJob
    <2>5. jobs'[a][i] = "queued"
        <3>1. a \in Attempts
            BY <1>2, <1>4, CurrentAttempt DEF Quiet
        <3>2. jobs'[a] = [jobs[a] EXCEPT ![i] = "queued"]
            BY <1>4, <1>7, <2>4, <3>1, JobMoves DEF JobStates
        <3> QED BY <1>4, <1>7, <3>1, <3>2 DEF Types
    <2> QED BY <1>2, <1>4, <2>5 DEF Known
<1> QED BY <1>8, <1>9

-------------------------------------------------------------------------------
(* The theorems *)

LEMMA InitHolds == Init => IInv
<1> SUFFICES ASSUME Init PROVE IInv
    OBVIOUS
<1>1. Types
    BY InitTypes
<1>2. /\ \A s \in Searchers : searcher[s].pc = "idle" /\ searcher[s].attempt = 0
      /\ \A q \in RequestIds : pending[q] = None
      /\ \A a \in Attempts : \A i \in 1..N[a[1]] : jobs[a][i] = "none"
      /\ \A a \in Attempts : buffer[a] = <<>>
      /\ results = <<>> /\ Hand = {}
    BY Constants DEF Init, Hand, Receiving
<1>3. Owned
    BY <1>2, EmptyQueue DEF Owned, Registered, Published, Traced
<1>4. Once
    BY <1>2, EmptyQueue DEF Once, OnePlace
<1>5. OwnResults
    BY <1>2, EmptyQueue DEF OwnResults
<1>6. AllCollected /\ NoneLost
    BY <1>2 DEF AllCollected, NoneLost, Quiet
<1> QED BY <1>1, <1>3, <1>4, <1>5, <1>6 DEF IInv

LEMMA IInvHolds == Spec => []IInv
<1>1. IInv /\ [Next]_vars => IInv'
    BY TypesStep, RegisteredStep, PublishedStep, TracedStep, OnceStep, OwnResultsStep,
       AllCollectedStep, NoneLostStep DEF IInv, Owned
<1> QED BY InitHolds, <1>1, PTL DEF Spec

\* An attempt nothing is or can be in the way of, in its searcher's terms.
LEMMA UndisturbedIsQuiet ==
    ASSUME Types, NEW s \in Searchers, Undisturbed(Current(s)) PROVE Quiet(s)
    BY DEF Undisturbed, Quiet, Alone, Current, Types

\* The dispatcher waits for a full channel that nobody reads only when a job was
\* answered twice or a request id was used again: otherwise the channel has a slot
\* for everything that can come.
THEOREM StuckOnlyIfDisturbedAlways == Spec => []StuckOnlyIfDisturbed
<1>1. IInv => StuckOnlyIfDisturbed
    BY NeverOverfull DEF IInv, StuckOnlyIfDisturbed
<1> QED BY <1>1, IInvHolds, PTL

\* embedFanout returns what it counted: as many results as sub-queries, and of an
\* undisturbed attempt these are the vectors of all of them, each in its place.
THEOREM GatheredExactlyAlways == Spec => []GatheredExactly
<1>1. ASSUME IInv PROVE GatheredExactly
    <2> SUFFICES ASSUME NEW s \in Searchers, searcher[s].pc = "gathered",
                        Undisturbed(Current(s)), NEW i \in 1..N[s]
                 PROVE  searcher[s].got[i] = Vector(s, i)
        BY DEF GatheredExactly, Vector
    <2>1. Collected(s)
        BY <1>1, UndisturbedIsQuiet DEF IInv, AllCollected
    <2>2. Cardinality(Gathered(s)) = N[s] /\ N[s] \in Nat
        BY <2>1, Constants DEF Collected
    <2>3. IsFiniteSet(1..N[s]) /\ Cardinality(1..N[s]) = N[s]
        <3>1. PICK n \in Nat : n = N[s]
            BY <2>2
        <3>2. IsFiniteSet(1..n) /\ Cardinality(1..n) = n
            BY FS_Interval
        <3> QED BY <3>1, <3>2
    <2>4. Gathered(s) \in SUBSET (1..N[s])
        BY DEF Gathered
    <2>5. Gathered(s) = 1..N[s]
        BY <2>2, <2>3, <2>4, FS_Subset
    <2> QED BY <2>1, <2>5 DEF Collected
<1> QED BY <1>1, IInvHolds, PTL

\* No result is lost between the gateways and an undisturbed gather loop: until the
\* deadline each sub-query is with a gateway, on its way or gathered.
THEOREM NoResultLostAlways == Spec => []NoResultLost
<1>1. ASSUME IInv PROVE NoResultLost
    <2> SUFFICES ASSUME NEW s \in Searchers, searcher[s].pc = "gather",
                        Undisturbed(Current(s)), Current(s) \notin late, NEW i \in 1..N[s]
                 PROVE  \/ jobs[Current(s)][i] \in {"queued", "held"}
                        \/ Travels(Current(s), i)
                        \/ searcher[s].got[i] # NoResult
        BY DEF NoResultLost
    <2>1. searcher[s].next = N[s] + 1 /\ N[s] \in Nat
        BY <1>1, Constants DEF IInv, Types, Fits
    <2>2. i \in 1..(searcher[s].next - 1)
        BY <2>1
    <2>3. Known(s, Current(s), i)
        BY <1>1, <2>2, UndisturbedIsQuiet DEF IInv, NoneLost
    <2> QED BY <2>3 DEF Known, Gathered
<1> QED BY <1>1, IInvHolds, PTL

===============================================================================
