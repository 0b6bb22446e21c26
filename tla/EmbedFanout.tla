------------------------------ MODULE EmbedFanout ------------------------------
(***************************************************************************)
(* The embedding fan-out of one rag-worker pod.  A search goroutine runs   *)
(* embedFanout once per attempt (an embedding model, or a retry after      *)
(* hydration): it registers a channel under the REQUEST's id, publishes    *)
(* one job per sub-query and gathers as many results.  The embed-gateways  *)
(* take the jobs from a shared topic and publish the results to the pod's  *)
(* own topic, where a single ResultDispatcher reads them one by one and    *)
(* hands each to the channel registered under its request id.              *)
(*                                                                         *)
(* An attempt is <<searcher, k>>; a result carries the attempt whose job   *)
(* it answers, which no handler reads: it stands for the model and the     *)
(* text that was embedded.  Two searchers may have one request id: a       *)
(* redelivered or forked stage message that reaches the same pod.  A crash *)
(* of the pod takes all of this state with it and is left out.             *)
(***************************************************************************)
EXTENDS Integers, Sequences, FiniteSets

CONSTANTS
    Searchers,     \* bound: goroutines of the pod in handleSearch
    Request,       \* the request id of each
    N,             \* the number of sub-queries of each
    MaxAttempts,   \* bound: calls of embedFanout by one searcher
    MaxFaults      \* bound: redelivered jobs, model errors, failed publishes

ASSUME EmbedFanoutAssumption ==
    /\ Searchers # {} /\ IsFiniteSet(Searchers)
    /\ N \in [Searchers -> Nat \ {0}]
    /\ MaxAttempts \in Nat \ {0} /\ MaxFaults \in Nat
    /\ DOMAIN Request = Searchers

VARIABLES
    searcher,     \* the goroutines
    pending,      \* ResultDispatcher.pending: by request id, an attempt or None
    buffer,       \* the channels, by attempt
    jobs,         \* the jobs, by attempt and sub-query
    results,      \* the pod's result topic, not yet received
    dispatcher,   \* the dispatcher's loop
    late,         \* attempts whose deadline has passed
    repeats,      \* attempts of which some job was delivered again
    faults

vars == <<searcher, pending, buffer, jobs, results, dispatcher, late, repeats, faults>>

Attempts == Searchers \X (1..MaxAttempts)
RequestIds == {Request[s] : s \in Searchers}
None == <<>>

Results == [request : RequestIds, from : Attempts, index : Nat, error : BOOLEAN]
NoResult == [index |-> -1]

Current(s) == <<s, searcher[s].attempt>>

\* Mutant: one slot too few.
MutOneSlotLess(a) == N[a[1]] - 1

\* A channel has a slot for each job of its attempt.
Capacity(a) == N[a[1]]

\* idle: before an attempt or between two; gathered: embedFanout has returned
\* vectors; failed: it returned an error and the serial path was taken.
SearcherPhases == {"idle", "publish", "gather", "gathered", "failed", "done"}

TypeOK ==
    /\ \A s \in Searchers :
        /\ searcher[s].pc \in SearcherPhases
        /\ searcher[s].attempt \in 0..MaxAttempts
        /\ searcher[s].next \in 1..(N[s] + 1)
        /\ searcher[s].gathered \in 0..N[s]
        /\ \A i \in 1..N[s] : searcher[s].got[i] \in Results \cup {NoResult}
    /\ \A r \in RequestIds : pending[r] \in Attempts \cup {None}
    /\ \A a \in Attempts : /\ buffer[a] \in Seq(Results) /\ Len(buffer[a]) <= Capacity(a)
                           /\ \A i \in 1..N[a[1]] :
                                jobs[a][i] \in {"none", "queued", "held", "answered", "gone"}
    /\ results \in Seq(Results)
    /\ dispatcher.pc \in {"receive", "send"}
    /\ late \subseteq Attempts /\ repeats \subseteq Attempts /\ faults \in 0..MaxFaults

Receiving == [pc |-> "receive"]

Init ==
    /\ searcher = [s \in Searchers |->
         [pc |-> "idle", attempt |-> 0, next |-> 1, gathered |-> 0,
          got |-> [i \in 1..N[s] |-> NoResult]]]
    /\ pending = [r \in RequestIds |-> None]
    /\ buffer = [a \in Attempts |-> <<>>]
    /\ jobs = [a \in Attempts |-> [i \in 1..N[a[1]] |-> "none"]]
    /\ results = <<>>
    /\ dispatcher = Receiving
    /\ late = {} /\ repeats = {} /\ faults = 0

Fault == faults < MaxFaults /\ faults' = faults + 1

-------------------------------------------------------------------------------
(* embedFanout *)

\* Register: a fresh channel replaces what the request id had.
Register(s) ==
    /\ searcher[s].pc \in {"idle", "gathered", "failed"}
    /\ searcher[s].attempt < MaxAttempts
    /\ searcher' = [searcher EXCEPT ![s] =
         [pc |-> "publish", attempt |-> @.attempt + 1, next |-> 1, gathered |-> 0,
          got |-> [i \in 1..N[s] |-> NoResult]]]
    /\ pending' = [pending EXCEPT ![Request[s]] = <<s, searcher[s].attempt + 1>>]
    /\ UNCHANGED <<buffer, jobs, results, dispatcher, late, repeats, faults>>

PublishJob(s) ==
    /\ searcher[s].pc = "publish"
    /\ jobs' = [jobs EXCEPT ![Current(s)][searcher[s].next] = "queued"]
    /\ searcher' = [searcher EXCEPT ![s].next = @ + 1,
                                    ![s].pc = IF searcher[s].next = N[s] THEN "gather" ELSE @]
    /\ UNCHANGED <<pending, buffer, results, dispatcher, late, repeats, faults>>

\* The deferred Deregister takes away whatever is registered under the id.
Return(s, outcome) ==
    /\ searcher' = [searcher EXCEPT ![s].pc = outcome]
    /\ pending' = [pending EXCEPT ![Request[s]] = None]

\* The job may be stored all the same.
PublishFails(s) ==
    /\ searcher[s].pc = "publish"
    /\ Return(s, "failed") /\ Fault
    /\ \/ UNCHANGED jobs
       \/ jobs' = [jobs EXCEPT ![Current(s)][searcher[s].next] = "queued"]
    /\ UNCHANGED <<buffer, results, dispatcher, late, repeats>>

\* Mutant: the error field is not looked at.
MutIgnoreError(s) ==
    LET a == Current(s)
        r == Head(buffer[a])
    IN  /\ searcher[s].pc = "gather" /\ buffer[a] # <<>>
        /\ searcher[s].gathered < N[s]
        /\ buffer' = [buffer EXCEPT ![a] = Tail(@)]
        /\ searcher' = IF r.index \in 1..N[s]
             THEN [searcher EXCEPT ![s].gathered = @ + 1, ![s].got[r.index] = r]
             ELSE searcher
        /\ UNCHANGED <<pending, jobs, results, dispatcher, late, repeats, faults>>

\* Mutant: the loop asks for one result more.
MutGatherMore(s) ==
    LET a == Current(s)
        r == Head(buffer[a])
    IN  /\ searcher[s].pc = "gather" /\ buffer[a] # <<>> /\ ~r.error
        /\ buffer' = [buffer EXCEPT ![a] = Tail(@)]
        /\ searcher' = IF r.index \in 1..N[s]
             THEN [searcher EXCEPT ![s].gathered = @ + 1, ![s].got[r.index] = r]
             ELSE searcher
        /\ UNCHANGED <<pending, jobs, results, dispatcher, late, repeats, faults>>

\* A vector for one of the sub-queries, or an index out of range, which is
\* skipped.
GatherResult(s) ==
    LET a == Current(s)
        r == Head(buffer[a])
    IN  /\ searcher[s].pc = "gather" /\ buffer[a] # <<>> /\ ~r.error
        /\ searcher[s].gathered < N[s]
        /\ buffer' = [buffer EXCEPT ![a] = Tail(@)]
        /\ searcher' = IF r.index \in 1..N[s]
             THEN [searcher EXCEPT ![s].gathered = @ + 1, ![s].got[r.index] = r]
             ELSE searcher
        /\ UNCHANGED <<pending, jobs, results, dispatcher, late, repeats, faults>>

GatherError(s) ==
    LET a == Current(s) IN
    /\ searcher[s].pc = "gather" /\ searcher[s].gathered < N[s]
    /\ buffer[a] # <<>> /\ Head(buffer[a]).error
    /\ buffer' = [buffer EXCEPT ![a] = Tail(@)]
    /\ Return(s, "failed")
    /\ UNCHANGED <<jobs, results, dispatcher, late, repeats, faults>>

GatherDone(s) ==
    /\ searcher[s].pc = "gather" /\ searcher[s].gathered = N[s]
    /\ Return(s, "gathered")
    /\ UNCHANGED <<buffer, jobs, results, dispatcher, late, repeats, faults>>

\* Mutant: the gather loop has no deadline of its own.
MutNoTimeout(s) ==
    /\ searcher[s].pc = "gather" /\ FALSE
    /\ UNCHANGED vars

GatherTimeout(s) ==
    /\ searcher[s].pc = "gather" /\ searcher[s].gathered < N[s]
    /\ Current(s) \in late
    /\ Return(s, "failed")
    /\ UNCHANGED <<buffer, jobs, results, dispatcher, late, repeats, faults>>

\* The search goes on without another attempt.
Finish(s) ==
    /\ searcher[s].pc \in {"gathered", "failed"}
    /\ searcher' = [searcher EXCEPT ![s].pc = "done"]
    /\ UNCHANGED <<pending, buffer, jobs, results, dispatcher, late, repeats, faults>>

\* The deadline of an attempt passes, whatever has become of the attempt.
Deadline(a) ==
    /\ a[2] \in 1..searcher[a[1]].attempt /\ a \notin late
    /\ late' = late \cup {a}
    /\ UNCHANGED <<searcher, pending, buffer, jobs, results, dispatcher, repeats, faults>>

-------------------------------------------------------------------------------
(* embed-gateway *)

\* The deadline travels in whole seconds: a gateway may take a job up to a second
\* after it.
TakeJob(a, i) ==
    /\ jobs[a][i] = "queued"
    /\ jobs' = [jobs EXCEPT ![a][i] = "held"]
    /\ UNCHANGED <<searcher, pending, buffer, results, dispatcher, late, repeats, faults>>

DropExpired(a, i) ==
    /\ jobs[a][i] = "queued" /\ a \in late
    /\ jobs' = [jobs EXCEPT ![a][i] = "gone"]
    /\ UNCHANGED <<searcher, pending, buffer, results, dispatcher, late, repeats, faults>>

\* Mutant: the acknowledgement comes before the result is published.
MutAckFirst(a, i) ==
    /\ jobs[a][i] = "held"
    /\ jobs' = [jobs EXCEPT ![a][i] = "gone"]
    /\ UNCHANGED <<searcher, pending, buffer, results, dispatcher, late, repeats, faults>>

\* The model has answered, with a vector or a permanent error.
PublishResult(a, i) ==
    /\ jobs[a][i] = "held"
    /\ \E error \in BOOLEAN :
        /\ results' = Append(results, [request |-> Request[a[1]], from |-> a,
                                       index |-> i, error |-> error])
        /\ IF error THEN Fault ELSE UNCHANGED faults
    /\ jobs' = [jobs EXCEPT ![a][i] = "answered"]
    /\ UNCHANGED <<searcher, pending, buffer, dispatcher, late, repeats>>

AckJob(a, i) ==
    /\ jobs[a][i] = "answered"
    /\ jobs' = [jobs EXCEPT ![a][i] = "gone"]
    /\ UNCHANGED <<searcher, pending, buffer, results, dispatcher, late, repeats, faults>>

\* A transient error of the model, a failing publish of the result -- stored or
\* not -- or a crash of the gateway: the job is delivered again.
Redeliver(a, i) ==
    /\ jobs[a][i] \in {"held", "answered"}
    /\ jobs' = [jobs EXCEPT ![a][i] = "queued"]
    /\ repeats' = IF jobs[a][i] = "answered" THEN repeats \cup {a} ELSE repeats
    /\ Fault
    /\ UNCHANGED <<searcher, pending, buffer, results, dispatcher, late>>

-------------------------------------------------------------------------------
(* The dispatcher *)

\* A result is received and its channel looked up; without one it is dropped.
Dispatch ==
    /\ dispatcher.pc = "receive" /\ results # <<>>
    /\ LET r == Head(results)
           a == pending[r.request]
       IN  dispatcher' = IF a = None THEN dispatcher
                         ELSE [pc |-> "send", result |-> r, to |-> a]
    /\ results' = Tail(results)
    /\ UNCHANGED <<searcher, pending, buffer, jobs, late, repeats, faults>>

\* Mutant: the channel is looked up once more, among all that are registered.
MutAnyChannel ==
    /\ dispatcher.pc = "send"
    /\ \E q \in RequestIds :
        /\ pending[q] # None /\ Len(buffer[pending[q]]) < Capacity(pending[q])
        /\ buffer' = [buffer EXCEPT ![pending[q]] = Append(@, dispatcher.result)]
    /\ dispatcher' = Receiving
    /\ UNCHANGED <<searcher, pending, jobs, results, late, repeats, faults>>

\* The send waits while the channel is full.
Send ==
    /\ dispatcher.pc = "send"
    /\ Len(buffer[dispatcher.to]) < Capacity(dispatcher.to)
    /\ buffer' = [buffer EXCEPT ![dispatcher.to] = Append(@, dispatcher.result)]
    /\ dispatcher' = Receiving
    /\ UNCHANGED <<searcher, pending, jobs, results, late, repeats, faults>>

\* The consumer reconnects before its ack: the result is received once more.
Reconnect ==
    /\ dispatcher.pc = "send" /\ Fault
    /\ results' = <<dispatcher.result>> \o results
    /\ repeats' = repeats \cup {dispatcher.result.from}
    /\ UNCHANGED <<searcher, pending, buffer, jobs, dispatcher, late>>

-------------------------------------------------------------------------------

SearcherStep(s) ==
    \/ PublishJob(s) \/ GatherResult(s) \/ GatherError(s) \/ GatherDone(s)
    \/ GatherTimeout(s) \/ Finish(s)

GatewayStep(a, i) ==
    TakeJob(a, i) \/ DropExpired(a, i) \/ PublishResult(a, i) \/ AckJob(a, i)

DispatcherStep == Dispatch \/ Send

Next ==
    \/ \E s \in Searchers : Register(s) \/ SearcherStep(s) \/ PublishFails(s)
    \/ \E a \in Attempts :
        \/ Deadline(a)
        \/ \E i \in 1..N[a[1]] : GatewayStep(a, i) \/ Redeliver(a, i)
    \/ DispatcherStep \/ Reconnect

Spec == Init /\ [][Next]_vars

\* The searchers run and time passes.  Nothing is asked of the gateways, nor of
\* the dispatcher.
FairSpec ==
    /\ Spec
    /\ WF_vars(\E s \in Searchers : SearcherStep(s))
    /\ WF_vars(\E a \in Attempts : Deadline(a))

-------------------------------------------------------------------------------
(* Properties *)

\* The owner of a channel reads from it.
Reads(a) == searcher[a[1]].pc \in {"publish", "gather"} /\ Current(a[1]) = a

\* Nothing is or can be in a's way: no other use of the request id, and every
\* job delivered once.
Undisturbed(a) ==
    /\ a[2] = 1 /\ repeats = {}
    /\ \A s \in Searchers \ {a[1]} : Request[s] # Request[a[1]]

\* A channel gets results of its own request only, however registrations,
\* deregistrations and the dispatcher's look-up and send interleave.
OwnRequest ==
    \A a \in Attempts : \A k \in DOMAIN buffer[a] : buffer[a][k].request = Request[a[1]]

\* An undisturbed attempt that gathers, gathers the vector of each of its
\* sub-queries, in whatever order they came.
GatheredExactly ==
    \A s \in Searchers : searcher[s].pc = "gathered" /\ Undisturbed(Current(s)) =>
        \A i \in 1..N[s] : searcher[s].got[i] =
            [request |-> Request[s], from |-> Current(s), index |-> i, error |-> FALSE]

\* The dispatcher serves every request of the pod; the channel it waits for is
\* read, or its buffer has room, while no job was answered twice and no request
\* id was used again.
Stuck == /\ dispatcher.pc = "send"
         /\ Len(buffer[dispatcher.to]) = Capacity(dispatcher.to) /\ ~Reads(dispatcher.to)

StuckOnlyIfDisturbed == Stuck => ~Undisturbed(dispatcher.to)

\* On its way to the gather loop: a result of sub-query i of attempt a.
Travels(a, i) ==
    LET answers(r) == r.from = a /\ r.index = i
    IN  \/ \E k \in DOMAIN results : answers(results[k])
        \/ dispatcher.pc = "send" /\ dispatcher.to = a /\ answers(dispatcher.result)
        \/ \E k \in DOMAIN buffer[a] : answers(buffer[a][k])

\* No result is lost between the gateways and an undisturbed gather loop: until
\* the deadline each of its sub-queries is with a gateway, on its way or there.
NoResultLost ==
    \A s \in Searchers :
        searcher[s].pc = "gather" /\ Undisturbed(Current(s)) /\ Current(s) \notin late =>
            \A i \in 1..N[s] : \/ jobs[Current(s)][i] \in {"queued", "held"}
                               \/ Travels(Current(s), i)
                               \/ searcher[s].got[i] # NoResult

\* handleSearch never hangs: with or without gateways, and with a dispatcher
\* that waits for somebody else's channel, every search ends.
SearchesEnd == \A s \in Searchers : (searcher[s].pc = "publish") ~> (searcher[s].pc = "done")

\* "Channel is sized to n; sending more than n without reading should not
\* deadlock" (dispatcher_test.go, TestBufferDoesNotBlockOnFullChannel).
NeverStuck == ~Stuck

===============================================================================
