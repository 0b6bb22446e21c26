------------------------------- MODULE Pipeline -------------------------------
(***************************************************************************)
(* The rag-worker's stage pipeline for one request: ingress -> plan ->     *)
(* search -> exec, where exec may send the request back to itself (the     *)
(* next page of context units) or to plan (another round of retrieval).    *)
(* All control state travels in the request's metadata, so a stage message *)
(* IS the state of a pipeline; crashes and publishes that fail after the   *)
(* broker stored them fork a request into several pipelines, which share   *)
(* only the session topic.  Requests with different ids share nothing the  *)
(* handlers read.                                                          *)
(*                                                                         *)
(* Abstractions: texts, plans and vectors are dropped, and what the models *)
(* answer is a choice of the environment.  recursion_budget is a float64   *)
(* that loses 1.0 per re-plan and 0.1 per page: here it is counted in      *)
(* tenths, and a comparison at the exact boundary may go either way once a *)
(* 0.1 has been subtracted (2.0 - 20*0.1 is -7e-16, 1.0 - 10*0.1 is        *)
(* +1.4e-16).                                                              *)
(***************************************************************************)
EXTENDS Dlq, FiniteSets

CONSTANTS
    Ids,                    \* bound: names for stage messages in flight
    RecursionBudget,        \* cfg.RecursionBudget, in tenths
    MaxRecursionCount,      \* cfg.MaxRecursionCount
    MaxTotalChunks,         \* cfg.MaxTotalChunks
    MaxChunksPerRecursion,  \* cfg.MaxChunksPerRecursion
    MaxGroups,              \* bound: chunk groups a retrieval returns
    MaxSteps,               \* bound: steps of a refined plan
    Streaming,              \* InternalRequest.Stream
    MemoryPacks,            \* may memory-controller return items? (of BOOLEAN)
    MaxForks,               \* bound: crashes and ambiguous publishes
    MaxRounds               \* bound: re-plans after which the model answers

ASSUME PipelineAssumption ==
    /\ Ids # {}
    /\ RecursionBudget \in Nat
    /\ MaxRecursionCount \in Nat /\ MaxTotalChunks \in Nat
    /\ MaxChunksPerRecursion \in Nat \ {0}    \* a value <= 0 becomes 10
    /\ MaxGroups \in Nat /\ MaxSteps \in Nat
    /\ Streaming \in BOOLEAN
    /\ MemoryPacks \subseteq BOOLEAN
    /\ MaxForks \in Nat /\ MaxRounds \in Nat

VARIABLES
    msgs,         \* stage messages the broker holds or a worker handles
    endMarker,    \* the first IsLast chunk on the session topic: what a reader
                  \* of the topic takes for the end of the response
    completions,  \* COMPLETED events on the completion topic
    dead,         \* dead letters of this request
    unsent,       \* publishes that failed and were only logged
    forks         \* crashes and ambiguous publishes so far

vars == <<msgs, endMarker, completions, dead, unsent, forks>>

Stages == {"ingress", "plan", "search", "exec"}

\* backlog: held by the broker; running: in HandleStageMessage; answered: exec
\* has published the final chunk; a result: what HandleStageMessage returned;
\* routed: routeToDLQ has returned, the acknowledgement has not.
Phases == {"backlog", "running", "answered", "routed"} \cup Results

NoSteps == -1    \* plan_step_contexts is absent from the metadata

\* The control fields of InternalRequest.Metadata.  "pages" is the number of
\* 0.1 subtractions the budget has seen (the error of the float).
Metas == [set    : BOOLEAN,          \* recursion_budget and the rest are present
          budget : Int,              \* recursion_budget, in tenths
          count  : Nat,              \* recursion_count
          total  : Nat,              \* total_chunks_processed
          offset : Nat,              \* chunk_offset
          groups : Nat,              \* number of chunks
          steps  : Nat \cup {NoSteps},
          pages  : Nat]

NoMeta == [set |-> FALSE, budget |-> 0, count |-> 0, total |-> 0, offset |-> 0,
           groups |-> 0, steps |-> NoSteps, pages |-> 0]

\* rounds and dropped are ghosts: the re-plans of this pipeline, and whether
\* its metadata was ever lost.
Messages == [id : Ids, stage : Stages, meta : Metas, redelivered : Nat,
             phase : Phases, rounds : Nat, dropped : BOOLEAN]

TypeOK ==
    /\ msgs \subseteq Messages
    /\ endMarker \in {"none", "error", "final"}
    /\ completions \in Nat /\ dead \in Nat
    /\ unsent \subseteq {"final", "completion", "dlq"}
    /\ forks \in 0..MaxForks

\* The gateway has published the request to the ingress topic.
Init ==
    /\ msgs = {[id |-> CHOOSE i \in Ids : TRUE, stage |-> "ingress",
                meta |-> NoMeta, redelivered |-> 0, phase |-> "backlog",
                rounds |-> 0, dropped |-> FALSE]}
    /\ endMarker = "none" /\ completions = 0 /\ dead = 0
    /\ unsent = {} /\ forks = 0

-------------------------------------------------------------------------------
(* Publishing *)

Replace(m, n) == (msgs \ {m}) \cup {n}

Returned(m, r) == [m EXCEPT !.phase = r]

FreeIds == {i \in Ids : \A m \in msgs : m.id # i}

\* A fresh message for the next stage, carrying the (new) metadata.
Successor(stage, meta, rounds, dropped) ==
    [id |-> CHOOSE i \in FreeIds : TRUE, stage |-> stage, meta |-> meta,
     redelivered |-> 0, phase |-> "backlog", rounds |-> rounds, dropped |-> dropped]

Mark(kind) == IF endMarker = "none" THEN kind ELSE endMarker

\* SendError publishes an IsLast chunk; if that publish fails it is logged.
SendError == endMarker' \in {endMarker, Mark("error")}

\* Mutant: a failed publish is reported as success.
MutForwardIgnoresError(m, next) ==
    \/ /\ FreeIds # {}
       /\ msgs' = Replace(m, Returned(m, "success")) \cup {next}
       /\ UNCHANGED <<endMarker, completions, dead, unsent, forks>>
    \/ /\ msgs' = Replace(m, Returned(m, "success"))
       /\ SendError
       /\ UNCHANGED <<completions, dead, unsent, forks>>

\* The publish that ends a stage.  It succeeds; or it fails, which is an error
\* chunk and a transient failure; or it reports a failure although the broker
\* has stored the message.
Forward(m, next) ==
    \/ /\ FreeIds # {}
       /\ msgs' = Replace(m, Returned(m, "success")) \cup {next}
       /\ UNCHANGED <<endMarker, completions, dead, unsent, forks>>
    \/ /\ msgs' = Replace(m, Returned(m, "transient"))
       /\ SendError
       /\ UNCHANGED <<completions, dead, unsent, forks>>
    \/ /\ forks < MaxForks /\ FreeIds # {}
       /\ msgs' = Replace(m, Returned(m, "transient")) \cup {next}
       /\ SendError
       /\ forks' = forks + 1
       /\ UNCHANGED <<completions, dead, unsent>>

\* A stage gives up: an error chunk and the given result.
Fail(m, r) ==
    /\ msgs' = Replace(m, Returned(m, r))
    /\ SendError
    /\ UNCHANGED <<completions, dead, unsent, forks>>

-------------------------------------------------------------------------------
(* The stage handlers *)

Receive(m) ==
    /\ m.phase = "backlog"
    /\ msgs' = Replace(m, [m EXCEPT !.phase = "running"])
    /\ UNCHANGED <<endMarker, completions, dead, unsent, forks>>

At(m, stage) == m.phase = "running" /\ m.stage = stage

HandleIngress(m) ==
    /\ At(m, "ingress")
    /\ Forward(m, Successor("plan", m.meta, m.rounds, m.dropped))

\* GetPlanner or planner.Plan fails; a missing model is permanent.
PlanFails(m, r) ==
    /\ At(m, "plan") /\ r # "success"
    /\ Fail(m, r)

\* A non-empty memory pack puts []*MemoryWriteItem under "history": a type
\* structpb cannot hold, so ToStruct returns nil and req.Metadata is lost.
HandlePlan(m, items) ==
    /\ At(m, "plan")
    /\ Forward(m, Successor("search", IF items THEN NoMeta ELSE m.meta,
                            m.rounds, m.dropped \/ items))

\* GetPlanner fails (permanent) or the tags cannot be resolved (transient).
SearchFails(m, r) ==
    /\ At(m, "search") /\ r # "success"
    /\ Fail(m, r)

\* The metadata after retrieval: new chunks; the steps of the refined plan, or
\* the old ones when refining failed (refined = NoSteps); the recursion
\* fields initialised unless they are there.
Retrieved(meta, groups, refined) ==
    LET base == IF meta.set THEN meta
                ELSE [meta EXCEPT !.set = TRUE, !.budget = RecursionBudget]
    IN  [base EXCEPT !.groups = groups,
                     !.steps = IF refined = NoSteps THEN @ ELSE refined]

HandleSearch(m, groups, refined) ==
    /\ At(m, "search")
    /\ refined > 0 => groups > 0
    /\ Forward(m, Successor("exec", Retrieved(m.meta, groups, refined),
                            m.rounds, m.dropped))

\* The metadata has plan steps, or chunk groups, or neither: then handleExec
\* makes one unit of the empty context list.
Units(meta) ==
    IF meta.steps > 0 THEN meta.steps
    ELSE IF meta.groups > 0 THEN meta.groups ELSE 1

\* plan_step_contexts, even an empty list, puts all units on one page.
PageSize(meta) ==
    IF meta.steps # NoSteps THEN Units(meta) ELSE MaxChunksPerRecursion

PageEnd(meta) ==
    IF meta.offset + PageSize(meta) > Units(meta)
    THEN Units(meta) ELSE meta.offset + PageSize(meta)

\* len(unitsToProcess)
Batch(meta) ==
    IF meta.offset < Units(meta) THEN PageEnd(meta) - meta.offset ELSE 0

\* Whether budget <= 0, and whether budget >= 1.0: the possible answers.
SpentAnswers(meta) ==
    IF meta.budget = 0 /\ meta.pages > 0 THEN BOOLEAN ELSE {meta.budget <= 0}
AffordableAnswers(meta) ==
    IF meta.budget = 10 /\ meta.pages > 0 THEN BOOLEAN ELSE {meta.budget >= 10}

\* What the executor makes of a page: is its text insufficient, did some unit
\* give a substantial result.  A unit of a stream that is not insufficient is
\* substantial; without streaming a failed unit is neither.  The literal
\* answer fallback turns the insufficient page into a substantial one.
Outcomes ==
    {o \in [insufficient : BOOLEAN, substantial : BOOLEAN] :
        Streaming => o.insufficient \/ o.substantial}

\* Mutant: a re-plan is not checked against the budget.
MutReplanUnfunded(o, meta, spent, affordable) ==
    IF PageEnd(meta) < Units(meta) /\ ~o.substantial
    THEN IF meta.total >= MaxTotalChunks \/ spent THEN "send" ELSE "paginate"
    ELSE IF o.insufficient /\ ~o.substantial
         THEN IF meta.count >= MaxRecursionCount THEN "send" ELSE "replan"
         ELSE "send"

\* meta.total already includes the page's units.
handleExecDecision(o, meta, spent, affordable) ==
    IF PageEnd(meta) < Units(meta) /\ ~o.substantial
    THEN IF meta.total >= MaxTotalChunks \/ spent THEN "send" ELSE "paginate"
    ELSE IF o.insufficient /\ ~o.substantial /\ affordable
         THEN IF meta.count >= MaxRecursionCount THEN "send" ELSE "replan"
         ELSE "send"

NextPage(meta) ==
    [meta EXCEPT !.offset = PageEnd(meta), !.budget = @ - 1, !.pages = @ + 1]

\* Mutants: chunk_offset survives into the next round; the count runs down.
MutKeepOffset(meta) == [meta EXCEPT !.budget = @ - 10, !.count = @ + 1]
MutCountDown(meta) ==
    [meta EXCEPT !.offset = 0, !.budget = @ - 10, !.count = @ - 1]

NextRound(meta) ==
    [meta EXCEPT !.offset = 0, !.budget = @ - 10, !.count = @ + 1]

\* GetExecutor fails, or a model turns out to be missing in the middle.
ExecFails(m) ==
    /\ At(m, "exec")
    /\ Fail(m, "permanent")

\* The executor fails on a unit for another reason: an error chunk, and
\* handleExec goes on with the remaining units.
ExecUnitError(m) ==
    /\ At(m, "exec")
    /\ SendError
    /\ UNCHANGED <<msgs, completions, dead, unsent, forks>>

\* SendStreamChunk/SendResult with isLast; a failing publish is only logged.
SendFinal(m, sent) ==
    /\ msgs' = Replace(m, [m EXCEPT !.phase = "answered"])
    /\ IF sent THEN endMarker' = Mark("final") /\ UNCHANGED unsent
               ELSE unsent' = unsent \cup {"final"} /\ UNCHANGED endMarker
    /\ UNCHANGED <<completions, dead, forks>>

HandleExec(m, o, spent, affordable) ==
    LET meta == [m.meta EXCEPT !.total = @ + Batch(m.meta)]
        decision == handleExecDecision(o, meta, spent, affordable)
    IN  /\ At(m, "exec")
        /\ o \in Outcomes
        /\ m.rounds >= MaxRounds => o.substantial
        /\ spent \in SpentAnswers(meta) /\ affordable \in AffordableAnswers(meta)
        /\ \/ /\ decision = "paginate"
              /\ Forward(m, Successor("exec", NextPage(meta), m.rounds, m.dropped))
           \/ /\ decision = "replan"
              /\ Forward(m, Successor("plan", NextRound(meta), m.rounds + 1, m.dropped))
           \/ /\ decision = "send"
              /\ \E sent \in BOOLEAN : SendFinal(m, sent)

\* SendCompletion, after the final chunk; a failing publish is only logged.
SendCompletion(m, sent) ==
    /\ m.phase = "answered"
    /\ msgs' = Replace(m, Returned(m, "success"))
    /\ IF sent THEN completions' = completions + 1 /\ UNCHANGED unsent
               ELSE unsent' = unsent \cup {"completion"} /\ UNCHANGED completions
    /\ UNCHANGED <<endMarker, dead, forks>>

-------------------------------------------------------------------------------
(* dlq.HandleMessage, once HandleStageMessage has returned, and crashes *)

\* The branch HandleMessage takes for a message whose stage has returned.
Disposed(m, branch) ==
    /\ m.phase \in Results
    /\ Disposition(m.phase, RetryCount(NoProp, m.redelivered)) = branch

\* Mutant: a retry the broker does not count.
MutNackUncounted(m) ==
    /\ Disposed(m, "nack")
    /\ msgs' = Replace(m, [m EXCEPT !.phase = "backlog"])
    /\ UNCHANGED <<endMarker, completions, dead, unsent, forks>>

Nack(m) ==
    /\ Disposed(m, "nack")
    /\ msgs' = Replace(m, [m EXCEPT !.phase = "backlog", !.redelivered = @ + 1])
    /\ UNCHANGED <<endMarker, completions, dead, unsent, forks>>

RouteToDLQ(m, sent) ==
    /\ Disposed(m, "bury")
    /\ msgs' = Replace(m, [m EXCEPT !.phase = "routed"])
    /\ IF sent THEN dead' = dead + 1 /\ UNCHANGED unsent
               ELSE unsent' = unsent \cup {"dlq"} /\ UNCHANGED dead
    /\ UNCHANGED <<endMarker, completions, forks>>

\* Mutant: a dead-lettered message is nacked instead of acknowledged.
MutNackAfterRouting(m) ==
    \/ /\ m.phase = "routed"
       /\ msgs' = Replace(m, [m EXCEPT !.phase = "backlog"])
       /\ UNCHANGED <<endMarker, completions, dead, unsent, forks>>
    \/ /\ Disposed(m, "ack")
       /\ msgs' = msgs \ {m}
       /\ UNCHANGED <<endMarker, completions, dead, unsent, forks>>

Ack(m) ==
    /\ m.phase = "routed" \/ Disposed(m, "ack")
    /\ msgs' = msgs \ {m}
    /\ UNCHANGED <<endMarker, completions, dead, unsent, forks>>

\* The worker that handles the message dies before it acknowledged it.
Crash(m, counted) ==
    /\ forks < MaxForks
    /\ m.phase # "backlog"
    /\ msgs' = Replace(m, [m EXCEPT !.phase = "backlog",
                                    !.redelivered = IF counted THEN @ + 1 ELSE @])
    /\ forks' = forks + 1
    /\ UNCHANGED <<endMarker, completions, dead, unsent>>

WorkerStep(m) ==
    \/ Receive(m)
    \/ HandleIngress(m)
    \/ \E r \in Results : PlanFails(m, r) \/ SearchFails(m, r)
    \/ \E items \in MemoryPacks : HandlePlan(m, items)
    \/ \E groups \in 0..MaxGroups, refined \in NoSteps..MaxSteps :
            HandleSearch(m, groups, refined)
    \/ ExecFails(m)
    \/ \E o \in Outcomes, spent, affordable \in BOOLEAN :
            HandleExec(m, o, spent, affordable)
    \/ \E sent \in BOOLEAN : SendCompletion(m, sent) \/ RouteToDLQ(m, sent)
    \/ Nack(m)
    \/ Ack(m)

Next == \E m \in msgs :
    \/ WorkerStep(m)
    \/ ExecUnitError(m)
    \/ \E counted \in BOOLEAN : Crash(m, counted)

Spec == Init /\ [][Next]_vars

\* A worker's goroutine runs to its end unless it crashes, and the broker
\* delivers what it holds.
FairSpec == Spec /\ WF_vars(\E m \in msgs : WorkerStep(m))

-------------------------------------------------------------------------------
(* Properties *)

\* A message that still owes the request an outcome.
Open(m) == m.phase \notin {"success", "routed"}

Owing == {m \in msgs : Open(m)}

\* A request never vanishes: some message still owes it an outcome, or it was
\* completed or dead-lettered, or a publish failed whose error the code only
\* logs.  Crashes, retries and lost acknowledgements lose nothing.
RequestAccounted ==
    \/ Owing # {}
    \/ completions > 0 \/ dead > 0
    \/ unsent \cap {"completion", "dlq"} # {}

\* A request is answered once: pipelines at work and outcomes together exceed
\* one only by the crashes and ambiguous publishes that forked it.
NoSpuriousFork ==
    Cardinality(Owing) + completions + dead <= 1 + forks

\* A page always has units to process: the offset the exec stage reads lies
\* inside the units it computes from the same metadata, in every round.
PageInRange ==
    \A m \in msgs : m.stage = "exec" => m.meta.set /\ m.meta.offset < Units(m.meta)

\* Budget, re-plans and pages of a pipeline that kept its metadata: re-plans
\* stay within MaxRecursionCount, and re-plans and pages together within the
\* budget, one page of float error included.
RecursionBounded ==
    \A m \in msgs : ~m.dropped =>
        /\ m.rounds <= MaxRecursionCount
        /\ 10 * m.rounds + m.meta.pages <= RecursionBudget + 1

\* The pipelines of a request that kept its metadata all come to an end.
Termination == <>[](msgs = {})

(* What the documentation says, refuted by the violation runs. *)

\* OPERATIONS.md: "MAX_RECURSION_COUNT: Max number of re-planning cycles".
ReplansBounded == \A m \in msgs : m.rounds <= MaxRecursionCount

===============================================================================
