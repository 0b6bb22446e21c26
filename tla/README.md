# RAG stack: TLA+ models of the request path, the build pipeline and the ingestion

This directory specifies, model-checks and partly proves the distributed core of the
RAG stack in `src/rag-stack/services`: how a request travels through the worker's
stages, how its answer reaches the reader and the database, how failed messages are
retried and buried, and how the embedding calls of one search are fanned out; and of the two
systems beside it, the build pipeline and the ingestion of files into the vector store.

- `*.tla`: one module per component, `MC*.tla` instances for TLC, `*Proofs.tla` proofs for TLAPS
- `*.cfg`: one per run; `Component_Property.cfg` is a run that TLC must find violated
- `PROJECT.json`: components, runs, mutants, the map from definitions to source lines,
  findings, hazards and theorems

## 1. Inventory

The services are Go processes (the ingestion is Python, the build scripts are shell) that talk
through Apache Pulsar and HTTP.
The work queues are *shared* subscriptions with individual acknowledgements: a message is
redelivered after a negative acknowledgement (nack) or a crash, so each handler may see it
twice, late, out of order, and while another replica handles its neighbour.

| component | state it keeps | operations | hard behaviour | correct when |
|---|---|---|---|---|
| dead-letter handler (`common/dlq`) | none; the retry count is in the message | `HandleMessage`, `routeToDLQ` | crash between dead-letter publish and ack; replayed letters | nothing is acknowledged before its fate is known; retries end |
| rag-worker: stages (`pkg/pipeline`) | none; all control state travels in `InternalRequest.Metadata` | `handleIngress`, `handlePlan`, `handleSearch`, `handleExec` | exec sends the request back to itself or to plan; a crash or an ambiguous publish forks a request | a request is accounted for and answered once; paging and re-planning stop |
| rag-worker: session publishing (`pkg/messaging`) | sequence numbers of one `handleExec` call; a producer cache | `SendStreamChunk`, `SendError`, `SendResult`, `SendCompletion` | several episodes write one topic; failed publishes are only logged | readers of the topic get the answer |
| rag-worker: embedding fan-out (`pkg/embed`, `search.go`) | `ResultDispatcher.pending`, one channel per fan-out | `embedFanout`, `Register`, `Deregister`, `Run` | one dispatcher serves all requests; late and duplicate results | a result reaches its own request; a search always ends |
| embed-gateway | none | `processJob` | deadline, transient errors, publish then ack | no job is acknowledged unanswered before its deadline |
| prompt-aggregator | none | the completion loop, `aggregateChunks`, `assemble`, `sendFinalResult` | reads the topic while other episodes write it; redelivered events | repeated aggregations agree; events are settled |
| db-adapter: prompts and responses | rows `prompts`, `responses`, `retrieval_logs`, ... | `HandlePrompt`, `HandleResponse`, `HandleCompletion`, `HandleDBOp` | response before prompt (ghost rows); read-modify-write by two replicas | the prompt is stored; no acknowledged delta is lost but to the final result; the history shows the final result |
| db-adapter: HTTP services | tables | history, tags, coverage, merges | merges against running ingestions | coverage says what is stored |
| llm-gateway | one subscription per open response | `SendRequest`, `SubscribeStream`, OpenAI and WebSocket handlers | subscription against first chunk, disconnects | the client gets the stream and its end |
| build-orchestrator | `inProgress`, worker pool, lock table, recorded versions, `statusHub`, Kubernetes jobs | dispatcher, workers, `AcquireLock`, `UpdateVersion`, `publish` | redelivery against `inProgress`, restart while a job runs, stale locks | a task is built by one worker at a time and never dropped unreported |
| build.sh, trigger-build.sh | one shell and its heartbeat loop | `acquire_lock`, `build_service`, `release_lock` | killed shells, an API that fails or is away | one shell builds a service at a time; versions are unique |
| rag-ingestion | coverage rows, chunk rows; per job a batch and a transaction | `trigger_ingest`, `run_ingestion`, `_coverage_*` | two ingestions of one tag, commit against publish, aborted transactions | "complete" means complete, "building" means being built |
| memory-controller | rules, packs, session overrides | `CreateRule`, pack queries | check-then-insert | no duplicate rule |
| qdrant-adapter | none; the collections are in Qdrant | upsert, delete, search | a goroutine per message: operations change places | a collection holds what was sent |
| object-store-mgr, rag-admin-api | none | translation to calls of other services | - | - |
| shared libraries, explorer, test runner, deployment | none of the running protocol | - | - | - |

**How they interact.** The llm-gateway subscribes to the session topic of a request and publishes
the prompt (for the db-adapter) and the request (for the worker). Inside the worker,
`HandleStageMessage` takes the request from `ingress` over `plan` and `search` to `exec`. `exec`
publishes text chunks to the request's session topic, where the gateway reads them as they come.
When it has an answer it publishes a COMPLETED event, on which the aggregator reads the whole
topic again and publishes one final result; the db-adapter stores prompt, chunks and final
result. During `search` a worker hands its sub-queries to the embed-gateways and gathers the
vectors from its pod's own result topic. The dead-letter handler wraps nearly every one of these loops.

Files become searchable through the ingestion service: a search of a tag that the model does not cover, a
user, or a merge of tags in the db-adapter asks it for a job, which sends batches of vectors to the Qdrant topic and
records the tag's coverage. The build pipeline stands apart: `build.sh` takes the lock of a service from the
orchestrator, asks for a version and publishes a task, which the orchestrator turns into a Kubernetes job.

The hazards that follow from this, each at its line, are in `PROJECT.json` under `hazards`;
the ones no property covers yet say why.

## 2. Modules and their correspondence to the code

| module | models | state |
|---|---|---|
| `Dlq` | the decision of `HandleMessage` and the retry count | pure operators |
| `Delivery` | abstract: what a subscription promises, with the ways a message may leave it | `pending processed buried leaked` |
| `DlqHandler` | `HandleMessage` for a set of messages, with crashes and replays | per message: phase, result, broker count, property |
| `Pipeline` (extends `Dlq`) | the four stages for one request | the stage messages, with their metadata; outcomes |
| `SessionStream` | episodes of `handleExec`, the session topic, gateway and aggregator as its readers | topic, episodes, events, final results |
| `ResponseStore` | `HandlePrompt` and `HandleResponse` on one or more replicas | rows, messages, program counters |
| `EmbedFanout` | `embedFanout`, `ResultDispatcher`, `Gateway.processJob` | searchers, registrations, channels, jobs, results |
| `BuildLock` | the lock table, and the shells' way through it | shells, rows with age and owner, running heartbeat loops |
| `BuildQueue` | dispatcher, workers, Kubernetes jobs, broker | tasks, messages, `inProgress`, the channel, workers, jobs |
| `BuildSystem` (extends both) | what a shell does inside the lock; restarts; faults | recorded versions |
| `QdrantOps` | the Qdrant topic and the adapter | operations under way, the collections of each model |
| `Ingestion` (extends `QdrantOps`) | ingestion jobs and coverage rows | rows, coverage, a program counter and a batch per job |
| `CoverageSystem` (extends `Ingestion`) | merges of tags; faults | the groups a merge has still to handle |

`DlqHandler` is shown to implement `Delivery`. The refinement mapping is in its `INSTANCE`:
pending = not acknowledged, processed = `done`, buried = letters in the dead-letter topic, leaked = dead-letter
publishes that failed and were only logged. `BuildSystem` is shown to implement `BuildLock` on its
own (`LockSpec`), and `CoverageSystem` to implement `QdrantOps` on its own (`QdrantSpec`): their environment is arbitrary
there, so what is proved of the part holds in the whole.

**DlqHandler.** `Receive`, `Process`, `RouteToDLQ`, `Ack` and `Nack` are the steps of `HandleMessage` between
which the process can die (`Crash`; the broker may or may not have counted the delivery). `Replay`
is an operator who moves a letter back, with the retry count it was buried with.

**Pipeline.** A stage message *is* the state of a pipeline, so the variable `msgs` is a set of them, each
with the control fields of its metadata. One action is one handler: `HandleIngress`, `HandlePlan`,
`HandleSearch`, `HandleExec` with their error paths (`PlanFails`, `SearchFails`, `ExecFails`, `ExecUnitError`); publishes and
disposition are steps of their own because a crash may fall between them. What the models and the retrieval answer is
a choice. `recursion_budget`, a `float64`, is counted in tenths, and a comparison at the exact
boundary may go either way once 0.1 has been subtracted. The metadata can be lost in `HandlePlan`
(`dropped`), as `ToStruct` loses it when memory-controller returns items. The completion with
status FAILED in `handleExec` (pipeline.go:906-909) is left out: it needs a cancelled message
context, and that context derives from `context.Background()`.

**SessionStream.** An episode is one run of `handleExec`: a page, a round, a retry or a fork; several may run at
once. A request is streamed or not, a field that every stage message carries. The aggregator's read
is one step: a reader of an immutable log is the position it has reached. Left out are
planning notes (sequence -1) and the empty metadata chunk, which carry no answer text, the retention of the
topic, and the FAILED status.

**ResponseStore.** One request in stream mode: the metadata chunk 0, the deltas and one final
result, on `Replicas` with one prompt loop and one response loop each. The final result (`result`) is what the aggregator
has assembled from another topic, so it is any choice of the deltas (`Assembled`), and it may be sent before the last of them
(`Topic`). It replaces the content; what it takes away is kept in a history field of the record (`erased`). Every database statement
between which another loop can act is a step. `UniquePrompt` is a constant because the ent schema declares
`responses.prompt_id` unique, while the deployed hypertable (`schema.sql`) has no such index and a failing `Schema.Create`
is only warned about. Left out: segments and planning text, sessions, further final
results of the same request, `HandleCompletion`, `HandleDBOp`, and dead-lettering (the faults of a run stay below the retry limit). The rows of one
write of the logs count as one.

**EmbedFanout.** An attempt is one call of `embedFanout`. The channel under the request id, the lookup and
the send of the dispatcher, the registration and its deferred removal are separate steps. A job is
none, queued, held, answered or gone. `Redeliver` covers transient model errors, failing result publishes
and gateway crashes; `Reconnect` delivers a result twice. A crash of the pod takes all of this state
with it and is left out, as are malformed messages and the serial fallback, which keeps no state.

**BuildLock, BuildQueue, BuildSystem.** A shell takes the lock with `CreateLock`, `QueryLock` and `DeleteStaleLock` (three
statements of `AcquireLock` between which others act), keeps it fresh with `Heartbeat`, and inside it reads the
version, writes the next one and publishes the task. The age of a row has two values, fresh and stale (`GrowStale`); a row's
owner is the shell that inserted it, although the code compares names only. The dispatcher (`Receive`, `Unblock`) and the workers (`LaunchJob`, `Succeed`, `Fail`, `GiveUp`,
`AckBuilt`, `ClearKey`) are the loops of `main`. `ApiDown` stops the orchestrator's pod and empties what is in its memory
(`LoseMemory`: map, channel and workers); `Restart` brings it back and seeds the versions from the file. Rows of locks are in the
database and stay; that an operator empties the table (`ResetLocks`) is a fault of its own. So are `KillBuilder`, `ApiDown`,
`Reconnect`, `ExpireJob`, `LaunchFails`, `PollFails`, `RecordFails`, `ReadFails`, `WriteLost` and `TriggerFails`. There is one orchestrator at a
time: the pod has one replica, and the overlap of two pods during a rolling update is not modelled. Left out: `--force`, `--version` and local
builds, the waiting phase, the contents of the journal and its hashes, `statusHub`, rollouts, malformed payloads.

**QdrantOps, Ingestion, CoverageSystem.** The files of one tag, cut into chunks by number. A job is a background task of
`run_ingestion`: `Start` marks its coverage row, `EmbedChunk` adds a chunk to the batch and inserts its row, `SendBatch` and
`CommitBatch` are two steps because the process can die between them, `MarkComplete` and `MarkOthers` are the two statements of
`_coverage_upsert_complete` and `CommitCoverage` is their commit. PostgreSQL's default isolation lets a statement see what was committed when it began
and lock what it changes: the second one finds the complete rows (`marks`, at the end of `MarkComplete`), waits for those that are locked,
and takes the ones that are still complete after the wait; a row that became complete meanwhile is not seen. A transaction that had an error refuses every later statement until it is ended (`conn = "aborted"`); a lost connection
loses what was open. Points have fresh ids, so an upsert may be applied twice; operations of the topic are applied in any order.
A deletion sent later counts one generation more (`gen`), by which `VectorsArrive` says what a collection should hold.
Left out: jobs of several tags, deletes by tag and the adapter's `merge_tags` (nobody sends it), the creation of
collections, deadlocks between completions (they need four jobs, and PostgreSQL ends them as one more failing statement), what a merge does to sessions and tags after the files.

## 3. Runs

Every passing property has a mutant: a plausible bug in a mapped definition with which TLC finds it
violated. `CHECK_DEADLOCK` is off in all runs because a finished request has nothing left to do.

| run | bounds | what it shows |
|---|---|---|
| `dlq` | 2 messages, MaxRetries 2, 1 crash, 1 replay, counters up to 4 | `NoSilentLoss`: an acknowledged message was processed, buried, or its burial failed. `RetriesBounded`: crashes included. `ImplementsDelivery`. `EventuallySettled`: retrying ends unless a letter was replayed. |
| `pipeline` | 1 retry, 2 ids, budget 1.1, 2 re-plans, 3 chunks in all, pages of 1, 2 groups, 1 step, 1 fork, 2 rounds | `RequestAccounted`, `NoSpuriousFork` (one outcome per fork), `PageInRange`, `RecursionBounded` (while the metadata is kept), `Termination` |
| `stream` | 3 episodes, 2 pieces each, 2 faults, streamed and not | `ReadersAgree`, `FinalIsTheAnswer`, `AggregationsAgree`, `CompletionsSettle` |
| `store_one` | 1 replica, 3 deltas, 2 faults, no unique index | `PromptTextStored`, `DeltasAppended`, `FinalShown`, `LogsOnceChecked`, for every final result the aggregator may send |
| `store_two` | 2 replicas, 1 delta, 1 fault, unique index | `PromptTextStored` with the constraint conflict and the races of two replicas |
| `embed` | 2 searches with ids of their own, 2 and 1 sub-queries, 1 fault | `OwnRequest`, `NoResultLost`, `GatheredExactly`, `StuckOnlyIfDisturbed`, `SearchesEnd` |
| `build` | 2 shells of one service, 2 builds in all, 2 workers, a channel of 1, 1 retry, 1 fault | `LockExcludes`: two shells are inside only after a disturbance. `OneAtATime`: a version is in one hand. `LostOnlyIfSkipped`: a task that ends without an image was reported as failed, or skipped in one of the two ways of section 6. `VersionsUnique`. `RequestsSettle`: a task stays on the topic for ever only if its own job, or a job at every worker, is on its first pod for ever. With two tasks only the first case can come about; the second needs as many such jobs as workers and one task more. |
| `coverage` | 2 models, 2 jobs, 2 chunks, batches of 2, 1 merge, 1 fault | `DatabaseFollowsTopic`: what is stored or counted was sent. `BuildingHasJob`, `BuildingSettles`: a row is not left at "building" but by a job that could not write it. `OneComplete`. `VectorsArrive`: a collection ends with what was sent after the last delete. |
| `pipeline_replans`, `stream_overwrite`, `store_lost`, `embed_stuck` | the smallest instance that shows it | the findings of section 6 |

**Why the bounds are enough.** Two messages or two searches are the least that can interfere, and the
handlers never relate three. A budget of 1.1 has a page cross the boundary of a re-plan, and two groups with pages of
one make a page that is not the last. Three episodes let one be read while another writes and a
third is pending. One fault can hit any step; the effects that need two (a duplicate answer and a timeout)
have the timeout for free, since deadlines are not counted as faults. Two shells and two workers can
contend for a lock, a version and a task; a task and its retry use both workers. Two jobs of one model or of two, with a chunk each or a batch of two, cover
the races for a row and a batch that is full, partial, sent twice or last; one merge sets a delete against their upserts. The bounds stand in the
constants of each module, named there as bounds: `CountCap`, `MaxCrashes`, `MaxReplays`; `Ids`, `MaxForks`,
`MaxGroups`, `MaxSteps`, `MaxRounds`; `MaxEpisodes`, `MaxPieces`, `MaxFaults`; `Deltas`; `Searchers`, `MaxAttempts`;
`Builders`, `Workers`, `MaxRuns`, `QueueCap`; `Jobs`, `Chunks`, `MaxMerges`.

**Fairness.** `DlqHandler` and `Pipeline` assume weak fairness of the worker's steps: every delivered message has a goroutine
of its own, and the broker keeps redelivering what is not acknowledged. `SessionStream` asks it of the
aggregator's loop alone, not of the worker or of the publishes. `EmbedFanout` asks it of the searcher
goroutines and of the clock, and of neither gateways nor dispatcher, so `SearchesEnd` also covers a
gateway fleet that is down and a dispatcher that is blocked. `BuildSystem` asks only that the
orchestrator's goroutines, the broker's redelivery and the restart of a pod that is down, taken together, do not stop while one of them can go on; it asks
nothing of the shells, for nobody has to build, and nothing of Kubernetes: a pod need not start or end, since a job has no `activeDeadlineSeconds`
and the wait for it no timeout (`RequestsSettle` says what that costs).
`CoverageSystem` asks it of each job's next step (a thread of the service), not of the adapter, of merges or of those who ask for jobs. Crashes and faults are never fair and always finite in number.

## 4. What is proved

The proofs hold for every value of the constants that satisfies the named assumptions
(`RetryAssumption`, `BoundAssumption`, `PipelineAssumption`, `SessionStreamAssumption`, `ResponseStoreAssumption`, `EmbedFanoutAssumption`,
those of the three build modules, `QdrantAssumption`, `IngestionAssumption`, `CoverageAssumption`). Every invariant and every action property of a passing run
is stated by one of these theorems. Three of `ResponseStoreProofs` have a hypothesis
of their own, `OneReplica`, the setting of run `store_one`: with two replicas `DeltasAppended` is false (run `store_lost`), and the
check and the write of the retrieval logs are two statements that another replica can come between.

| theorem | argument |
|---|---|
| `DlqHandlerProofs!TypeCorrect`, `NoSilentLossAlways` | `NoSilentLoss` is not inductive: it says nothing of a message about to be acknowledged. `FateKnown` adds that a decided success is in `done` and a routed message left a trace. |
| `DlqHandlerProofs!RetriesBoundedAlways` | the nacks of a message that was never replayed are at most the broker's count, and a nack is decided only below the limit |
| `DlqHandlerProofs!HandlerImplementsDelivery` | each step maps to a step of `Delivery` or a stutter, given `TypeOK` and `FateKnown` |
| `PipelineProofs!TypeCorrect` | one lemma per helper (`SuccessorTyped`, `ForwardTyped`, `ExecCases`, ...), one step per action |
| `PipelineProofs!PageInRangeAlways`, `RecursionBoundedAlways` | both from `AllSound`: budget + 10 * count + pages is constant while the metadata is kept, the count respects its limit, and the offset is zero outside `exec` and inside the unit list in `exec` |
| `PipelineProofs!RequestAccountedAlways`, `NoSpuriousForkAlways` | every step is of one of a few kinds (passed on, forked, settled, removed, redelivered; lemma `StepKinds`); each kind preserves the account and the balance |
| `SessionStreamProofs!TypesKept` | `Written`: a chunk carries the piece of its author that its number says, or the whole answer, and an episode's numbers rise along the topic |
| `SessionStreamProofs!AggregationsAgreeAlways` | `FinalsFixed`: a result sent without a timeout equals the assembly up to the first IsLast chunk, and appending never changes that prefix (`PrefixStable`, `MarkerStable`) |
| `SessionStreamProofs!ReadersAgreeAlways` | the aggregated text flattens a sorted sequence, a recursive definition, so the claim goes by the least position at which it would fail (`JoinsExist`, `FlattenJoins`, `UpTo`): as long as one episode writes, each message carries a higher number than those before it (`OneAuthor`), and so appends its text for both readers |
| `SessionStreamProofs!FinalIsTheAnswerAlways` | `SortedStep`: the pieces on the topic are pieces of the episode's text, in its order (`IsSubsequence` names the place of each); `FilledStep`: without a fault a chunk's number is its place on the topic, and none is missing |
| `ResponseStoreProofs!PromptTextStoredAlways` | `PromptInv`: rows are added and filled, never emptied, and a handler about to acknowledge knows of a row with the text; any number of replicas, with or without the unique index |
| `ResponseStoreProofs!TypesKept` | rows refer to rows that exist, and each step of a handler has the row it needs; any number of replicas |
| `ResponseStoreProofs!LogsOnceCheckedAlways` | `Checked`, for one replica: a handler about to write the logs after a check has found none, and nobody else writes |
| `ResponseStoreProofs!DeltasAppendedAlways`, `FinalShownAlways` | `StoreInv`, for one replica: what a handler read is still what its record has (`ReadFresh`), so its write erases nothing but what a final result replaces, which goes into `erased`; a row of the prompt has one record (`OneEach`); what a handler is about to acknowledge is kept in a record (`Kept`); and once the final result was written, a record begins with it, since whatever comes later is appended or writes it again (`FinalStored`) |
| `EmbedFanoutProofs!TypesKept`, `OwnRequestAlways` | a registration is of the request it stands under, and the dispatcher keeps the channel it looked up, so the send is to the request's own channel |
| `EmbedFanoutProofs!StuckOnlyIfDisturbedAlways`, `GatheredExactlyAlways`, `NoResultLostAlways` | `Once`: an answer to an undisturbed attempt is in one place (topic, dispatcher, channel or gathered), so the channel never has more answers than it has room; `OwnResults`, `AllCollected` and `NoneLost` account for every sub-query from job to gather |
| `BuildLockProofs!LockTypes`, `Exclusion` | a shell that believes it holds the lock owns the row, or a disturbance has been noted; `LockTypes` includes that there is one row at most |
| `BuildSystemProofs!FollowsLock`, `BuildersExcluded` | every step of the whole is a step of the lock or leaves it alone; exclusion carries over |
| `BuildSystemProofs!BuiltOneAtATime` | `PlaceInv`: a version is in the broker, at the dispatcher, in the channel or at one worker, and `inProgress` holds exactly those that are in memory |
| `BuildSystemProofs!TypesKept` | no version exceeds the bound on builds because each shell that may still raise it has its build counted: recorded version + such shells <= builds |
| `BuildSystemProofs!LostOnlyIfSkippedAlways` | `SettledWell`: an acknowledged task has a reason; "built" means an image; and a message acknowledged as a duplicate leaves another of its version that is not |
| `BuildSystemProofs!VersionsUniqueAlways` | `Leads`: while lock and record are undisturbed no task is beyond the recorded version, and the shell about to write the next one has read it; `FreshShells`, with the exclusion of `BuildLockProofs`, leaves one such shell. A shell that got no answer takes the first version, the one the orchestrator records when it is back |
| `CoverageProofs!TopicDelivers` | `Ordered`, for a model whose delete and upserts kept their order: the last delete is under way or applied, what was sent after it is under way or stored, and after the delete nothing older is left |
| `CoverageProofs!FollowsTopic`, `VectorsDelivered` | every step of the whole is a step of the topic or leaves it alone |
| `CoverageProofs!BuildingIsRunning` | each job step goes on, begins, gives up, completes or reverts (lemma `Effects`), and the row follows it |
| `CoverageProofs!CompleteIsOne` | `Published`: without an overlap one job at most is between its first statement and its commit, and it has seen, and will make stale, every other complete row |
| `CoverageProofs!StoredIsSent` | `Recorded`: an open or counted chunk was sent or is in the batch, and past the send so was the batch |
| `CoverageProofs!CoverageTypes` | types of all variables |

Only model-checked: the liveness properties (`EventuallySettled`, `Termination`, `CompletionsSettle`, `SearchesEnd`,
`RequestsSettle`, `BuildingSettles`), since liveness under fairness is out of this prover's reach. The strengthened invariants hold in TLC on the
instances of section 3 too, but for conjuncts that TLC cannot evaluate because they quantify over all values.

## 5. Not modelled, and why

User interface, test runner, deployment files, logging, telemetry, TLS and health checks carry no
protocol. Most of the Go lines under `services` are generated: the ent client and mutations in `common/ent` and the protobuf
code in `common/contracts` set and read fields and decide nothing, so no definition stands for them. The
contents of prompts, plans, vectors and chunks are abstracted to what the properties tell apart. Pulsar, PostgreSQL,
Qdrant and Kubernetes are external: redelivery and its count, ambiguous publishes, locks and aborted
transactions, job retries. What sections 2 and 6 leave out of a modelled service is named there. Not
modelled yet:

| planned module | contents |
|---|---|
| `GatewayStream` | subscription against publish, channel and disconnects in the llm-gateway |
| `SessionProducers` | the worker's producer cache and its delayed close |
| `MemoryRules` | check-then-insert of behavioural rules; otherwise the memory-controller runs single transactions |
| proofs | abstract specifications of the response's record and of one gather, with the step-by-step refinement of `ResponseStore` and `EmbedFanout` |

The order was chosen by what hurts most: first what every message passes through (`Dlq`), then
the request (`Pipeline`), its answer (`SessionStream`), its record (`ResponseStore`), the one piece of
shared memory between requests (`EmbedFanout`), then the build pipeline and the ingestion.

## 6. Findings

Each has a run that shows the behaviour; the quoted statements are in `PROJECT.json`.

- `pipeline_replans`: a memory pack with items erases the recursion fields, so re-planning is not bounded by `MAX_RECURSION_COUNT`.
- `stream_overwrite`: sequence numbers start again with every episode, and the aggregator keeps one chunk per number.
- `store_lost`: with two replicas the read-modify-write of the content loses an acknowledged delta.
- `embed_stuck`: one duplicate answer and a timeout leave the dispatcher in a send that nobody receives.

Related behaviour of the code that limits how the passing properties are stated:

- A replayed dead letter keeps its retry count, which never grows (`RetriesBounded` and `EventuallySettled` exclude it), and
  a failing dead-letter publish is logged and the message acknowledged (the leak of `Delivery`).
- `SendError` marks an end on the session topic for failures that are retried (`ReadersAgree` asks for one author).
- Prompt and response loop may both create the prompt's row and split the record between two (`FinalShown` says
  "for a row of the prompt"); a delta that comes after the final result, late or redelivered, is appended to it (`FinalShown` says
  "begins with it"); the check of the retrieval logs reads a failure as "none" (`LogsOnceChecked` admits blind writes).
- The final result replaces the stored content by what the aggregator has assembled (pulsar_processor.go:511-514). That may lack
  acknowledged deltas: chunks of an earlier episode with the same number (`stream_overwrite`), chunks whose publish failed on the session
  topic and not on the results topic (messaging.go:201 and 206), the rest of a stream after a timeout. So one replica is enough to lose
  them; `DeltasAppended` says that nothing else does.
- A gather counts results, not indices, and a channel is known by the request id alone: a duplicate, or a late
  result of the previous embedding model, can take the place of a vector (`GatheredExactly` asks for an undisturbed attempt).

Of the build pipeline (the properties name these cases as disturbances, skips or jobs that do not end):

- Any answer of the lock service but a conflict, none included, counts as "lock acquired"; a failing call ends the heartbeat loop.
  Release and heartbeat go by service name, so they act on a lock another shell has taken over, and the heartbeat
  loop of a killed shell keeps its row fresh (`LockExcludes` asks for no such disturbance).
- A build that ends late, or a restart that seeds from the file, sets the recorded version back, and it is handed out again (`VersionsUnique`).
- After a restart or a reconnect a task meets its own job or key and is acknowledged while nobody waits for its end;
  a retry finds the failed job under its own name and fails again (`LostOnlyIfSkipped`).
- A job whose pod neither succeeds nor fails, such as one with an image that cannot be pulled (main.go:800-809), is waited for
  without end: `launchKanikoJob` sets no `activeDeadlineSeconds` and `waitForJobCompletion` (main.go:586-629) has no timeout. Each such job keeps a
  worker; with one at every worker the channel fills, and the dispatcher stays in its send (main.go:472) for good (`RequestsSettle` names both).
- A shell killed between recording a version and publishing its task leaves a version that is never built, and a
  publish answered with status 500 goes unnoticed. `documentation/OPERATIONS.md:1341-1345` describes a lock directory that no longer exists.

Of the ingestion:

- Two jobs of different models that complete at once leave both models "complete", since neither transaction sees the other's
  row (`OneComplete` excludes it, and with it the row that becomes complete while another completion waits for a lock); the docstring of `_coverage_upsert_complete` has no such case.
- A job whose connection fails, whose transaction is aborted when it fails, or whose process ends, leaves its row at "building" for ever; searches leave the tag
  out and ask for no other ingestion (`abandoned` in `BuildingHasJob`).
- The revert commits on the connection of the failed job, and with it the rows of a batch that was never sent (`DatabaseFollowsTopic`
  excepts reverted jobs); committing an aborted transaction drops its rows without an error while the row of the coverage counts them.
- Skipped chunks and an explicit subset of files still end in "complete", even with a count of zero.
- A merge deletes rows by path for one model after another, so it also takes rows that an ingestion asked for by its earlier
  group has stored. Its delete may be applied after the upserts of the ingestion it asked for (`VectorsArrive` excepts such models).
- When no tag of a search is covered, the list of tags is empty, and the adapter searches all tags.
