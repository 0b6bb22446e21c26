------------------------------- MODULE Ingestion -------------------------------
(***************************************************************************)
(* The ingestion service for the files of one tag: the jobs, which embed   *)
(* the chunks with their model, store them as rows and send them to the    *)
(* Qdrant topic in batches, and the coverage rows in which they record     *)
(* what each model has.  Jobs run as background tasks of one process, any  *)
(* number at once; each has a database connection with a transaction open. *)
(*                                                                         *)
(* A chunk is a number.  Embedding, splitting and the object store appear  *)
(* by their failures; the rows of code_ingestion carry no state.           *)
(***************************************************************************)
EXTENDS QdrantOps

CONSTANTS
    BatchSize     \* INGEST_BATCH_SIZE

ASSUME IngestionAssumption == BatchSize \in Nat \ {0}

VARIABLES
    cov,          \* tag_embedding_coverage: each model's row, as committed
    rows,         \* code_embedding: the chunks of each job, as committed
    job,          \* each job: the step it is at, its model, and its local state
    overlapped,   \* history: two jobs recorded their models' completion at once
    abandoned     \* history: models whose row a job could not set right when it ended

ingestVars == <<cov, rows, job, overlapped, abandoned>>
ingestAll == <<ingestVars, qdrantVars>>

\* The connection: its transaction is good, or refuses everything, or it is gone.
Connections == {"ok", "aborted", "broken"}

Ended(m, done) ==
    [pc |-> "ended", model |-> m, left |-> 0, points |-> {}, open |-> {},
     done |-> done, conn |-> "ok", marks |-> {}]

JobStates ==
    [pc : {"free", "accepted", "chunks", "send", "commit", "last", "own", "others",
           "publish", "failing", "ended", "reverted"},
     model : Models, left : 0..Chunks, points : SUBSET Chunk, open : SUBSET Chunk,
     done : SUBSET Chunk, conn : Connections, marks : SUBSET Models]

Coverage == [status : {"none", "pending", "building", "complete", "stale"}, count : 0..Chunks]

IngestTypeOK ==
    /\ cov \in [Models -> Coverage] /\ rows \in [Jobs -> SUBSET Chunk]
    /\ job \in [Jobs -> JobStates]
    /\ overlapped \in BOOLEAN /\ abandoned \in SUBSET Models

IngestInit ==
    /\ cov = [m \in Models |-> [status |-> "none", count |-> 0]]
    /\ rows = [j \in Jobs |-> {}]
    /\ job = [j \in Jobs |-> [Ended(CHOOSE m \in Models : TRUE, {}) EXCEPT !.pc = "free"]]
    /\ overlapped = FALSE /\ abandoned = {}

At(j, pc) == job[j].pc = pc
Go(j, pc) == job' = [job EXCEPT ![j].pc = pc]
End(j) == job' = [job EXCEPT ![j] = Ended(@.model, @.done)]

\* From the first of the two statements that record the completion to their commit,
\* and from the second one.  The rows they change are locked.
Completing(j) == job[j].pc \in {"others", "publish"} /\ job[j].conn = "ok"
Publishing(j) == At(j, "publish") /\ job[j].conn = "ok"
Locked(m) ==
    \E j \in Jobs : \/ Completing(j) /\ m = job[j].model
                    \/ Publishing(j) /\ m \in job[j].marks

\* Past the moment it has marked its row.
Running(j) == job[j].pc \notin {"free", "accepted", "ended", "reverted"}

-------------------------------------------------------------------------------
(* trigger_ingest, and the start of the job *)

\* Ids are given in order.
Request(j, m) ==
    /\ At(j, "free") /\ \A i \in Jobs : i < j => ~At(i, "free")
    /\ job' = [job EXCEPT ![j].pc = "accepted", ![j].model = m]

\* Asked for by a user, or by a search of a tag the model does not cover.
Accept(j, m) == Request(j, m) /\ UNCHANGED <<cov, rows, overlapped, abandoned>>

\* The row says "building" from here on, whatever it said before.
MarkBuilding(j) ==
    /\ At(j, "accepted") /\ ~Locked(job[j].model)
    /\ cov' = [cov EXCEPT ![job[j].model].status = "building"]

\* Mutant: one file more than there are.
MutOneMore(j) ==
    /\ MarkBuilding(j)
    /\ job' = [job EXCEPT ![j].pc = "chunks", ![j].left = Chunks + 1]
    /\ UNCHANGED <<rows, overlapped, abandoned, qdrantVars>>

\* All files, or those that were asked for.
Start(j) ==
    /\ MarkBuilding(j)
    /\ \E left \in 1..Chunks : job' = [job EXCEPT ![j].pc = "chunks", ![j].left = left]
    /\ UNCHANGED <<rows, overlapped, abandoned, qdrantVars>>

\* No connection, no producer, no model dimensions, or the row cannot be marked.
StartFails(j) ==
    /\ At(j, "accepted")
    /\ End(j)
    /\ UNCHANGED <<cov, rows, overlapped, abandoned, qdrantVars>>

\* The tag cannot be mapped to the ingestion: that aborts the transaction.
MapFails(j) ==
    /\ MarkBuilding(j)
    /\ job' = [job EXCEPT ![j].pc = "failing", ![j].conn = "aborted"]
    /\ UNCHANGED <<rows, overlapped, abandoned, qdrantVars>>

-------------------------------------------------------------------------------
(* The chunks *)

\* A chunk is appended to the batch, its row inserted, and counted.
EmbedChunk(j) ==
    /\ At(j, "chunks") /\ job[j].left > 0 /\ job[j].conn = "ok"
    /\ LET c == job[j].left
           batch == job[j].points \cup {c}
       IN job' = [job EXCEPT
            ![j].left = c - 1, ![j].points = batch,
            ![j].open = @ \cup {c}, ![j].done = @ \cup {c},
            ![j].pc = IF Cardinality(batch) >= BatchSize THEN "send" ELSE "chunks"]
    /\ UNCHANGED <<cov, rows, overlapped, abandoned, qdrantVars>>

\* The chunk cannot be embedded, or its file not read: it is left out.
SkipChunk(j) ==
    /\ At(j, "chunks") /\ job[j].left > 0
    /\ job' = [job EXCEPT ![j].left = @ - 1]
    /\ UNCHANGED <<cov, rows, overlapped, abandoned, qdrantVars>>

\* The row is not inserted.  The point is in the batch all the same; the rest of
\* the file is skipped, and the transaction refuses every later row.
InsertFails(j) ==
    /\ At(j, "chunks") /\ job[j].left > 0
    /\ \E left \in 0..(job[j].left - 1) :
         job' = [job EXCEPT ![j].left = left, ![j].points = @ \cup {job[j].left},
                            ![j].conn = IF @ = "ok" THEN "aborted" ELSE @]
    /\ UNCHANGED <<cov, rows, overlapped, abandoned, qdrantVars>>

InsertRefused(j) == job[j].conn # "ok" /\ InsertFails(j)

SendBatch(j) ==
    /\ At(j, "send")
    /\ SendUpsert(j, job[j].model, job[j].points)
    /\ Go(j, "commit")
    /\ UNCHANGED <<cov, rows, overlapped, abandoned>>

\* The rest of the file is skipped; the batch is kept, the transaction open.
SkipFile(j) ==
    \E left \in 0..job[j].left :
        job' = [job EXCEPT ![j].pc = "chunks", ![j].left = left]

SendFails(j) ==
    /\ At(j, "send")
    /\ SkipFile(j)
    /\ UNCHANGED <<cov, rows, overlapped, abandoned, qdrantVars>>

\* Mutant: a batch whose commit fails is sent again at once.
MutResendForever(j) ==
    /\ At(j, "commit")
    /\ \/ /\ job[j].conn = "ok"
          /\ rows' = [rows EXCEPT ![j] = @ \cup job[j].open]
          /\ job' = [job EXCEPT ![j].pc = "chunks", ![j].points = {}, ![j].open = {}]
       \/ job[j].conn # "ok" /\ Go(j, "send") /\ UNCHANGED rows
    /\ UNCHANGED <<cov, overlapped, abandoned, qdrantVars>>

\* The commit that fails leaves the batch as it is, to be sent with the next one.
CommitBatch(j) ==
    /\ At(j, "commit")
    /\ \/ /\ job[j].conn = "ok"
          /\ rows' = [rows EXCEPT ![j] = @ \cup job[j].open]
          /\ job' = [job EXCEPT ![j].pc = "chunks", ![j].points = {}, ![j].open = {}]
       \/ job[j].conn # "ok" /\ SkipFile(j) /\ UNCHANGED rows
    /\ UNCHANGED <<cov, overlapped, abandoned, qdrantVars>>

-------------------------------------------------------------------------------
(* The end of the job *)

NothingLeft(j) == At(j, "chunks") /\ job[j].left = 0

\* Mutant: what is left in the batch is not sent.
MutNoFinalBatch(j) ==
    /\ NothingLeft(j)
    /\ Go(j, "last")
    /\ UNCHANGED <<cov, rows, overlapped, abandoned, qdrantVars>>

\* The last batch, if there is one.
Finish(j) ==
    /\ NothingLeft(j)
    /\ \/ job[j].points = {} /\ Go(j, "own") /\ UNCHANGED qdrantVars
       \/ /\ job[j].points # {}
          /\ SendUpsert(j, job[j].model, job[j].points)
          /\ Go(j, "last")
    /\ UNCHANGED <<cov, rows, overlapped, abandoned>>

FinalSendFails(j) ==
    /\ NothingLeft(j) /\ job[j].points # {}
    /\ Go(j, "failing")
    /\ UNCHANGED <<cov, rows, overlapped, abandoned, qdrantVars>>

\* Committing an aborted transaction drops its rows and is no error.
CommitFinal(j) ==
    /\ At(j, "last")
    /\ \/ job[j].conn = "broken" /\ Go(j, "failing") /\ UNCHANGED rows
       \/ /\ job[j].conn # "broken"
          /\ rows' = [rows EXCEPT ![j] = IF job[j].conn = "ok" THEN @ \cup job[j].open ELSE @]
          /\ job' = [job EXCEPT ![j].pc = "own", ![j].conn = "ok",
                                ![j].points = {}, ![j].open = {}]
    /\ UNCHANGED <<cov, overlapped, abandoned, qdrantVars>>

OthersComplete(j) == {m \in Models \ {job[j].model} : cov[m].status = "complete"}

\* Another job, of another model, is between its statements and its commit.
Overlaps(j) ==
    \E i \in Jobs : Completing(i) /\ job[i].model # job[j].model

\* Mutant: only rows with vectors become stale.
MutKeepEmpty(j) ==
    /\ At(j, "own") /\ job[j].conn = "ok" /\ ~Locked(job[j].model)
    /\ job' = [job EXCEPT ![j].pc = "others",
                          ![j].marks = {m \in OthersComplete(j) : cov[m].count > 0}]
    /\ overlapped' = (overlapped \/ Overlaps(j))
    /\ UNCHANGED <<cov, rows, abandoned, qdrantVars>>

\* The two statements of _coverage_upsert_complete.  The first waits for the job's own
\* row and locks it; the second finds the rows that are committed as "complete" when
\* it begins,
MarkComplete(j) ==
    /\ At(j, "own") /\ job[j].conn = "ok" /\ ~Locked(job[j].model)
    /\ job' = [job EXCEPT ![j].pc = "others", ![j].marks = OthersComplete(j)]
    /\ overlapped' = (overlapped \/ Overlaps(j))
    /\ UNCHANGED <<cov, rows, abandoned, qdrantVars>>

\* waits for those another job has changed, and takes the ones that still are.  A row
\* that has become "complete" during the wait is not seen.
MarkOthers(j) ==
    /\ At(j, "others") /\ job[j].conn = "ok"
    /\ \A m \in job[j].marks : ~Locked(m)
    /\ job' = [job EXCEPT ![j].pc = "publish",
                          ![j].marks = {m \in @ : cov[m].status = "complete"}]
    /\ UNCHANGED <<cov, rows, overlapped, abandoned, qdrantVars>>

\* vector_count is the number of rows the job has inserted.
CommitCoverage(j) ==
    /\ Publishing(j)
    /\ cov' = [m \in Models |->
                 IF m = job[j].model
                 THEN [status |-> "complete", count |-> Cardinality(job[j].done)]
                 ELSE IF m \in job[j].marks THEN [cov[m] EXCEPT !.status = "stale"]
                 ELSE cov[m]]
    /\ End(j)
    /\ UNCHANGED <<rows, overlapped, abandoned, qdrantVars>>

\* An error that is only logged, the row left as it is.
Abandon(j) == End(j) /\ abandoned' = abandoned \cup {job[j].model}

CompleteFails(j) ==
    /\ job[j].pc \in {"own", "others", "publish"} /\ job[j].conn # "ok"
    /\ Abandon(j)
    /\ UNCHANGED <<cov, rows, overlapped, qdrantVars>>

\* Mutant: the revert only looks at rows that have vectors.
MutRevertStaleOnly(j) ==
    /\ At(j, "failing") /\ job[j].conn = "ok" /\ ~Locked(job[j].model)
    /\ cov' = [cov EXCEPT ![job[j].model].status = IF cov[job[j].model].count > 0 THEN "stale" ELSE @]
    /\ rows' = [rows EXCEPT ![j] = @ \cup job[j].open]
    /\ job' = [job EXCEPT ![j] = [Ended(@.model, @.done) EXCEPT !.pc = "reverted"]]
    /\ UNCHANGED <<overlapped, abandoned, qdrantVars>>

\* _coverage_revert_on_failure; its commit also commits what the failed job had open.
Revert(j) ==
    /\ At(j, "failing") /\ job[j].conn = "ok" /\ ~Locked(job[j].model)
    /\ cov' = [cov EXCEPT ![job[j].model].status =
                 IF cov[job[j].model].count > 0 THEN "stale" ELSE "pending"]
    /\ rows' = [rows EXCEPT ![j] = @ \cup job[j].open]
    /\ job' = [job EXCEPT ![j] = [Ended(@.model, @.done) EXCEPT !.pc = "reverted"]]
    /\ UNCHANGED <<overlapped, abandoned, qdrantVars>>

RevertFails(j) ==
    /\ At(j, "failing") /\ job[j].conn # "ok"
    /\ Abandon(j)
    /\ UNCHANGED <<cov, rows, overlapped, qdrantVars>>

-------------------------------------------------------------------------------
(* Faults *)

LoseConnection(j) ==
    /\ Running(j) /\ job[j].conn # "broken"
    /\ job' = [job EXCEPT ![j].conn = "broken", ![j].open = {}, ![j].marks = {}]
    /\ UNCHANGED <<cov, rows, overlapped, abandoned, qdrantVars>>

\* The process ends, and every job with it; nothing looks for them at the next start.
Crash ==
    /\ \E j \in Jobs : Running(j) \/ At(j, "accepted")
    /\ job' = [j \in Jobs |-> IF Running(j) \/ At(j, "accepted")
                              THEN Ended(job[j].model, job[j].done) ELSE job[j]]
    /\ abandoned' = abandoned \cup {job[j].model : j \in {i \in Jobs : Running(i)}}
    /\ UNCHANGED <<cov, rows, overlapped, qdrantVars>>

IngestStep(j) ==
    \/ Start(j) \/ EmbedChunk(j) \/ InsertRefused(j) \/ SendBatch(j) \/ CommitBatch(j)
    \/ Finish(j) \/ CommitFinal(j) \/ MarkComplete(j) \/ MarkOthers(j)
    \/ CommitCoverage(j) \/ CompleteFails(j) \/ Revert(j) \/ RevertFails(j)

IngestFault ==
    \/ \E j \in Jobs :
         StartFails(j) \/ MapFails(j) \/ SkipChunk(j) \/ InsertFails(j) \/ SendFails(j)
         \/ FinalSendFails(j) \/ LoseConnection(j)
    \/ Crash

-------------------------------------------------------------------------------
Building(m) == cov[m].status = "building"

(* "building" means that a job is running, for otherwise searches leave    *)
(* the tag out and nobody ingests it again.  A row can only stay behind    *)
(* when a job was killed or could not write the row when it ended.         *)
BuildingHasJob ==
    \A m \in Models \ abandoned :
        Building(m) => \E j \in Jobs : Running(j) /\ job[j].model = m

(* A job that completes makes the models that were complete stale, since   *)
(* they may lack its files: one model of a tag is complete at a time,      *)
(* unless two jobs recorded their completion at once and neither saw the   *)
(* other's row.                                                            *)
OneComplete ==
    ~overlapped => \A m, n \in Models :
        cov[m].status = "complete" /\ cov[n].status = "complete" => m = n

Sent(j, c) == \E s \in sent : s.job = j /\ s.chunk = c

(* The database never runs ahead of the topic: the vector of a committed   *)
(* row has been sent, and so have those a complete row counts, whatever    *)
(* was skipped, refused, sent again or rolled back on the way.  Only the   *)
(* rows of a last batch that could not be sent are without vectors: the    *)
(* commit of the revert makes them permanent.                              *)
DatabaseFollowsTopic ==
    /\ \A j \in Jobs : ~At(j, "reverted") => \A c \in rows[j] : Sent(j, c)
    /\ \A m \in Models : cov[m].status = "complete" =>
         \E j \in Jobs :
            /\ job[j].model = m /\ At(j, "ended")
            /\ Cardinality(job[j].done) = cov[m].count
            /\ \A c \in job[j].done : Sent(j, c)

(* Rows that are being built do not stay so: again and again, every row    *)
(* has been settled, or given up for good.                                 *)
Unsettled == \E m \in Models : Building(m) /\ m \notin abandoned
BuildingSettles == []<>~Unsettled
===============================================================================
