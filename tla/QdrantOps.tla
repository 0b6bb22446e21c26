------------------------------- MODULE QdrantOps -------------------------------
(***************************************************************************)
(* The topic of Qdrant operations and the adapter that applies them, for   *)
(* the files of one tag.  The adapter handles every message in a goroutine *)
(* of its own, so operations are applied in any order; one that fails is   *)
(* tried again by the dead-letter handler and dead-lettered in the end.    *)
(*                                                                         *)
(* Points have fresh ids, so an upsert applied twice changes nothing; an   *)
(* upsert creates the collection it misses, so collections are left out.   *)
(***************************************************************************)
EXTENDS Integers, FiniteSets

CONSTANTS
    Models,       \* embedding models, each with a collection of its own
    Jobs,         \* ingestion jobs, by id
    Chunks,       \* chunks a job cuts the files into
    MaxMerges     \* bound: tag merges

ASSUME QdrantAssumption ==
    Models # {} /\ Jobs \subseteq Nat /\ Chunks \in Nat /\ MaxMerges \in Nat

VARIABLES
    topic,        \* operations not yet acknowledged
    vec,          \* vec[m][j]: the chunks of job j in the collection of model m
    gen,          \* deletes sent to the collection of each model
    sent,         \* history: the chunks sent, by whom, and after how many deletes
    newest,       \* history: the youngest upsert applied, counted in deletes before it
    wiped,        \* history: the deletes before the youngest delete applied, it included
    overtaken,    \* history: models for which a delete and an upsert changed places
    dead          \* models with an operation in the dead-letter topic

qdrantVars == <<topic, vec, gen, sent, newest, wiped, overtaken, dead>>
received == <<vec, newest, wiped, overtaken, dead>>

Chunk == 1..Chunks
Upserts == [kind : {"upsert"}, model : Models, gen : 0..MaxMerges, job : Jobs, points : SUBSET Chunk]
Deletes == [kind : {"delete"}, model : Models, gen : 0..MaxMerges]

QdrantTypeOK ==
    /\ \A o \in topic : o \in Upserts \cup Deletes
    /\ vec \in [Models -> [Jobs -> SUBSET Chunk]]
    /\ gen \in [Models -> 0..MaxMerges]
    /\ sent \in SUBSET [model : Models, gen : 0..MaxMerges, job : Jobs, chunk : Chunk]
    /\ newest \in [Models -> 0..MaxMerges] /\ wiped \in [Models -> 0..MaxMerges]
    /\ overtaken \in SUBSET Models /\ dead \in SUBSET Models

QdrantInit ==
    /\ topic = {} /\ vec = [m \in Models |-> [j \in Jobs |-> {}]]
    /\ gen = [m \in Models |-> 0] /\ sent = {}
    /\ newest = [m \in Models |-> 0] /\ wiped = [m \in Models |-> 0]
    /\ overtaken = {} /\ dead = {}

-------------------------------------------------------------------------------
(* Producers *)

SendUpsert(j, m, points) ==
    /\ topic' = topic \cup {[kind |-> "upsert", model |-> m, gen |-> gen[m],
                             job |-> j, points |-> points]}
    /\ sent' = sent \cup {[model |-> m, gen |-> gen[m], job |-> j, chunk |-> c] : c \in points}
    /\ UNCHANGED <<gen, received>>

\* By path, in the collection of one model.
SendDelete(m) ==
    /\ gen[m] < MaxMerges
    /\ topic' = topic \cup {[kind |-> "delete", model |-> m, gen |-> gen[m]]}
    /\ gen' = [gen EXCEPT ![m] = @ + 1]
    /\ UNCHANGED <<sent, received>>

-------------------------------------------------------------------------------
(* The adapter *)

\* Mutant: without an embedding model the delete goes to every collection.
MutEverywhere(o) ==
    /\ o.kind = "delete"
    /\ vec' = [m \in Models |-> [j \in Jobs |-> {}]]

Delete(o) ==
    /\ o.kind = "delete"
    /\ vec' = [vec EXCEPT ![o.model] = [j \in Jobs |-> {}]]

Upsert(o) ==
    /\ o.kind = "upsert"
    /\ vec' = [vec EXCEPT ![o.model][o.job] = @ \cup o.points]

\* Does o come after an operation that was sent later and does not commute with it?
TooLate(o) ==
    \/ o.kind = "delete" /\ o.gen < newest[o.model]
    \/ o.kind = "upsert" /\ o.gen < wiped[o.model]

AtLeast(a, b) == IF a > b THEN a ELSE b

NoteOrder(o) ==
    /\ overtaken' = IF TooLate(o) THEN overtaken \cup {o.model} ELSE overtaken
    /\ newest' = IF o.kind = "upsert"
                 THEN [newest EXCEPT ![o.model] = AtLeast(@, o.gen)] ELSE newest
    /\ wiped' = IF o.kind = "delete"
                THEN [wiped EXCEPT ![o.model] = AtLeast(@, o.gen + 1)] ELSE wiped

ExecuteOp(o) == (Delete(o) \/ Upsert(o)) /\ NoteOrder(o)

\* Executed, its result published, acknowledged.
ApplyOp(o) ==
    /\ ExecuteOp(o)
    /\ topic' = topic \ {o}
    /\ UNCHANGED <<gen, sent, dead>>

\* Executed, and then the result is not published or the adapter dies: it comes again.
ApplyUnacknowledged(o) ==
    /\ ExecuteOp(o)
    /\ UNCHANGED <<topic, gen, sent, dead>>

\* Qdrant fails it until the dead-letter handler gives up.
DeadLetterOp(o) ==
    /\ topic' = topic \ {o} /\ dead' = dead \cup {o.model}
    /\ UNCHANGED <<vec, gen, sent, newest, wiped, overtaken>>

QdrantStep == \E o \in topic : ApplyOp(o)
QdrantFault == \E o \in topic : ApplyUnacknowledged(o) \/ DeadLetterOp(o)

QdrantNext ==
    \/ \E j \in Jobs, m \in Models, points \in SUBSET Chunk : SendUpsert(j, m, points)
    \/ \E m \in Models : SendDelete(m)
    \/ QdrantStep \/ QdrantFault

QdrantSpec == QdrantInit /\ [][QdrantNext]_qdrantVars

-------------------------------------------------------------------------------
Wanted(m, j, c) == [model |-> m, gen |-> gen[m], job |-> j, chunk |-> c] \in sent

(* Once a model has no operation under way and none was dead-lettered, its *)
(* collection holds exactly what was sent after the last delete, unless an *)
(* upsert and a delete were applied in another order than they were sent:  *)
(* the one thing the goroutine per message can spoil.                      *)
VectorsArrive ==
    \A m \in Models \ (overtaken \cup dead) :
        (\A o \in topic : o.model # m) =>
            \A j \in Jobs, c \in Chunk : c \in vec[m][j] <=> Wanted(m, j, c)
===============================================================================
