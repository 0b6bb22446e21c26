----------------------------- MODULE CoverageSystem -----------------------------
(***************************************************************************)
(* The ingestion service, the Qdrant adapter and the db-adapter's merge of *)
(* tags together.  A merge handles the files model by model: it deletes    *)
(* their rows, sends a delete for the model's collection, asks for a new   *)
(* ingestion and goes on whatever fails.                                   *)
(***************************************************************************)
EXTENDS Ingestion

CONSTANTS
    MaxFaults     \* bound: failing calls, kills and operations handled twice

ASSUME CoverageAssumption == MaxFaults \in Nat

VARIABLES
    merging,      \* the groups, one per model, a merge has still to handle
    merges,       \* merges so far
    faults

vars == <<ingestAll, merging, merges, faults>>

TypeOK ==
    /\ QdrantTypeOK /\ IngestTypeOK
    /\ merging \in SUBSET Models /\ merges \in 0..MaxMerges
    /\ faults \in 0..MaxFaults

Init == QdrantInit /\ IngestInit /\ merging = {} /\ merges = 0 /\ faults = 0

-------------------------------------------------------------------------------
(* MergeTags *)

MergeTags ==
    /\ merging = {} /\ merges < MaxMerges /\ merges' = merges + 1
    /\ merging' \in (SUBSET Models) \ {{}}
    /\ UNCHANGED <<ingestAll, faults>>

\* The rows go by path, the other models' rows with them; the points by path in the
\* model's collection.
MergeGroup(m) ==
    /\ m \in merging /\ merging' = merging \ {m}
    /\ rows' = [j \in Jobs |-> {}]
    /\ SendDelete(m)
    /\ \E j \in Jobs : Request(j, m)
    /\ UNCHANGED <<cov, overlapped, abandoned>>

\* Any of the three calls fails, and is logged.
MergeGroupFails(m) ==
    /\ m \in merging /\ merging' = merging \ {m}
    /\ rows' \in {rows, [j \in Jobs |-> {}]}
    /\ SendDelete(m) \/ UNCHANGED qdrantVars
    /\ (\E j \in Jobs : Request(j, m)) \/ UNCHANGED job
    /\ UNCHANGED <<cov, overlapped, abandoned>>

-------------------------------------------------------------------------------
JobStep(j) == IngestStep(j) /\ UNCHANGED <<merging, merges, faults>>
Adapter == QdrantStep /\ UNCHANGED <<ingestVars, merging, merges, faults>>

Faults ==
    /\ faults < MaxFaults /\ faults' = faults + 1 /\ UNCHANGED merges
    /\ \/ IngestFault /\ UNCHANGED merging
       \/ QdrantFault /\ UNCHANGED <<ingestVars, merging>>
       \/ \E m \in Models : MergeGroupFails(m)

Next ==
    \/ /\ \E j \in Jobs, m \in Models : Accept(j, m)
       /\ UNCHANGED <<qdrantVars, merging, merges, faults>>
    \/ \E j \in Jobs : JobStep(j)
    \/ Adapter \/ Faults
    \/ MergeTags
    \/ \E m \in Models : MergeGroup(m) /\ UNCHANGED <<merges, faults>>

\* The tasks of the service run; nobody has to ask for one.
Fairness == \A j \in Jobs : WF_vars(JobStep(j))

Spec == Init /\ [][Next]_vars /\ Fairness
===============================================================================
