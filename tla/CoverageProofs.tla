---------------------------- MODULE CoverageProofs ----------------------------
(***************************************************************************)
(* Ingestion, the Qdrant topic and tag merges, for any number of models,   *)
(* jobs, chunks, merges and faults.  The topic is proved on its own first; *)
(* the whole follows its protocol, so what is proved of it carries over.   *)
(***************************************************************************)
EXTENDS CoverageSystem, FiniteSetTheorems, TLAPS

(* The topic *)

\* What is under way, and in which place among the deletes.
Underway ==
    /\ \A m \in Models : newest[m] <= gen[m] /\ wiped[m] <= gen[m]
    /\ \A s \in sent : s.gen <= gen[s.model]
    /\ \A o \in topic : o.gen <= gen[o.model]
    /\ \A o \in topic : o.kind = "delete" => o.gen < gen[o.model]
    /\ \A o \in topic : o.kind = "upsert" => \A c \in o.points :
          [model |-> o.model, gen |-> o.gen, job |-> o.job, chunk |-> c] \in sent

\* An upsert that brings the chunk c of job j, sent after the last delete.
Coming(m, j, c) ==
    \E o \in topic : /\ o.kind = "upsert" /\ o.model = m /\ o.gen = gen[m]
                     /\ o.job = j /\ c \in o.points

\* Of a model whose operations kept their order and were not given up: the last
\* delete is under way or was applied; what is wanted is under way or is there;
\* once the last delete was applied, nothing else is there.
Ordered(m) ==
    /\ wiped[m] < gen[m] =>
          \E o \in topic : o.kind = "delete" /\ o.model = m /\ o.gen = gen[m] - 1
    /\ \A j \in Jobs, c \in Chunk : Wanted(m, j, c) =>
          Coming(m, j, c) \/ (c \in vec[m][j] /\ newest[m] = gen[m])
    /\ wiped[m] = gen[m] => \A j \in Jobs : \A c \in vec[m][j] : Wanted(m, j, c)

QdrantInv ==
    /\ QdrantTypeOK /\ Underway
    /\ \A m \in Models \ (overtaken \cup dead) : Ordered(m)

LEMMA QdrantAtFirst == QdrantInit => QdrantInv
BY QdrantAssumption
   DEF QdrantInit, QdrantInv, QdrantTypeOK, Underway, Ordered, Wanted

LEMMA UpsertSent ==
    ASSUME QdrantInv, NEW j \in Jobs, NEW m \in Models, NEW points \in SUBSET Chunk,
           SendUpsert(j, m, points)
    PROVE  QdrantInv'
<1> DEFINE o == [kind |-> "upsert", model |-> m, gen |-> gen[m], job |-> j, points |-> points]
           new == {[model |-> m, gen |-> gen[m], job |-> j, chunk |-> c] : c \in points}
<1>1. /\ topic' = topic \cup {o} /\ sent' = sent \cup new /\ gen' = gen /\ vec' = vec
      /\ newest' = newest /\ wiped' = wiped /\ overtaken' = overtaken /\ dead' = dead
    BY DEF SendUpsert, received
<1>2. gen[m] \in 0..MaxMerges /\ o \in Upserts
    BY DEF QdrantInv, QdrantTypeOK, Upserts
<1>3. QdrantTypeOK'
    <2>1. new \in SUBSET [model : Models, gen : 0..MaxMerges, job : Jobs, chunk : Chunk]
        BY <1>2
    <2> HIDE DEF o, new
    <2> QED BY <1>1, <1>2, <2>1 DEF QdrantInv, QdrantTypeOK
<1>4. Underway'
    BY <1>1, <1>2 DEF QdrantInv, QdrantTypeOK, Underway
<1>5. ASSUME NEW n \in Models \ (overtaken \cup dead) PROVE Ordered(n)'
    <2>1. Ordered(n)
        BY DEF QdrantInv
    <2>2. ASSUME NEW i \in Jobs, NEW c \in Chunk, Coming(n, i, c) PROVE Coming(n, i, c)'
        BY <1>1, <2>2 DEF Coming
    <2>3. ASSUME NEW i \in Jobs, NEW c \in Chunk, Wanted(n, i, c)', ~Wanted(n, i, c)
          PROVE  Coming(n, i, c)'
        <3>1. [model |-> n, gen |-> gen[n], job |-> i, chunk |-> c] \in new
            BY <1>1, <2>3 DEF Wanted
        <3>2. n = m /\ i = j /\ c \in points
            BY <3>1
        <3>3. o \in topic' /\ o.kind = "upsert" /\ o.model = m /\ o.gen = gen'[m]
              /\ o.job = j /\ o.points = points
            BY <1>1
        <3> QED BY <3>2, <3>3 DEF Coming
    <2>4. \A i \in Jobs, c \in Chunk : Wanted(n, i, c) => Wanted(n, i, c)'
        BY <1>1 DEF Wanted
    <2>5. \A i \in Jobs : vec[n][i] \subseteq Chunk
        BY DEF QdrantInv, QdrantTypeOK
    <2> HIDE DEF o, new
    <2>6. (wiped[n] = gen[n] => \A i \in Jobs : \A c \in vec[n][i] : Wanted(n, i, c))'
        BY <1>1, <2>1, <2>4, <2>5 DEF Ordered
    <2>7. (wiped[n] < gen[n] =>
             \E p \in topic : p.kind = "delete" /\ p.model = n /\ p.gen = gen[n] - 1)'
        BY <1>1, <2>1 DEF Ordered
    <2>8. (\A i \in Jobs, c \in Chunk : Wanted(n, i, c) =>
             Coming(n, i, c) \/ (c \in vec[n][i] /\ newest[n] = gen[n]))'
        BY <1>1, <2>1, <2>2, <2>3 DEF Ordered
    <2> QED BY <2>6, <2>7, <2>8 DEF Ordered
<1> QED BY <1>1, <1>3, <1>4, <1>5 DEF QdrantInv

LEMMA DeleteSent ==
    ASSUME QdrantInv, NEW m \in Models, SendDelete(m)
    PROVE  QdrantInv'
<1> DEFINE o == [kind |-> "delete", model |-> m, gen |-> gen[m]]
<1>1. /\ topic' = topic \cup {o} /\ gen' = [gen EXCEPT ![m] = @ + 1] /\ gen[m] < MaxMerges
      /\ sent' = sent /\ vec' = vec /\ newest' = newest /\ wiped' = wiped
      /\ overtaken' = overtaken /\ dead' = dead
    BY DEF SendDelete, received
<1>2. gen \in [Models -> 0..MaxMerges] /\ o \in Deletes
    BY DEF QdrantInv, QdrantTypeOK, Deletes
<1>3. gen' \in [Models -> 0..MaxMerges] /\ gen'[m] = gen[m] + 1
      /\ \A n \in Models : n # m => gen'[n] = gen[n]
    BY <1>1, <1>2, QdrantAssumption
<1>4. QdrantTypeOK'
    <2> HIDE DEF o
    <2> QED BY <1>1, <1>2, <1>3 DEF QdrantInv, QdrantTypeOK
<1>5. \A n \in Models : gen[n] \in Int /\ gen'[n] \in Int /\ gen[n] <= gen'[n]
    BY <1>2, <1>3
<1>6. Underway'
    <2>1. /\ \A p \in topic : p.model \in Models /\ p.gen \in Int
          /\ \A s \in sent : s.model \in Models /\ s.gen \in Int
          /\ \A n \in Models : newest[n] \in Int /\ wiped[n] \in Int
        BY DEF QdrantInv, QdrantTypeOK, Upserts, Deletes
    <2>2. o.kind = "delete" /\ o.model = m /\ o.gen = gen[m]
        OBVIOUS
    <2> HIDE DEF o
    <2> QED BY <1>1, <1>3, <1>5, <2>1, <2>2 DEF QdrantInv, Underway
<1>7. ASSUME NEW n \in Models \ (overtaken \cup dead) PROVE Ordered(n)'
    <2>1. Ordered(n)
        BY DEF QdrantInv
    <2>2. CASE n # m
        BY <1>1, <1>3, <2>1, <2>2 DEF Ordered, Wanted, Coming
    <2>3. CASE n = m
        <3>1. ASSUME NEW j \in Jobs, NEW c \in Chunk PROVE ~Wanted(n, j, c)'
            BY <1>1, <1>2, <1>3, <2>3 DEF QdrantInv, Underway, Wanted
        <3>2. wiped[n] \in Int /\ wiped[n] <= gen[n] /\ gen[n] \in Int
            BY DEF QdrantInv, QdrantTypeOK, Underway
        <3>3. o \in topic' /\ o.gen = gen'[n] - 1 /\ o.kind = "delete" /\ o.model = n
            BY <1>1, <1>3, <2>3, <3>2
        <3>4. wiped'[n] # gen'[n]
            BY <1>1, <1>3, <2>3, <3>2
        <3> QED BY <3>1, <3>3, <3>4 DEF Ordered
    <2> QED BY <2>2, <2>3
<1> QED BY <1>1, <1>4, <1>6, <1>7 DEF QdrantInv

-------------------------------------------------------------------------------
\* What one operation does to the collections, whether it is acknowledged or not.
LEMMA OrderNoted ==
    ASSUME QdrantTypeOK, NEW o \in topic, ExecuteOp(o)
    PROVE  /\ vec' \in [Models -> [Jobs -> SUBSET Chunk]]
           /\ newest' \in [Models -> 0..MaxMerges] /\ overtaken' \in SUBSET Models
           /\ overtaken \subseteq overtaken'
           /\ \A m \in Models : m # o.model => /\ vec'[m] = vec[m] /\ newest'[m] = newest[m]
                                             /\ wiped'[m] = wiped[m]
<1>1. CASE Delete(o)
    BY <1>1 DEF QdrantTypeOK, ExecuteOp, NoteOrder, Delete, Upserts, Deletes
<1>2. CASE Upsert(o)
    BY <1>2 DEF QdrantTypeOK, ExecuteOp, NoteOrder, Upsert, Upserts, Deletes, AtLeast
<1> QED BY <1>1, <1>2 DEF ExecuteOp

LEMMA DeleteApplied ==
    ASSUME QdrantInv, NEW o \in topic, Delete(o), NoteOrder(o),
           gen' = gen, sent' = sent, topic \ {o} \subseteq topic', topic' \subseteq topic
    PROVE  /\ wiped' \in [Models -> 0..MaxMerges]
           /\ \A m \in Models : newest'[m] <= gen[m] /\ wiped'[m] <= gen[m]
           /\ \A m \in Models \ (overtaken' \cup dead) : Ordered(m)'
<1> DEFINE d == o.model
<1>1. /\ o.kind = "delete" /\ d \in Models /\ o.gen \in 0..MaxMerges /\ o.gen < gen[d]
      /\ gen \in [Models -> 0..MaxMerges] /\ newest \in [Models -> 0..MaxMerges]
      /\ wiped \in [Models -> 0..MaxMerges] /\ vec \in [Models -> [Jobs -> SUBSET Chunk]]
    BY DEF QdrantInv, QdrantTypeOK, Underway, Upserts, Deletes, Delete
<1>2. /\ vec' = [vec EXCEPT ![d] = [j \in Jobs |-> {}]]
      /\ newest' = newest /\ wiped' = [wiped EXCEPT ![d] = AtLeast(@, o.gen + 1)]
      /\ overtaken \subseteq overtaken'
      /\ o.gen < newest[d] => d \in overtaken'
    BY <1>1 DEF Delete, NoteOrder, TooLate
<1>3. gen[d] \in 0..MaxMerges /\ wiped[d] \in 0..MaxMerges /\ newest[d] \in 0..MaxMerges
      /\ wiped[d] <= gen[d] /\ newest[d] <= gen[d]
    BY <1>1 DEF QdrantInv, Underway
<1>4. wiped'[d] = AtLeast(wiped[d], o.gen + 1) /\ wiped'[d] \in 0..MaxMerges
      /\ wiped'[d] <= gen[d] /\ wiped[d] <= wiped'[d] /\ o.gen + 1 <= wiped'[d]
    BY <1>1, <1>2, <1>3, QdrantAssumption DEF AtLeast
<1>5. \A m \in Models : m # d => wiped'[m] = wiped[m]
    BY <1>1, <1>2
<1>6. wiped' \in [Models -> 0..MaxMerges]
    BY <1>1, <1>2, <1>4
<1>7. \A m \in Models : newest'[m] <= gen[m] /\ wiped'[m] <= gen[m]
    BY <1>2, <1>4, <1>5 DEF QdrantInv, Underway
<1>8. ASSUME NEW m \in Models \ (overtaken' \cup dead) PROVE Ordered(m)'
    <2>1. Ordered(m) /\ gen[m] \in 0..MaxMerges /\ newest[m] \in 0..MaxMerges
        BY <1>1, <1>2 DEF QdrantInv
    <2>2. ASSUME NEW j \in Jobs, NEW c \in Chunk, Coming(m, j, c) PROVE Coming(m, j, c)'
        BY <1>1, <2>2 DEF Coming
    <2>3. \A j \in Jobs, c \in Chunk : Wanted(m, j, c)' <=> Wanted(m, j, c)
        BY DEF Wanted
    <2>4. (wiped[m] < gen[m] =>
             \E p \in topic : p.kind = "delete" /\ p.model = m /\ p.gen = gen[m] - 1)'
        BY <1>1, <1>3, <1>4, <1>5, <2>1 DEF Ordered
    <2>5. CASE m # d
        <3>1. vec'[m] = vec[m] /\ vec[m] \in [Jobs -> SUBSET Chunk] /\ newest'[m] = newest[m]
            BY <1>1, <1>2, <2>5
        <3>2. (\A j \in Jobs, c \in Chunk : Wanted(m, j, c) =>
                 Coming(m, j, c) \/ (c \in vec[m][j] /\ newest[m] = gen[m]))'
            BY <2>1, <2>2, <2>3, <3>1 DEF Ordered
        <3>3. (wiped[m] = gen[m] => \A j \in Jobs : \A c \in vec[m][j] : Wanted(m, j, c))'
            BY <1>5, <2>1, <2>3, <2>5, <3>1 DEF Ordered
        <3> QED BY <2>4, <3>2, <3>3 DEF Ordered
    <2>6. CASE m = d
        <3>1. newest[m] # gen[m]
            BY <1>1, <1>2, <2>1, <2>6
        <3>2. (\A j \in Jobs, c \in Chunk : Wanted(m, j, c) =>
                 Coming(m, j, c) \/ (c \in vec[m][j] /\ newest[m] = gen[m]))'
            BY <2>1, <2>2, <2>3, <3>1 DEF Ordered
        <3>3. \A j \in Jobs : vec'[m][j] = {}
            BY <1>1, <1>2, <2>6
        <3> QED BY <2>4, <3>2, <3>3 DEF Ordered
    <2> QED BY <2>5, <2>6
<1> QED BY <1>6, <1>7, <1>8

LEMMA AtLeastBound ==
    ASSUME NEW a \in Int, NEW b \in Int, NEW c \in Int, a <= c, b <= c
    PROVE  AtLeast(a, b) <= c /\ (a = c \/ b = c => AtLeast(a, b) = c)
BY DEF AtLeast

LEMMA UpsertApplied ==
    ASSUME QdrantInv, NEW o \in topic, Upsert(o), NoteOrder(o),
           gen' = gen, sent' = sent, topic \ {o} \subseteq topic', topic' \subseteq topic
    PROVE  /\ wiped' \in [Models -> 0..MaxMerges]
           /\ \A m \in Models : newest'[m] <= gen[m] /\ wiped'[m] <= gen[m]
           /\ \A m \in Models \ (overtaken' \cup dead) : Ordered(m)'
<1> DEFINE d == o.model
<1>1. /\ o.kind = "upsert" /\ o \in Upserts /\ o.gen <= gen[d]
      /\ gen \in [Models -> 0..MaxMerges] /\ newest \in [Models -> 0..MaxMerges]
      /\ wiped \in [Models -> 0..MaxMerges] /\ vec \in [Models -> [Jobs -> SUBSET Chunk]]
    BY DEF QdrantInv, QdrantTypeOK, Underway, Upserts, Deletes, Upsert
<1>2. d \in Models /\ o.job \in Jobs /\ o.points \subseteq Chunk /\ o.gen \in 0..MaxMerges
    BY <1>1 DEF Upserts
<1>3. /\ vec' = [vec EXCEPT ![d][o.job] = @ \cup o.points]
      /\ wiped' = wiped /\ newest' = [newest EXCEPT ![d] = AtLeast(@, o.gen)]
      /\ overtaken \subseteq overtaken'
      /\ o.gen < wiped[d] => d \in overtaken'
    BY <1>1 DEF Upsert, NoteOrder, TooLate
<1>4. gen[d] \in 0..MaxMerges /\ newest[d] \in 0..MaxMerges /\ newest[d] <= gen[d]
    BY <1>1, <1>2 DEF QdrantInv, Underway
<1>5. newest'[d] = AtLeast(newest[d], o.gen) /\ newest'[d] <= gen[d]
      /\ (newest[d] = gen[d] \/ o.gen = gen[d] => newest'[d] = gen[d])
    <2>1. newest'[d] = AtLeast(newest[d], o.gen)
        BY <1>1, <1>2, <1>3
    <2>2. gen[d] \in Int /\ newest[d] \in Int /\ o.gen \in Int
        BY <1>2, <1>4
    <2>3. o.gen <= gen[d] /\ newest[d] <= gen[d]
        BY <1>1, <1>4
    <2> QED BY <2>1, <2>2, <2>3, AtLeastBound
<1>6. \A m \in Models : m # d => newest'[m] = newest[m] /\ vec'[m] = vec[m]
    BY <1>1, <1>3
<1>7. \A m \in Models : newest'[m] <= gen[m] /\ wiped'[m] <= gen[m]
    BY <1>3, <1>5, <1>6 DEF QdrantInv, Underway
<1>8. \A m \in Models, j \in Jobs : vec[m][j] \subseteq vec'[m][j]
    BY <1>1, <1>2, <1>3
<1>9. ASSUME NEW m \in Models \ (overtaken' \cup dead) PROVE Ordered(m)'
    <2>1. Ordered(m)
        BY <1>3 DEF QdrantInv
    <2>2. \A j \in Jobs, c \in Chunk : Wanted(m, j, c)' <=> Wanted(m, j, c)
        BY DEF Wanted
    <2>3. (wiped[m] < gen[m] =>
             \E p \in topic : p.kind = "delete" /\ p.model = m /\ p.gen = gen[m] - 1)'
        <3>1. SUFFICES ASSUME wiped[m] < gen[m]
              PROVE \E p \in topic' : p.kind = "delete" /\ p.model = m /\ p.gen = gen[m] - 1
            BY <1>3
        <3>2. PICK p \in topic : p.kind = "delete" /\ p.model = m /\ p.gen = gen[m] - 1
            BY <2>1, <3>1 DEF Ordered
        <3> QED BY <1>1, <3>2
    <2>4. (\A j \in Jobs, c \in Chunk : Wanted(m, j, c) =>
             Coming(m, j, c) \/ (c \in vec[m][j] /\ newest[m] = gen[m]))'
        <3>1. SUFFICES ASSUME NEW j \in Jobs, NEW c \in Chunk, Wanted(m, j, c), ~Coming(m, j, c)'
              PROVE c \in vec'[m][j] /\ newest'[m] = gen[m]
            BY <2>2
        <3>2. CASE c \in vec[m][j] /\ newest[m] = gen[m]
            BY <1>5, <1>6, <1>8, <3>2
        <3>3. CASE Coming(m, j, c)
            <4>1. PICK p \in topic : /\ p.kind = "upsert" /\ p.model = m /\ p.gen = gen[m]
                                    /\ p.job = j /\ c \in p.points
                BY <3>3 DEF Coming
            <4>2. p = o
                BY <3>1, <4>1 DEF Coming
            <4> QED BY <1>1, <1>2, <1>3, <1>5, <4>1, <4>2
        <3> QED BY <2>1, <3>1, <3>2, <3>3 DEF Ordered
    <2>5. (wiped[m] = gen[m] => \A j \in Jobs : \A c \in vec[m][j] : Wanted(m, j, c))'
        <3>1. SUFFICES ASSUME wiped[m] = gen[m], NEW j \in Jobs, NEW c \in vec'[m][j]
              PROVE Wanted(m, j, c)
            BY <1>3, <1>1, <1>2 DEF Wanted
        <3>2. CASE c \in vec[m][j]
            BY <2>1, <3>1, <3>2 DEF Ordered
        <3>3. CASE c \notin vec[m][j]
            <4>1. m = d /\ j = o.job /\ c \in o.points
                BY <1>1, <1>2, <1>3, <3>3
            <4>2. o.gen = gen[m]
                <5>1. o.gen \in Int /\ gen[m] \in Int /\ wiped[m] \in Int
                    BY <1>1, <1>2
                <5>2. ~(o.gen < gen[m])
                    BY <1>3, <3>1, <4>1
                <5>3. o.gen <= gen[m]
                    BY <1>1, <4>1
                <5> QED BY <5>1, <5>2, <5>3
            <4> QED BY <1>1, <4>1, <4>2 DEF QdrantInv, Underway, Wanted
        <3> QED BY <3>2, <3>3
    <2> QED BY <2>3, <2>4, <2>5 DEF Ordered
<1> QED BY <1>1, <1>3, <1>7, <1>9

LEMMA Executed ==
    ASSUME QdrantInv, NEW o \in topic, ExecuteOp(o), dead' = dead,
           gen' = gen, sent' = sent, topic \ {o} \subseteq topic', topic' \subseteq topic
    PROVE  QdrantInv'
<1>1. /\ wiped' \in [Models -> 0..MaxMerges]
      /\ \A m \in Models : newest'[m] <= gen[m] /\ wiped'[m] <= gen[m]
      /\ \A m \in Models \ (overtaken' \cup dead) : Ordered(m)'
    BY UpsertApplied, DeleteApplied DEF ExecuteOp
<1>2. QdrantTypeOK'
    BY <1>1, OrderNoted DEF QdrantInv, QdrantTypeOK
<1>3. Underway'
    BY <1>1 DEF QdrantInv, Underway
<1> QED BY <1>1, <1>2, <1>3 DEF QdrantInv

LEMMA GivenUp ==
    ASSUME QdrantInv, NEW o \in topic, DeadLetterOp(o)
    PROVE  QdrantInv'
<1>1. /\ topic' = topic \ {o} /\ dead' = dead \cup {o.model} /\ o.model \in Models
      /\ vec' = vec /\ gen' = gen /\ sent' = sent /\ newest' = newest /\ wiped' = wiped
      /\ overtaken' = overtaken
    BY DEF DeadLetterOp, QdrantInv, QdrantTypeOK, Upserts, Deletes
<1>2. QdrantTypeOK' /\ Underway'
    BY <1>1 DEF QdrantInv, QdrantTypeOK, Underway
<1>3. ASSUME NEW m \in Models \ (overtaken' \cup dead') PROVE Ordered(m)'
    <2>1. Ordered(m) /\ m # o.model
        BY <1>1 DEF QdrantInv
    <2>2. \A j \in Jobs, c \in Chunk : Coming(m, j, c) => Coming(m, j, c)'
        BY <1>1, <2>1 DEF Coming
    <2>3. \A j \in Jobs : vec[m][j] \subseteq Chunk
        BY DEF QdrantInv, QdrantTypeOK
    <2> QED BY <1>1, <2>1, <2>2, <2>3 DEF Ordered, Wanted
<1> QED BY <1>2, <1>3 DEF QdrantInv

LEMMA QdrantStepKeeps == QdrantInv /\ [QdrantNext]_qdrantVars => QdrantInv'
<1> SUFFICES ASSUME QdrantInv, [QdrantNext]_qdrantVars PROVE QdrantInv'
    OBVIOUS
<1>1. CASE UNCHANGED qdrantVars
    BY <1>1 DEF qdrantVars, QdrantInv, QdrantTypeOK, Underway, Ordered, Wanted, Coming
<1>2. ASSUME NEW o \in topic, ApplyOp(o) \/ ApplyUnacknowledged(o) PROVE QdrantInv'
    BY <1>2, Executed DEF ApplyOp, ApplyUnacknowledged
<1> QED BY <1>1, <1>2, UpsertSent, DeleteSent, GivenUp
        DEF QdrantNext, QdrantStep, QdrantFault

(* Whatever is sent by whomever in which order: once a model's operations are *)
(* all acknowledged, none given up and no delete overtaken, its collection    *)
(* holds what was sent after the last delete and nothing else.                *)
THEOREM TopicDelivers == QdrantSpec => []VectorsArrive
<1>1. QdrantInv => VectorsArrive
    <2>1. SUFFICES ASSUME QdrantInv, NEW m \in Models \ (overtaken \cup dead),
                          \A o \in topic : o.model # m, NEW j \in Jobs, NEW c \in Chunk
          PROVE c \in vec[m][j] <=> Wanted(m, j, c)
        BY DEF VectorsArrive
    <2>2. Ordered(m)
        BY <2>1 DEF QdrantInv
    <2>3. wiped[m] = gen[m]
        <3>1. wiped[m] \in Int /\ gen[m] \in Int /\ wiped[m] <= gen[m]
            BY <2>1 DEF QdrantInv, QdrantTypeOK, Underway
        <3>2. ~(wiped[m] < gen[m])
            BY <2>1, <2>2 DEF Ordered
        <3> QED BY <3>1, <3>2
    <2>4. ~Coming(m, j, c)
        BY <2>1 DEF Coming
    <2> QED BY <2>2, <2>3, <2>4 DEF Ordered
<1> QED BY <1>1, QdrantAtFirst, QdrantStepKeeps, PTL DEF QdrantSpec

-------------------------------------------------------------------------------
(* The jobs *)

\* A job's step changes the job, and perhaps the rows it stores and its coverage row.
LEMMA DoneFits == ASSUME NEW S \in SUBSET Chunk PROVE Cardinality(S) \in 0..Chunks
<1>1. IsFiniteSet(Chunk) /\ Cardinality(Chunk) = Chunks
    BY FS_Interval, QdrantAssumption DEF Chunk
<1>2. IsFiniteSet(S) /\ Cardinality(S) <= Cardinality(Chunk)
    BY <1>1, FS_Subset
<1> QED BY <1>1, <1>2, FS_CardinalityType, QdrantAssumption

LEMMA JobTypes ==
    ASSUME IngestTypeOK, NEW j \in Jobs
    PROVE  /\ job[j] \in JobStates /\ job[j].model \in Models /\ job[j].left \in 0..Chunks
           /\ job[j].points \subseteq Chunk /\ job[j].open \subseteq Chunk
           /\ job[j].done \subseteq Chunk /\ job[j].marks \subseteq Models
BY DEF IngestTypeOK, JobStates

LEMMA EndedTypes ==
    ASSUME NEW m \in Models, NEW S \in SUBSET Chunk
    PROVE  /\ Ended(m, S) \in JobStates
           /\ [Ended(m, S) EXCEPT !.pc = "reverted"] \in JobStates
           /\ [Ended(m, S) EXCEPT !.pc = "free"] \in JobStates
BY QdrantAssumption DEF Ended, JobStates, Connections

LEMMA TypesAtFirst == IngestInit => IngestTypeOK
<1>1. (CHOOSE m \in Models : TRUE) \in Models
    BY QdrantAssumption
<1>2. [Ended(CHOOSE m \in Models : TRUE, {}) EXCEPT !.pc = "free"] \in JobStates
    BY <1>1, EndedTypes
<1>3. [status |-> "none", count |-> 0] \in Coverage
    BY QdrantAssumption DEF Coverage
<1> HIDE DEF JobStates
<1> QED BY <1>2, <1>3 DEF IngestInit, IngestTypeOK

\* The job's new state is a state of a job.
LEMMA Replaced ==
    ASSUME IngestTypeOK, NEW j \in Jobs, NEW r \in JobStates, job' = [job EXCEPT ![j] = r]
    PROVE  job' \in [Jobs -> JobStates] /\ job'[j] = r /\ \A i \in Jobs : i # j => job'[i] = job[i]
BY DEF IngestTypeOK

\* The failures of one job.
JobFails(j) ==
    \/ StartFails(j) \/ MapFails(j) \/ SkipChunk(j) \/ InsertFails(j) \/ SendFails(j)
    \/ FinalSendFails(j) \/ LoseConnection(j)

LEMMA StepTypes ==
    ASSUME IngestTypeOK, NEW j \in Jobs, IngestStep(j) \/ JobFails(j)
    PROVE  IngestTypeOK'
<1> DEFINE J == job[j]
<1> USE JobTypes
<1>0. J \in JobStates /\ J.left \in 0..Chunks
    BY JobTypes
<1>1. CASE Start(j)
    <2>1. PICK left \in 1..Chunks :
             job' = [job EXCEPT ![j] = [J EXCEPT !.pc = "chunks", !.left = left]]
        BY <1>1 DEF Start, IngestTypeOK
    <2>2. left \in 0..Chunks
        BY QdrantAssumption
    <2>3. [J EXCEPT !.pc = "chunks", !.left = left] \in JobStates
        BY <1>0, <2>2 DEF JobStates
    <2>4. job' \in [Jobs -> JobStates]
        BY <2>1, <2>3, Replaced
    <2> QED BY <1>1, <2>4 DEF Start, MarkBuilding, IngestTypeOK, Coverage
<1>2. CASE EmbedChunk(j)
    <2> DEFINE r(pc) == [J EXCEPT !.left = J.left - 1, !.points = @ \cup {J.left},
                                  !.open = @ \cup {J.left}, !.done = @ \cup {J.left}, !.pc = pc]
    <2>1. \E pc \in {"send", "chunks"} : job' = [job EXCEPT ![j] = r(pc)]
        BY <1>2, Zenon DEF EmbedChunk
    <2>2. J.left \in Chunk /\ J.left - 1 \in 0..Chunks
        BY <1>0, <1>2, QdrantAssumption DEF EmbedChunk, Chunk
    <2>3. ASSUME NEW pc \in {"send", "chunks"} PROVE r(pc) \in JobStates
        BY <1>0, <2>2 DEF JobStates
    <2> QED BY <1>2, <2>1, <2>3, Replaced DEF EmbedChunk, IngestTypeOK
<1>3. ASSUME InsertFails(j) PROVE IngestTypeOK'
    <2>1. PICK left \in 0..(J.left - 1) :
             job' = [job EXCEPT ![j] = [J EXCEPT !.left = left, !.points = @ \cup {J.left},
                                                 !.conn = IF @ = "ok" THEN "aborted" ELSE @]]
        BY <1>3 DEF InsertFails, IngestTypeOK
    <2>2. J.left \in Chunk /\ left \in 0..Chunks
        BY <1>0, <1>3, QdrantAssumption DEF InsertFails, Chunk
    <2>3. [J EXCEPT !.left = left, !.points = @ \cup {J.left},
                    !.conn = IF @ = "ok" THEN "aborted" ELSE @] \in JobStates
        BY <1>0, <2>2 DEF JobStates, Connections
    <2>4. job' \in [Jobs -> JobStates]
        BY <2>1, <2>3, Replaced
    <2> QED BY <1>3, <2>4 DEF InsertFails, IngestTypeOK
<1>4. ASSUME SkipFile(j) PROVE job' \in [Jobs -> JobStates]
    <2>1. PICK left \in 0..J.left :
             job' = [job EXCEPT ![j] = [J EXCEPT !.pc = "chunks", !.left = left]]
        BY <1>4 DEF SkipFile, IngestTypeOK
    <2>2. left \in 0..Chunks
        BY <1>0, QdrantAssumption
    <2>3. [J EXCEPT !.pc = "chunks", !.left = left] \in JobStates
        BY <1>0, <2>2 DEF JobStates
    <2> QED BY <2>1, <2>3, Replaced
<1>5. ASSUME NEW pc \in {"commit", "last", "own", "failing"}, Go(j, pc)
      PROVE  job' \in [Jobs -> JobStates]
    <2>1. [J EXCEPT !.pc = pc] \in JobStates
        BY DEF JobStates
    <2> QED BY <1>5, <2>1, Replaced DEF Go
<1>6. ASSUME End(j) PROVE job' \in [Jobs -> JobStates]
    BY <1>6, EndedTypes, Replaced DEF End
<1>7. CASE SendBatch(j) \/ Finish(j)
    BY <1>7, <1>5 DEF SendBatch, Finish, IngestTypeOK
<1>8. CASE CommitBatch(j)
    <2> DEFINE r == [J EXCEPT !.pc = "chunks", !.points = {}, !.open = {}]
    <2>1. r \in JobStates
        BY DEF JobStates
    <2>2. SkipFile(j) \/ job' = [job EXCEPT ![j] = r]
        BY <1>8 DEF CommitBatch, IngestTypeOK
    <2>3. job' \in [Jobs -> JobStates]
        BY <1>4, <2>1, <2>2, Replaced
    <2> QED BY <1>8, <2>3 DEF CommitBatch, IngestTypeOK
<1>9. CASE CommitFinal(j)
    <2> DEFINE r == [J EXCEPT !.pc = "own", !.conn = "ok", !.points = {}, !.open = {}]
    <2>1. r \in JobStates
        BY DEF JobStates, Connections
    <2>2. Go(j, "failing") \/ job' = [job EXCEPT ![j] = r]
        BY <1>9 DEF CommitFinal, IngestTypeOK
    <2>3. job' \in [Jobs -> JobStates]
        BY <1>5, <2>1, <2>2, Replaced
    <2> QED BY <1>9, <2>3 DEF CommitFinal, IngestTypeOK
<1>10. CASE MarkComplete(j)
    <2> DEFINE r == [J EXCEPT !.pc = "others", !.marks = OthersComplete(j)]
    <2>1. r \in JobStates
        BY DEF JobStates, OthersComplete
    <2>2. job' = [job EXCEPT ![j] = r]
        BY <1>10 DEF MarkComplete, IngestTypeOK
    <2>3. overlapped' \in BOOLEAN
        BY <1>10 DEF MarkComplete, Overlaps, IngestTypeOK
    <2>4. job' \in [Jobs -> JobStates]
        BY <2>1, <2>2, Replaced
    <2> QED BY <1>10, <2>3, <2>4, SMTT(30) DEF MarkComplete, IngestTypeOK
<1>18. CASE MarkOthers(j)
    <2> DEFINE r == [J EXCEPT !.pc = "publish",
                              !.marks = {m \in @ : cov[m].status = "complete"}]
    <2>1. r \in JobStates
        BY DEF JobStates
    <2>2. job' = [job EXCEPT ![j] = r]
        BY <1>18 DEF MarkOthers, IngestTypeOK
    <2>3. job' \in [Jobs -> JobStates]
        BY <2>1, <2>2, Replaced
    <2> QED BY <1>18, <2>3 DEF MarkOthers, IngestTypeOK
<1>11. CASE CommitCoverage(j)
    <2>1. Cardinality(J.done) \in 0..Chunks
        BY DoneFits
    <2>2. cov' \in [Models -> Coverage]
        BY <1>11, <2>1 DEF CommitCoverage, IngestTypeOK, Coverage
    <2> QED BY <1>6, <1>11, <2>2 DEF CommitCoverage, IngestTypeOK
<1>12. CASE CompleteFails(j) \/ RevertFails(j)
    BY <1>6, <1>12 DEF CompleteFails, RevertFails, Abandon, IngestTypeOK
<1>13. CASE Revert(j)
    <2>1. job' \in [Jobs -> JobStates]
        BY <1>13, EndedTypes, Replaced DEF Revert
    <2> QED BY <1>13, <2>1 DEF Revert, IngestTypeOK, Coverage
<1>14. CASE MapFails(j)
    <2>1. [J EXCEPT !.pc = "failing", !.conn = "aborted"] \in JobStates
        BY DEF JobStates, Connections
    <2> QED BY <1>14, <2>1, Replaced, SMTT(30) DEF MapFails, MarkBuilding, IngestTypeOK, Coverage
<1>15. CASE SkipChunk(j)
    <2>1. [J EXCEPT !.left = @ - 1] \in JobStates
        BY <1>15, QdrantAssumption DEF SkipChunk, JobStates
    <2> QED BY <1>15, <2>1, Replaced DEF SkipChunk, IngestTypeOK
<1>16. CASE LoseConnection(j)
    <2>1. [J EXCEPT !.conn = "broken", !.open = {}, !.marks = {}] \in JobStates
        BY DEF JobStates, Connections
    <2> QED BY <1>16, <2>1, Replaced DEF LoseConnection, IngestTypeOK
<1>17. CASE StartFails(j) \/ SendFails(j) \/ FinalSendFails(j)
    BY <1>4, <1>5, <1>6, <1>17 DEF StartFails, SendFails, FinalSendFails, IngestTypeOK
<1> QED BY <1>1, <1>2, <1>3, <1>7, <1>8, <1>9, <1>10, <1>11, <1>12, <1>13, <1>14, <1>15,
           <1>16, <1>17, <1>18 DEF IngestStep, JobFails, InsertRefused

LEMMA RequestTypes ==
    ASSUME IngestTypeOK, NEW j \in Jobs, NEW m \in Models, Request(j, m)
    PROVE  /\ job' \in [Jobs -> JobStates] /\ At(j, "free") /\ job'[j].pc = "accepted"
           /\ \A i \in Jobs : i # j => job'[i] = job[i]
           /\ job'[j].open = job[j].open /\ job'[j].done = job[j].done
           /\ job'[j].points = job[j].points
<1> DEFINE r == [job[j] EXCEPT !.pc = "accepted", !.model = m]
<1>1. r \in JobStates
    BY JobTypes DEF JobStates
<1>2. job' = [job EXCEPT ![j] = r]
    BY DEF Request, IngestTypeOK
<1>3. r.pc = "accepted" /\ r.open = job[j].open /\ r.done = job[j].done
      /\ r.points = job[j].points
    BY JobTypes DEF JobStates
<1> QED BY <1>1, <1>2, <1>3, Replaced DEF Request

LEMMA CrashTypes ==
    ASSUME IngestTypeOK, Crash
    PROVE  /\ IngestTypeOK'
           /\ \A j \in Jobs : IF Running(j) \/ At(j, "accepted")
                             THEN job'[j].pc = "ended" /\ job'[j].model = job[j].model
                             ELSE job'[j] = job[j]
<1>1. job' = [j \in Jobs |-> IF Running(j) \/ At(j, "accepted")
                             THEN Ended(job[j].model, job[j].done) ELSE job[j]]
    BY DEF Crash
<1>2. ASSUME NEW j \in Jobs PROVE job'[j] \in JobStates
    BY <1>1, EndedTypes, JobTypes
<1>3. abandoned' \in SUBSET Models
    BY JobTypes DEF Crash, IngestTypeOK
<1>4. \A m \in Models, S \in SUBSET Chunk : Ended(m, S).pc = "ended" /\ Ended(m, S).model = m
    BY DEF Ended
<1> QED BY <1>1, <1>2, <1>3, <1>4, JobTypes DEF Crash, IngestTypeOK

-------------------------------------------------------------------------------
(* What a step of a job means for the coverage rows *)

\* It goes on, or had not marked its row.
GoesOn(j) ==
    /\ UNCHANGED <<cov, overlapped, abandoned>>
    /\ Running(j) => Running(j)'
    /\ ~Completing(j)'

Begins(j) ==
    /\ cov' = [cov EXCEPT ![job[j].model].status = "building"]
    /\ UNCHANGED <<overlapped, abandoned>>
    /\ Running(j)' /\ ~Completing(j)'

GivesUp(j) ==
    /\ UNCHANGED <<cov, overlapped>> /\ abandoned' = abandoned \cup {job[j].model}
    /\ job'[j].pc = "ended"

LEMMA Effects ==
    ASSUME IngestTypeOK, NEW j \in Jobs, IngestStep(j) \/ JobFails(j)
    PROVE  /\ job'[j].model = job[j].model /\ \A i \in Jobs : i # j => job'[i] = job[i]
           /\ \/ GoesOn(j) \/ Begins(j) \/ GivesUp(j)
              \/ MarkComplete(j) /\ job'[j].pc = "others" /\ job'[j].marks = OthersComplete(j)
              \/ /\ MarkOthers(j) /\ job'[j].pc = "publish"
                 /\ job'[j].marks = {n \in job[j].marks : cov[n].status = "complete"}
              \/ CommitCoverage(j) /\ job'[j].pc = "ended"
              \/ Revert(j) /\ job'[j].pc = "reverted"
<1> DEFINE J == job[j]
<1>0. J \in JobStates /\ job \in [Jobs -> JobStates]
    BY DEF IngestTypeOK
<1>1. \A m, S : Ended(m, S).pc = "ended" /\ Ended(m, S).model = m
    BY DEF Ended
<1>2. CASE Start(j) \/ MapFails(j)
    BY <1>0, <1>2 DEF Start, MapFails, MarkBuilding, Begins, Running, Completing, At, JobStates
<1>3. CASE SkipChunk(j) \/ LoseConnection(j)
    BY <1>0, <1>3, SMTT(30) DEF SkipChunk, LoseConnection, GoesOn, Running, Completing, At, JobStates
<1>11. CASE EmbedChunk(j)
    <2>1. \E pc \in {"send", "chunks"} : job' = [job EXCEPT
             ![j] = [J EXCEPT !.left = J.left - 1, !.points = @ \cup {J.left},
                              !.open = @ \cup {J.left}, !.done = @ \cup {J.left}, !.pc = pc]]
        BY <1>11, Zenon DEF EmbedChunk
    <2>2. /\ job'[j].pc \in {"send", "chunks"} /\ job'[j].model = J.model
          /\ \A i \in Jobs : i # j => job'[i] = job[i]
        BY <1>0, <2>1 DEF JobStates
    <2> QED BY <1>11, <2>2 DEF EmbedChunk, GoesOn, Running, Completing, At
<1>12. CASE InsertFails(j)
    <2>1. /\ job'[j].pc = J.pc /\ job'[j].model = J.model /\ J.pc = "chunks"
          /\ \A i \in Jobs : i # j => job'[i] = job[i]
        BY <1>0, <1>12 DEF InsertFails, At, JobStates
    <2> QED BY <1>12, <2>1 DEF InsertFails, GoesOn, Running, Completing, At
<1>4. CASE SendBatch(j) \/ SendFails(j) \/ FinalSendFails(j) \/ Finish(j)
    BY <1>0, <1>4 DEF SendBatch, SendFails, FinalSendFails, SkipFile, Finish, Go, GoesOn,
                      Running, Completing, At, NothingLeft, JobStates
<1>5. CASE CommitBatch(j) \/ CommitFinal(j)
    BY <1>0, <1>5 DEF CommitBatch, CommitFinal, SkipFile, Go, GoesOn, Running, Completing, At, JobStates
<1>6. CASE StartFails(j)
    BY <1>0, <1>1, <1>6 DEF StartFails, End, GoesOn, Running, Completing, At
<1>7. CASE CompleteFails(j) \/ RevertFails(j)
    BY <1>0, <1>1, <1>7 DEF CompleteFails, RevertFails, Abandon, End, GivesUp
<1>8. CASE MarkComplete(j)
    BY <1>0, <1>8 DEF MarkComplete, JobStates
<1>13. CASE MarkOthers(j)
    BY <1>0, <1>13 DEF MarkOthers, JobStates
<1>9. CASE CommitCoverage(j)
    BY <1>0, <1>1, <1>9 DEF CommitCoverage, End
<1>10. CASE Revert(j)
    BY <1>0, <1>10 DEF Revert, Ended
<1> QED BY <1>2, <1>3, <1>4, <1>5, <1>6, <1>7, <1>8, <1>9, <1>10, <1>11, <1>12, <1>13
        DEF IngestStep, JobFails, InsertRefused

LEMMA BuildingStep ==
    ASSUME IngestTypeOK, BuildingHasJob, NEW j \in Jobs, IngestStep(j) \/ JobFails(j)
    PROVE  BuildingHasJob'
<1> DEFINE m == job[j].model
<1>1. job'[j].model = m /\ (\A i \in Jobs : i # j => job'[i] = job[i]) /\ m \in Models
    BY Effects, JobTypes
<1>2. SUFFICES ASSUME NEW n \in Models \ abandoned', Building(n)'
               PROVE  \E i \in Jobs : Running(i)' /\ job'[i].model = n
    BY DEF BuildingHasJob
<1>3. ASSUME Building(n), n \notin abandoned, n # m \/ (Running(j) => Running(j)')
      PROVE  \E i \in Jobs : Running(i)' /\ job'[i].model = n
    <2>1. PICK i \in Jobs : Running(i) /\ job[i].model = n
        BY <1>3 DEF BuildingHasJob
    <2> QED BY <1>1, <1>3, <2>1 DEF Running
<1>4. cov \in [Models -> Coverage]
    BY DEF IngestTypeOK
<1>5. CASE GoesOn(j)
    BY <1>2, <1>3, <1>5 DEF GoesOn, Building
<1>6. CASE Begins(j)
    BY <1>1, <1>2, <1>3, <1>4, <1>6 DEF Begins, Building
<1>7. CASE GivesUp(j)
    BY <1>1, <1>2, <1>3, <1>7 DEF GivesUp, Building
<1>8. CASE \/ MarkComplete(j) /\ job'[j].pc = "others"
           \/ MarkOthers(j) /\ job'[j].pc = "publish"
    BY <1>2, <1>3, <1>8 DEF MarkComplete, MarkOthers, Running, Building
<1>9. CASE CommitCoverage(j)
    BY <1>1, <1>2, <1>3, <1>4, <1>9 DEF CommitCoverage, Building
<1>10. CASE Revert(j)
    BY <1>1, <1>2, <1>3, <1>4, <1>10 DEF Revert, Building, Coverage
<1> QED BY <1>5, <1>6, <1>7, <1>8, <1>9, <1>10, Effects

\* While no two jobs of different models have recorded their completion at once:
\* one job at most is between its first statement and its commit, and it has seen,
\* and will make stale, whatever other model is complete.
Published ==
    ~overlapped =>
        /\ \A m, n \in Models :
              cov[m].status = "complete" /\ cov[n].status = "complete" => m = n
        /\ \A i, j \in Jobs : Completing(i) /\ Completing(j) => i = j
        /\ \A j \in Jobs : Completing(j) => OthersComplete(j) \subseteq job[j].marks

LEMMA PublishedStep ==
    ASSUME IngestTypeOK, Published, NEW j \in Jobs, IngestStep(j) \/ JobFails(j)
    PROVE  Published'
<1> DEFINE m == job[j].model
<1>1. job'[j].model = m /\ (\A i \in Jobs : i # j => job'[i] = job[i]) /\ m \in Models
      /\ cov \in [Models -> Coverage]
    BY Effects, JobTypes DEF IngestTypeOK
<1>2. ASSUME overlapped' = overlapped,
             ~Completing(j)',
             \A n \in Models : cov'[n].status = "complete" => cov[n].status = "complete"
      PROVE  Published'
    BY <1>1, <1>2 DEF Published, Completing, At, OthersComplete
<1>3. CASE GoesOn(j)
    BY <1>2, <1>3 DEF GoesOn
<1>4. CASE Begins(j)
    BY <1>1, <1>2, <1>4 DEF Begins, Coverage
<1>5. CASE GivesUp(j)
    BY <1>2, <1>5 DEF GivesUp, Completing, At
<1>6. CASE MarkComplete(j) /\ job'[j].pc = "others" /\ job'[j].marks = OthersComplete(j)
    <2>1. SUFFICES ASSUME ~overlapped' PROVE Published'
        BY DEF Published
    <2>2. ~overlapped /\ \A i \in Jobs : ~Completing(i)
        BY <1>6, <2>1, <1>1 DEF MarkComplete, Overlaps, Locked
    <2>3. OthersComplete(j)' = OthersComplete(j) /\ cov' = cov
        BY <1>1, <1>6 DEF MarkComplete, OthersComplete
    <2> QED BY <1>1, <1>6, <2>1, <2>2, <2>3 DEF Published, Completing, At
<1>7. CASE CommitCoverage(j) /\ job'[j].pc = "ended"
    <2>1. SUFFICES ASSUME ~overlapped' PROVE Published'
        BY DEF Published
    <2>2. ~overlapped /\ Completing(j)
        BY <1>7, <2>1 DEF CommitCoverage, Publishing, Completing, At
    <2>3. \A i \in Jobs : ~Completing(i)'
        BY <1>1, <1>7, <2>2 DEF Published, Completing, At
    <2>4. \A n \in Models : cov'[n].status = "complete" => n = m
        BY <1>1, <1>7, <2>2 DEF CommitCoverage, Published, OthersComplete, Coverage
    <2> QED BY <2>3, <2>4 DEF Published
<1>8. CASE Revert(j) /\ job'[j].pc = "reverted"
    BY <1>1, <1>2, <1>8 DEF Revert, Completing, At, Coverage
<1>9. CASE /\ MarkOthers(j) /\ job'[j].pc = "publish"
           /\ job'[j].marks = {n \in job[j].marks : cov[n].status = "complete"}
    <2>1. Completing(j) /\ cov' = cov /\ overlapped' = overlapped
        BY <1>9 DEF MarkOthers, Completing, At
    <2>2. \A i \in Jobs : OthersComplete(i)' = OthersComplete(i)
        BY <1>1, <2>1 DEF OthersComplete
    <2>3. \A i \in Jobs : Completing(i)' => Completing(i)
        BY <1>1, <2>1 DEF Completing
    <2>4. OthersComplete(j) \subseteq job[j].marks => OthersComplete(j) \subseteq job'[j].marks
        BY <1>9 DEF OthersComplete
    <2> QED BY <1>1, <2>1, <2>2, <2>3, <2>4 DEF Published
<1> QED BY <1>3, <1>4, <1>5, <1>6, <1>7, <1>8, <1>9, Effects

-------------------------------------------------------------------------------
(* What is stored and counted has been sent *)

Closed(j) == At(j, "ended") \/ At(j, "reverted")

\* Of a job: a stored chunk was sent, unless the job was reverted; a chunk that is open
\* or counted was sent or is in the batch; past the send, so was the batch.
JobRecorded(j) ==
    /\ ~At(j, "reverted") => \A c \in rows[j] : Sent(j, c)
    /\ ~Closed(j) => \A c \in job[j].open \cup job[j].done : Sent(j, c) \/ c \in job[j].points
    /\ job[j].pc \in {"commit", "last", "own", "others", "publish"} =>
          \A c \in job[j].points : Sent(j, c)

CompleteRecorded ==
    \A m \in Models : cov[m].status = "complete" =>
        \E j \in Jobs :
            /\ job[j].model = m /\ At(j, "ended")
            /\ Cardinality(job[j].done) = cov[m].count
            /\ \A c \in job[j].done : Sent(j, c)

Recorded == CompleteRecorded /\ \A j \in Jobs : JobRecorded(j)

LEMMA RecordedFollows == Recorded => DatabaseFollowsTopic
BY DEF Recorded, JobRecorded, CompleteRecorded, DatabaseFollowsTopic

LEMMA StillSent ==
    ASSUME NEW i \in Jobs, NEW m \in Models, NEW points \in SUBSET Chunk, SendUpsert(i, m, points)
    PROVE  /\ \A j \in Jobs, c \in Chunk : Sent(j, c) => Sent(j, c)'
           /\ \A c \in points : Sent(i, c)'
<1>1. sent' = sent \cup {[model |-> m, gen |-> gen[m], job |-> i, chunk |-> c] : c \in points}
    BY DEF SendUpsert
<1>2. ASSUME NEW c \in points PROVE Sent(i, c)'
    <2>1. [model |-> m, gen |-> gen[m], job |-> i, chunk |-> c] \in sent'
        BY <1>1
    <2> QED BY <2>1 DEF Sent
<1> QED BY <1>1, <1>2 DEF Sent

\* What was recorded stays so while sent only grows, jobs that have ended rest, and no
\* model becomes complete.
LEMMA CompleteStays ==
    ASSUME IngestTypeOK, CompleteRecorded,
           \A j \in Jobs, c \in Chunk : Sent(j, c) => Sent(j, c)',
           \A j \in Jobs : At(j, "ended") => job'[j] = job[j],
           \A m \in Models : cov'[m].status = "complete" => cov'[m] = cov[m]
    PROVE  CompleteRecorded'
<1>1. SUFFICES ASSUME NEW m \in Models, cov'[m].status = "complete"
      PROVE \E j \in Jobs : /\ job'[j].model = m /\ At(j, "ended")'
                            /\ Cardinality(job'[j].done) = cov'[m].count
                            /\ \A c \in job'[j].done : Sent(j, c)'
    BY DEF CompleteRecorded
<1>2. PICK j \in Jobs : /\ job[j].model = m /\ At(j, "ended")
                       /\ Cardinality(job[j].done) = cov[m].count
                       /\ \A c \in job[j].done : Sent(j, c)
    BY <1>1 DEF CompleteRecorded
<1>3. job'[j] = job[j] /\ job[j].done \subseteq Chunk
    BY <1>2, JobTypes
<1> QED BY <1>1, <1>2, <1>3 DEF At

LEMMA RecordedStep ==
    ASSUME IngestTypeOK, Recorded, NEW j \in Jobs, IngestStep(j) \/ JobFails(j)
    PROVE  Recorded'
<1> DEFINE J == job[j]
           K == job'[j]
<1>0. /\ J \in JobStates /\ job \in [Jobs -> JobStates] /\ rows \in [Jobs -> SUBSET Chunk]
      /\ JobRecorded(j) /\ J.model \in Models /\ J.points \subseteq Chunk
      /\ J.open \subseteq Chunk /\ J.done \subseteq Chunk /\ cov \in [Models -> Coverage]
    BY JobTypes, SMTT(30) DEF Recorded, IngestTypeOK
<1>1. \A i \in Jobs, c \in Chunk : Sent(i, c) => Sent(i, c)'
    <2>1. CASE SendBatch(j) \/ Finish(j)
        BY <1>0, <2>1, StillSent DEF SendBatch, Finish, qdrantVars, Sent
    <2>2. CASE sent' = sent
        BY <2>2 DEF Sent
    <2>3. UNCHANGED qdrantVars => sent' = sent
        BY DEF qdrantVars
    <2> QED BY <2>1, <2>2, <2>3
            DEF IngestStep, JobFails, Start, EmbedChunk, InsertRefused, InsertFails, CommitBatch,
                CommitFinal, MarkComplete, MarkOthers, CommitCoverage, CompleteFails, Revert, RevertFails,
                StartFails, MapFails, SkipChunk, SendFails, FinalSendFails, LoseConnection
<1>2. ASSUME NEW i \in Jobs, i # j, rows'[i] = rows[i] PROVE JobRecorded(i)'
    <2>1. job'[i] = job[i] /\ JobRecorded(i)
        BY <1>2, Effects DEF Recorded
    <2> QED BY <1>0, <1>1, <1>2, <2>1, JobTypes DEF JobRecorded, Closed, At
<1>3. ASSUME \A i \in Jobs : i # j => rows'[i] = rows[i], JobRecorded(j)', CompleteRecorded'
      PROVE  Recorded'
    BY <1>2, <1>3 DEF Recorded
<1>4. ~At(j, "ended") /\ (\A i \in Jobs : i # j => job'[i] = job[i])
    <2>1. ~At(j, "ended")
        BY DEF At, Running, IngestStep, JobFails, Start, MarkBuilding, EmbedChunk, InsertRefused,
               InsertFails, SendBatch, CommitBatch, Finish, NothingLeft, CommitFinal,
               MarkComplete, MarkOthers, CommitCoverage, Publishing, CompleteFails, Revert,
               RevertFails, StartFails, MapFails, SkipChunk, SendFails, FinalSendFails, LoseConnection
    <2> QED BY <2>1, Effects, SMTT(30)
<1>5. ASSUME \A m \in Models : cov'[m].status = "complete" => cov'[m] = cov[m]
      PROVE  CompleteRecorded'
    BY <1>1, <1>4, <1>5, CompleteStays DEF Recorded
<1>6. ASSUME rows' = rows, cov' = cov, JobRecorded(j)' PROVE Recorded'
    BY <1>3, <1>5, <1>6
<1>7. CASE Start(j) \/ MapFails(j)
    <2>1. K.pc \in {"chunks", "failing"} /\ K.points = J.points /\ K.open = J.open
          /\ K.done = J.done /\ J.pc = "accepted" /\ rows' = rows
        BY <1>0, <1>7 DEF Start, MapFails, MarkBuilding, At, JobStates
    <2>2. \A m \in Models : cov'[m].status = "complete" => cov'[m] = cov[m]
        BY <1>0, <1>7 DEF Start, MapFails, MarkBuilding, Coverage
    <2>3. JobRecorded(j)'
        BY <1>0, <1>1, <2>1 DEF JobRecorded, Closed, At
    <2> QED BY <1>3, <1>5, <2>1, <2>2, <2>3
<1>8. CASE EmbedChunk(j)
    <2>1. \E pc \in {"send", "chunks"} : job' = [job EXCEPT
             ![j] = [J EXCEPT !.left = J.left - 1, !.points = @ \cup {J.left},
                              !.open = @ \cup {J.left}, !.done = @ \cup {J.left}, !.pc = pc]]
        BY <1>8, Zenon DEF EmbedChunk
    <2>2. /\ K.pc \in {"send", "chunks"} /\ K.points = J.points \cup {J.left}
          /\ K.open = J.open \cup {J.left} /\ K.done = J.done \cup {J.left} /\ J.pc = "chunks"
          /\ rows' = rows /\ cov' = cov
        BY <1>0, <1>8, <2>1 DEF EmbedChunk, At, JobStates
    <2>3. JobRecorded(j)'
        BY <1>0, <1>1, <2>2 DEF JobRecorded, Closed, At
    <2> QED BY <1>6, <2>2, <2>3
<1>9. CASE InsertFails(j)
    <2>1. /\ K.pc = "chunks" /\ K.points = J.points \cup {J.left} /\ K.open = J.open
          /\ K.done = J.done /\ J.pc = "chunks" /\ rows' = rows /\ cov' = cov
        BY <1>0, <1>9 DEF InsertFails, At, JobStates
    <2>2. JobRecorded(j)'
        BY <1>0, <1>1, <2>1 DEF JobRecorded, Closed, At
    <2> QED BY <1>6, <2>1, <2>2
<1>10. CASE SkipChunk(j) \/ SendFails(j) \/ FinalSendFails(j)
    <2>1. /\ K.pc \in {"chunks", "failing"} /\ K.points = J.points /\ K.open = J.open
          /\ K.done = J.done /\ J.pc \in {"chunks", "send"} /\ rows' = rows /\ cov' = cov
        BY <1>0, <1>10 DEF SkipChunk, SendFails, FinalSendFails, SkipFile, NothingLeft, Go, At,
                           JobStates
    <2>2. JobRecorded(j)'
        BY <1>0, <1>1, <2>1 DEF JobRecorded, Closed, At
    <2> QED BY <1>6, <2>1, <2>2
<1>11. CASE LoseConnection(j)
    <2>1. /\ K.pc = J.pc /\ K.points = J.points /\ K.open = {} /\ K.done = J.done
          /\ rows' = rows /\ cov' = cov
        BY <1>0, <1>11 DEF LoseConnection, JobStates
    <2>2. JobRecorded(j)'
        BY <1>0, <1>1, <2>1 DEF JobRecorded, Closed, At
    <2> QED BY <1>6, <2>1, <2>2
<1>12. CASE SendBatch(j) \/ Finish(j)
    <2>1. /\ K.points = J.points /\ K.open = J.open /\ K.done = J.done
          /\ J.pc \in {"send", "chunks"} /\ rows' = rows /\ cov' = cov
          /\ \/ K.pc \in {"commit", "last"}
             \/ K.pc = "own" /\ J.points = {}
        BY <1>0, <1>12 DEF SendBatch, Finish, NothingLeft, Go, At, JobStates
    <2>2. K.pc \in {"commit", "last"} => SendUpsert(j, J.model, J.points)
        BY <1>0, <1>12 DEF SendBatch, Finish, Go, JobStates
    <2>3. JobRecorded(j)'
        BY <1>0, <1>1, <2>1, <2>2, StillSent DEF JobRecorded, Closed, At
    <2> QED BY <1>6, <2>1, <2>3
<1>13. CASE CommitBatch(j) \/ CommitFinal(j)
    <2>1. /\ K.done = J.done /\ cov' = cov /\ J.pc \in {"commit", "last"}
          /\ \A i \in Jobs : i # j => rows'[i] = rows[i]
          /\ \/ /\ K.pc \in {"chunks", "failing"} /\ K.points = J.points /\ K.open = J.open
                /\ rows'[j] = rows[j]
             \/ /\ K.pc \in {"chunks", "own"} /\ K.points = {} /\ K.open = {}
                /\ rows'[j] \subseteq rows[j] \cup J.open
        BY <1>0, <1>13 DEF CommitBatch, CommitFinal, SkipFile, Go, At, JobStates
    <2>2. JobRecorded(j)'
        BY <1>0, <1>1, <2>1 DEF JobRecorded, Closed, At
    <2> QED BY <1>3, <1>5, <2>1, <2>2
<1>14. CASE MarkComplete(j) \/ MarkOthers(j)
    <2>1. /\ K.pc \in {"others", "publish"} /\ K.points = J.points /\ K.open = J.open
          /\ K.done = J.done /\ J.pc \in {"own", "others"} /\ rows' = rows /\ cov' = cov
        BY <1>0, <1>14 DEF MarkComplete, MarkOthers, At, JobStates
    <2>2. JobRecorded(j)'
        BY <1>0, <1>1, <2>1 DEF JobRecorded, Closed, At
    <2> QED BY <1>6, <2>1, <2>2
<1>15. ASSUME K.pc \in {"ended", "reverted"}, ~At(j, "reverted"),
              K.pc = "ended" => rows'[j] = rows[j]
       PROVE  JobRecorded(j)'
    BY <1>0, <1>1, <1>15 DEF JobRecorded, Closed, At
<1>16. CASE StartFails(j) \/ CompleteFails(j) \/ RevertFails(j)
    <2>1. K.pc = "ended" /\ ~At(j, "reverted") /\ rows' = rows /\ cov' = cov
        BY <1>0, <1>16 DEF StartFails, CompleteFails, RevertFails, Abandon, End, Ended, At
    <2> QED BY <1>6, <1>15, <2>1
<1>17. CASE Revert(j)
    <2>1. K.pc = "reverted" /\ ~At(j, "reverted") /\ \A i \in Jobs : i # j => rows'[i] = rows[i]
        BY <1>0, <1>17 DEF Revert, Ended, At
    <2>2. \A m \in Models : cov'[m].status = "complete" => cov'[m] = cov[m]
        BY <1>0, <1>17 DEF Revert, Coverage
    <2> QED BY <1>3, <1>5, <1>15, <2>1, <2>2
<1>18. CASE CommitCoverage(j)
    <2>1. /\ K.pc = "ended" /\ K.model = J.model /\ K.done = J.done /\ J.pc = "publish"
          /\ rows' = rows
        BY <1>0, <1>18 DEF CommitCoverage, Publishing, End, Ended, At
    <2>2. CompleteRecorded'
        <3>1. SUFFICES ASSUME NEW m \in Models, cov'[m].status = "complete"
              PROVE \E i \in Jobs : /\ job'[i].model = m /\ At(i, "ended")'
                                    /\ Cardinality(job'[i].done) = cov'[m].count
                                    /\ \A c \in job'[i].done : Sent(i, c)'
            BY DEF CompleteRecorded
        <3>2. CASE m = J.model
            <4>1. cov'[m].count = Cardinality(J.done)
                BY <1>0, <1>18, <3>2 DEF CommitCoverage
            <4>2. \A c \in J.done : Sent(j, c)'
                BY <1>0, <1>1, <2>1 DEF JobRecorded, Closed, At
            <4> QED BY <2>1, <3>2, <4>1, <4>2 DEF At
        <3>3. CASE m # J.model
            <4>1. cov'[m] = cov[m]
                BY <1>0, <1>18, <3>1, <3>3 DEF CommitCoverage, Coverage
            <4>2. PICK i \in Jobs : /\ job[i].model = m /\ At(i, "ended")
                                    /\ Cardinality(job[i].done) = cov[m].count
                                    /\ \A c \in job[i].done : Sent(i, c)
                BY <3>1, <4>1 DEF Recorded, CompleteRecorded
            <4>3. job'[i] = job[i] /\ job[i].done \subseteq Chunk
                BY <1>4, <4>2, JobTypes
            <4> QED BY <1>1, <4>1, <4>2, <4>3 DEF At
        <3> QED BY <3>2, <3>3
    <2>3. JobRecorded(j)'
        BY <1>15, <2>1 DEF At
    <2> QED BY <1>3, <2>1, <2>2, <2>3
<1> QED BY <1>7, <1>8, <1>9, <1>10, <1>11, <1>12, <1>13, <1>14, <1>16, <1>17, <1>18
        DEF IngestStep, JobFails, InsertRefused

-------------------------------------------------------------------------------
(* The whole *)

CoverageInv == IngestTypeOK /\ BuildingHasJob /\ Published /\ Recorded

\* What others do to the jobs: ask for one, and delete rows.
LEMMA OutsideKeeps ==
    ASSUME CoverageInv, UNCHANGED <<cov, overlapped, abandoned, sent>>,
           rows' \in {rows, [j \in Jobs |-> {}]},
           (\E j \in Jobs, m \in Models : Request(j, m)) \/ job' = job
    PROVE  CoverageInv'
<1>1. IngestTypeOK /\ Recorded /\ BuildingHasJob /\ Published
    BY DEF CoverageInv
<1>2. /\ job' \in [Jobs -> JobStates]
      /\ \A i \in Jobs : job'[i] = job[i] \/ (At(i, "free") /\ job'[i].pc = "accepted"
                                              /\ job'[i].open = job[i].open
                                              /\ job'[i].done = job[i].done
                                              /\ job'[i].points = job[i].points)
    <2>1. CASE job' = job
        BY <1>1, <2>1 DEF IngestTypeOK
    <2>2. ASSUME NEW j \in Jobs, NEW m \in Models, Request(j, m)
          PROVE  /\ job' \in [Jobs -> JobStates] /\ At(j, "free") /\ job'[j].pc = "accepted"
                 /\ \A i \in Jobs : i # j => job'[i] = job[i]
                 /\ job'[j].open = job[j].open /\ job'[j].done = job[j].done
                 /\ job'[j].points = job[j].points
        BY <1>1, <2>2, RequestTypes
    <2> QED BY <2>1, <2>2
<1>3. IngestTypeOK'
    BY <1>1, <1>2 DEF IngestTypeOK
<1>4. BuildingHasJob'
    <2>1. \A i \in Jobs : Running(i) => job'[i] = job[i]
        BY <1>2 DEF Running, At
    <2> QED BY <1>1, <2>1 DEF BuildingHasJob, Building, Running
<1>5. Published'
    <2>1. \A i \in Jobs : Completing(i)' => job'[i] = job[i] /\ Completing(i)
        BY <1>2 DEF Completing, At
    <2> QED BY <1>1, <2>1 DEF Published, OthersComplete
<1>6. ASSUME NEW i \in Jobs PROVE JobRecorded(i)'
    <2>1. JobRecorded(i) /\ rows'[i] \subseteq rows[i]
        BY <1>1 DEF Recorded
    <2> QED BY <1>2, <2>1 DEF JobRecorded, Closed, At, Sent
<1>7. CompleteRecorded'
    <2>1. \A i \in Jobs : At(i, "ended") => job'[i] = job[i]
        BY <1>2 DEF At
    <2>2. \A i \in Jobs, c \in Chunk : Sent(i, c) => Sent(i, c)'
        BY DEF Sent
    <2> QED BY <1>1, <2>1, <2>2, CompleteStays DEF Recorded
<1> QED BY <1>3, <1>4, <1>5, <1>6, <1>7 DEF CoverageInv, Recorded

LEMMA CrashKeeps == ASSUME CoverageInv, Crash, sent' = sent PROVE CoverageInv'
<1>1. IngestTypeOK /\ Recorded /\ BuildingHasJob /\ Published
    BY DEF CoverageInv
<1>2. cov' = cov /\ rows' = rows /\ overlapped' = overlapped
      /\ abandoned' = abandoned \cup {job[j].model : j \in {i \in Jobs : Running(i)}}
    BY DEF Crash
<1>3. \A j \in Jobs : \/ job'[j] = job[j] /\ ~Running(j)
                      \/ job'[j].pc = "ended" /\ job[j].pc \notin {"ended", "reverted"}
    BY <1>1, CrashTypes DEF Running, At
<1>4. BuildingHasJob'
    <2>1. SUFFICES ASSUME NEW m \in Models \ abandoned', Building(m) PROVE FALSE
        BY <1>2 DEF BuildingHasJob, Building
    <2>2. PICK j \in Jobs : Running(j) /\ job[j].model = m
        BY <1>1, <1>2, <2>1 DEF BuildingHasJob
    <2> QED BY <1>2, <2>1, <2>2
<1>5. Published'
    <2>1. \A j \in Jobs : ~Completing(j)'
        BY <1>3 DEF Running, Completing, At
    <2> QED BY <1>1, <1>2, <2>1 DEF Published
<1>6. ASSUME NEW j \in Jobs PROVE JobRecorded(j)'
    BY <1>1, <1>2, <1>3 DEF Recorded, JobRecorded, Closed, At, Sent
<1>7. CompleteRecorded'
    <2>1. \A j \in Jobs : At(j, "ended") => job'[j] = job[j]
        BY <1>3 DEF At
    <2>2. \A j \in Jobs, c \in Chunk : Sent(j, c) => Sent(j, c)'
        BY DEF Sent
    <2> QED BY <1>1, <1>2, <2>1, <2>2, CompleteStays DEF Recorded
<1> QED BY <1>1, <1>4, <1>5, <1>6, <1>7, CrashTypes DEF CoverageInv, Recorded

LEMMA CoverageAtFirst == Init => CoverageInv
<1> SUFFICES ASSUME Init PROVE CoverageInv
    OBVIOUS
<1>1. IngestTypeOK
    BY TypesAtFirst DEF Init
<1>2. /\ cov = [m \in Models |-> [status |-> "none", count |-> 0]]
      /\ rows = [j \in Jobs |-> {}]
    BY DEF Init, IngestInit
<1>3. ASSUME NEW j \in Jobs
      PROVE  job[j].pc = "free" /\ job[j].open = {} /\ job[j].done = {}
    BY DEF Init, IngestInit, Ended
<1> QED BY <1>1, <1>2, <1>3
        DEF CoverageInv, BuildingHasJob, Building, Published, Recorded, CompleteRecorded,
            JobRecorded, Completing, At, Closed

LEMMA CoverageStep == CoverageInv /\ [Next]_vars => CoverageInv'
<1> SUFFICES ASSUME CoverageInv, [Next]_vars PROVE CoverageInv'
    OBVIOUS
<1>1. ASSUME NEW j \in Jobs, IngestStep(j) \/ JobFails(j) PROVE CoverageInv'
    BY <1>1, StepTypes, BuildingStep, PublishedStep, RecordedStep DEF CoverageInv
<1>2. CASE \E j \in Jobs, m \in Models : Accept(j, m) /\ UNCHANGED qdrantVars
    BY <1>2, OutsideKeeps DEF Accept, qdrantVars
<1>3. CASE Adapter \/ (QdrantFault /\ UNCHANGED ingestVars)
    BY <1>3, OutsideKeeps
       DEF Adapter, QdrantStep, QdrantFault, ApplyOp, ApplyUnacknowledged, DeadLetterOp, ingestVars
<1>4. CASE MergeTags \/ UNCHANGED vars
    BY <1>4, OutsideKeeps DEF MergeTags, vars, ingestAll, ingestVars, qdrantVars
<1>5. CASE \E m \in Models : MergeGroup(m) \/ MergeGroupFails(m)
    BY <1>5, OutsideKeeps DEF MergeGroup, MergeGroupFails, SendDelete, qdrantVars
<1>6. CASE Crash
    BY <1>6, CrashKeeps DEF Crash, qdrantVars
<1>7. CASE Faults
    BY <1>1, <1>3, <1>5, <1>6, <1>7 DEF Faults, IngestFault, JobFails
<1> QED BY <1>1, <1>2, <1>3, <1>4, <1>5, <1>7 DEF Next, JobStep

LEMMA TopicStepOrNone == CoverageInv /\ [Next]_vars => [QdrantNext]_qdrantVars
<1> SUFFICES ASSUME CoverageInv, [Next]_vars PROVE [QdrantNext]_qdrantVars
    BY ZenonT(60)
<1>1. ASSUME NEW j \in Jobs, IngestStep(j) \/ JobFails(j) PROVE [QdrantNext]_qdrantVars
    <2>1. job[j].model \in Models /\ job[j].points \in SUBSET Chunk
        BY JobTypes DEF CoverageInv
    <2>2. CASE SendUpsert(j, job[j].model, job[j].points)
        BY <2>1, <2>2 DEF QdrantNext
    <2>3. CASE UNCHANGED qdrantVars
        BY <2>3
    <2> QED BY <1>1, <2>2, <2>3
            DEF IngestStep, JobFails, Start, EmbedChunk, InsertRefused, InsertFails, SendBatch,
                CommitBatch, Finish, CommitFinal, MarkComplete, MarkOthers, CommitCoverage, CompleteFails,
                Revert, RevertFails, StartFails, MapFails, SkipChunk, SendFails,
                FinalSendFails, LoseConnection
<1>2. CASE Adapter \/ QdrantFault
    BY <1>2 DEF Adapter, QdrantNext
<1>3. CASE \E m \in Models : MergeGroup(m) \/ MergeGroupFails(m)
    BY <1>3 DEF MergeGroup, MergeGroupFails, QdrantNext
<1>4. CASE UNCHANGED qdrantVars
    BY <1>4
<1> QED BY <1>1, <1>2, <1>3, <1>4
        DEF Next, JobStep, Faults, IngestFault, JobFails, Crash, MergeTags, vars, ingestAll

(* The ingestion service and the merges of tags use the topic as its own      *)
(* specification has it: batches of their own, and deletes by model.          *)
THEOREM FollowsTopic == Spec => QdrantSpec
<1>1. Init => QdrantInit
    BY DEF Init
<1> QED BY <1>1, CoverageAtFirst, CoverageStep, TopicStepOrNone, PTL DEF Spec, QdrantSpec

(* The vectors of every model arrive as VectorsArrive says, in the whole      *)
(* system, whatever the jobs, the merges and their failures.                  *)
THEOREM VectorsDelivered == Spec => []VectorsArrive
BY FollowsTopic, TopicDelivers, PTL

(* A "building" row has a job that runs, or was given up by one that ended.   *)
THEOREM BuildingIsRunning == Spec => []BuildingHasJob
<1>1. CoverageInv => BuildingHasJob
    BY DEF CoverageInv
<1> QED BY <1>1, CoverageAtFirst, CoverageStep, PTL DEF Spec

(* Unless two jobs recorded their completion at once, one model is complete.  *)
THEOREM CompleteIsOne == Spec => []OneComplete
<1>1. CoverageInv => OneComplete
    BY DEF CoverageInv, Published, OneComplete
<1> QED BY <1>1, CoverageAtFirst, CoverageStep, PTL DEF Spec

(* Whatever is stored or counted as complete has been sent to the topic.      *)
THEOREM StoredIsSent == Spec => []DatabaseFollowsTopic
<1>1. CoverageInv => DatabaseFollowsTopic
    BY RecordedFollows DEF CoverageInv
<1> QED BY <1>1, CoverageAtFirst, CoverageStep, PTL DEF Spec

\* The counters stay within their bounds.
CountersOK ==
    merging \in SUBSET Models /\ merges \in 0..MaxMerges /\ faults \in 0..MaxFaults

LEMMA CountersStep == CountersOK /\ [Next]_vars => CountersOK'
<1> SUFFICES ASSUME CountersOK, [Next]_vars PROVE CountersOK'
    OBVIOUS
<1>1. CASE Faults
    <2>1. faults' \in 0..MaxFaults /\ merges' = merges
        BY <1>1, CoverageAssumption DEF Faults, CountersOK
    <2>2. merging' \in SUBSET Models
        BY <1>1 DEF Faults, CountersOK, MergeGroupFails
    <2> QED BY <2>1, <2>2 DEF CountersOK
<1>2. CASE MergeTags
    <2>1. merges' \in 0..MaxMerges
        BY <1>2, QdrantAssumption DEF MergeTags, CountersOK
    <2> QED BY <1>2, <2>1 DEF MergeTags, CountersOK
<1>3. ASSUME NEW m \in Models, MergeGroup(m), UNCHANGED <<merges, faults>> PROVE CountersOK'
    BY <1>3 DEF MergeGroup, CountersOK
<1>4. CASE UNCHANGED <<merging, merges, faults>>
    BY <1>4 DEF CountersOK
<1> QED BY <1>1, <1>2, <1>3, <1>4 DEF Next, JobStep, Adapter, vars

(* Every variable of the system keeps its type. *)
THEOREM CoverageTypes == Spec => []TypeOK
<1>1. Init => CountersOK
    BY QdrantAssumption, CoverageAssumption DEF Init, CountersOK
<1>2. Init => QdrantInv
    BY QdrantAtFirst DEF Init
<1>3. CoverageInv /\ QdrantInv /\ CountersOK => TypeOK
    BY DEF CoverageInv, QdrantInv, CountersOK, TypeOK
<1> QED BY <1>1, <1>2, <1>3, CoverageAtFirst, CoverageStep, TopicStepOrNone, QdrantStepKeeps,
           CountersStep, PTL DEF Spec
===============================================================================
