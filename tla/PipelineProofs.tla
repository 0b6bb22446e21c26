---------------------------- MODULE PipelineProofs ----------------------------
(***************************************************************************)
(* Proofs about Pipeline, for every configuration of the worker: type      *)
(* correctness, the bookkeeping of the recursion fields (Sound, the        *)
(* inductive invariant), the page bounds, and that no request is lost.     *)
(***************************************************************************)
EXTENDS Pipeline, FiniteSetTheorems, TLAPS

-------------------------------------------------------------------------------
(* Pages *)

\* A page of the unit list is well formed: extractExecutionUnits never yields
\* an empty list, and an offset inside it gives a non-empty page.
LEMMA PageFacts ==
    ASSUME NEW meta \in Metas
    PROVE  /\ Units(meta) \in Nat \ {0}
           /\ PageSize(meta) \in Nat \ {0}
           /\ PageEnd(meta) \in Nat
           /\ Batch(meta) \in Nat
           /\ PageEnd(meta) <= Units(meta)
           /\ meta.offset < Units(meta) => meta.offset < PageEnd(meta)
<1>1. Units(meta) \in Nat \ {0}
  BY DEF Metas, Units, NoSteps
<1>2. PageSize(meta) \in Nat \ {0}
  BY <1>1, PipelineAssumption DEF PageSize, PipelineAssumption
<1>3. meta.offset \in Nat
  BY DEF Metas
<1>4. QED
  BY <1>1, <1>2, <1>3 DEF PageEnd, Batch

\* The metadata each stage writes is well typed.
LEMMA MetaTypes ==
    ASSUME NEW meta \in Metas, NEW groups \in Nat, NEW refined \in Nat \cup {NoSteps},
           NEW n \in Nat
    PROVE  /\ NoMeta \in Metas
           /\ Retrieved(meta, groups, refined) \in Metas
           /\ [meta EXCEPT !.total = @ + n] \in Metas
           /\ NextPage(meta) \in Metas
           /\ NextRound(meta) \in Metas
<1>1. NoMeta \in Metas
  BY DEF NoMeta, Metas
<1>2. Retrieved(meta, groups, refined) \in Metas
  <2>1. RecursionBudget \in Int
    BY PipelineAssumption DEF PipelineAssumption
  <2> DEFINE base == IF meta.set THEN meta
                     ELSE [meta EXCEPT !.set = TRUE, !.budget = RecursionBudget]
  <2>2. base \in Metas
    BY <2>1 DEF Metas
  <2> HIDE DEF base
  <2>3. [base EXCEPT !.groups = groups,
                     !.steps = IF refined = NoSteps THEN @ ELSE refined] \in Metas
    BY <2>2 DEF Metas
  <2>4. QED
    BY <2>3 DEF Retrieved, base
<1>3. [meta EXCEPT !.total = @ + n] \in Metas
  BY DEF Metas
<1>4. NextPage(meta) \in Metas
  <2>1. PageEnd(meta) \in Nat
    BY PageFacts
  <2>2. /\ meta.budget - 1 \in Int
        /\ meta.pages + 1 \in Nat
    BY DEF Metas
  <2>3. QED
    BY <2>1, <2>2 DEF NextPage, Metas
<1>5. NextRound(meta) \in Metas
  <2>1. /\ meta.budget - 10 \in Int
        /\ meta.count + 1 \in Nat
    BY DEF Metas
  <2>2. QED
    BY <2>1 DEF NextRound, Metas
<1>6. QED
  BY <1>1, <1>2, <1>3, <1>4, <1>5

-------------------------------------------------------------------------------
(* Type correctness *)

\* A message keeps its type when its worker moves it to another phase.
LEMMA PhaseTyped ==
    ASSUME TypeOK, NEW m \in msgs, NEW p \in Phases
    PROVE  /\ Replace(m, [m EXCEPT !.phase = p]) \subseteq Messages
           /\ Replace(m, [m EXCEPT !.phase = p, !.redelivered = @ + 1]) \subseteq Messages
<1>1. m \in Messages
  BY DEF TypeOK
<1>2. [m EXCEPT !.phase = p] \in Messages
  BY <1>1 DEF Messages
<1>3. [m EXCEPT !.phase = p, !.redelivered = @ + 1] \in Messages
  <2>1. m.redelivered + 1 \in Nat
    BY <1>1 DEF Messages
  <2>2. QED
    BY <1>1, <2>1 DEF Messages
<1>4. QED
  BY <1>2, <1>3 DEF TypeOK, Replace

\* The error chunk keeps the session topic well typed.
LEMMA ErrorTyped ==
    ASSUME TypeOK, SendError
    PROVE  endMarker' \in {"none", "error", "final"}
BY DEF TypeOK, SendError, Mark

\* A successor message is well typed when its metadata is.
LEMMA SuccessorTyped ==
    ASSUME NEW stage \in Stages, NEW meta \in Metas, NEW rounds \in Nat,
           NEW dropped \in BOOLEAN, FreeIds # {}
    PROVE  Successor(stage, meta, rounds, dropped) \in Messages
<1>1. (CHOOSE i \in FreeIds : TRUE) \in Ids
  BY DEF FreeIds
<1>2. QED
  BY <1>1 DEF Successor, Messages, Phases

\* Publishing to the next stage keeps the types.
LEMMA ForwardTyped ==
    ASSUME TypeOK, NEW m \in msgs, NEW stage \in Stages, NEW meta \in Metas,
           NEW rounds \in Nat, NEW dropped \in BOOLEAN,
           Forward(m, Successor(stage, meta, rounds, dropped))
    PROVE  TypeOK'
<1> DEFINE next == Successor(stage, meta, rounds, dropped)
<1>1. FreeIds # {} => next \in Messages
  BY SuccessorTyped
<1>2. /\ Replace(m, Returned(m, "success")) \subseteq Messages
      /\ Replace(m, Returned(m, "transient")) \subseteq Messages
  BY PhaseTyped DEF Returned, Phases, Results
<1>3. /\ completions \in Nat /\ dead \in Nat
      /\ unsent \subseteq {"final", "completion", "dlq"}
      /\ endMarker \in {"none", "error", "final"}
      /\ forks \in 0..MaxForks
  BY DEF TypeOK
<1>4. MaxForks \in Nat
  BY PipelineAssumption DEF PipelineAssumption
<1> HIDE DEF next
<1>5. CASE /\ FreeIds # {}
           /\ msgs' = Replace(m, Returned(m, "success")) \cup {next}
           /\ UNCHANGED <<endMarker, completions, dead, unsent, forks>>
  BY <1>1, <1>2, <1>3, <1>5 DEF TypeOK
<1>6. CASE /\ msgs' = Replace(m, Returned(m, "transient"))
           /\ SendError
           /\ UNCHANGED <<completions, dead, unsent, forks>>
  BY <1>2, <1>3, <1>6, ErrorTyped DEF TypeOK
<1>7. CASE /\ forks < MaxForks /\ FreeIds # {}
           /\ msgs' = Replace(m, Returned(m, "transient")) \cup {next}
           /\ SendError
           /\ forks' = forks + 1
           /\ UNCHANGED <<completions, dead, unsent>>
  <2>1. msgs' \subseteq Messages
    BY <1>1, <1>2, <1>7
  <2>2. forks' \in 0..MaxForks
    BY <1>3, <1>4, <1>7
  <2>3. QED
    BY <1>3, <1>7, <2>1, <2>2, ErrorTyped DEF TypeOK
<1>8. QED
  BY <1>5, <1>6, <1>7 DEF Forward, next

\* A stage that gives up keeps the types.
LEMMA FailTyped ==
    ASSUME TypeOK, NEW m \in msgs, NEW r \in Results, Fail(m, r)
    PROVE  TypeOK'
<1>1. Replace(m, Returned(m, r)) \subseteq Messages
  BY PhaseTyped DEF Returned, Phases
<1>2. QED
  BY <1>1, ErrorTyped DEF Fail, TypeOK

\* The metadata handleExec has once it has added the page to the total.
Counted(m) == [m.meta EXCEPT !.total = @ + Batch(m.meta)]

\* The three ways handleExec ends, with what handleExecDecision established.
LEMMA ExecCases ==
    ASSUME NEW m, NEW o, NEW spent, NEW affordable,
           HandleExec(m, o, spent, affordable)
    PROVE  /\ m.stage = "exec" /\ m.phase = "running"
           /\ spent \in SpentAnswers(Counted(m))
           /\ affordable \in AffordableAnswers(Counted(m))
           /\ \/ /\ PageEnd(Counted(m)) < Units(Counted(m)) /\ ~spent
                 /\ Forward(m, Successor("exec", NextPage(Counted(m)),
                                         m.rounds, m.dropped))
              \/ /\ affordable /\ ~(Counted(m).count >= MaxRecursionCount)
                 /\ Forward(m, Successor("plan", NextRound(Counted(m)),
                                         m.rounds + 1, m.dropped))
              \/ \E sent \in BOOLEAN : SendFinal(m, sent)
BY DEF HandleExec, Counted, At, handleExecDecision

\* The counted metadata is well typed.
LEMMA CountedTyped ==
    ASSUME TypeOK, NEW m \in msgs
    PROVE  /\ m.meta \in Metas /\ m.rounds \in Nat /\ m.dropped \in BOOLEAN
           /\ m.stage \in Stages
           /\ Counted(m) \in Metas
<1>1. m.meta \in Metas /\ m.rounds \in Nat /\ m.dropped \in BOOLEAN /\ m.stage \in Stages
  BY DEF TypeOK, Messages
<1>2. Batch(m.meta) \in Nat
  BY <1>1, PageFacts
<1>3. QED
  BY <1>1, <1>2, MetaTypes DEF Counted

\* Every step keeps the types.
LEMMA TypeStep == TypeOK /\ [Next]_vars => TypeOK'
<1> SUFFICES ASSUME TypeOK, [Next]_vars PROVE TypeOK'
  OBVIOUS
<1>1. CASE UNCHANGED vars
  BY <1>1 DEF vars, TypeOK
<1>2. CASE Next
  <2>1. PICK m \in msgs :
          \/ WorkerStep(m)
          \/ ExecUnitError(m)
          \/ \E counted \in BOOLEAN : Crash(m, counted)
    BY <1>2 DEF Next
  <2>2. /\ m.meta \in Metas /\ m.rounds \in Nat /\ m.dropped \in BOOLEAN
        /\ Counted(m) \in Metas /\ m \in Messages
    BY CountedTyped DEF TypeOK
  <2>3. MaxForks \in Nat /\ MaxGroups \in Nat /\ MaxSteps \in Nat /\ MemoryPacks \subseteq BOOLEAN
    BY PipelineAssumption DEF PipelineAssumption
  <2>4. CASE Receive(m)
    <3>1. msgs' \subseteq Messages
      BY <2>4, PhaseTyped DEF Receive, Phases
    <3>2. QED
      BY <2>4, <3>1 DEF Receive, TypeOK
  <2>5. CASE HandleIngress(m)
    BY <2>2, <2>5, ForwardTyped DEF HandleIngress, Stages
  <2>6. ASSUME NEW r \in Results, PlanFails(m, r) \/ SearchFails(m, r)
        PROVE  TypeOK'
    BY <2>6, FailTyped DEF PlanFails, SearchFails
  <2>7. ASSUME NEW items \in MemoryPacks, HandlePlan(m, items)
        PROVE  TypeOK'
    <3>1. (IF items THEN NoMeta ELSE m.meta) \in Metas
      BY <2>2, MetaTypes
    <3>2. (m.dropped \/ items) \in BOOLEAN
      BY <2>2, <2>3
    <3>3. "search" \in Stages
      BY DEF Stages
    <3>4. QED
      BY <2>2, <2>7, <3>1, <3>2, <3>3, ForwardTyped DEF HandlePlan
  <2>8. ASSUME NEW groups \in 0..MaxGroups, NEW refined \in NoSteps..MaxSteps,
               HandleSearch(m, groups, refined)
        PROVE  TypeOK'
    <3>1. groups \in Nat /\ refined \in Nat \cup {NoSteps}
      BY <2>3 DEF NoSteps
    <3>2. Retrieved(m.meta, groups, refined) \in Metas
      BY <2>2, <3>1, MetaTypes
    <3>3. "exec" \in Stages
      BY DEF Stages
    <3>4. QED
      BY <2>2, <2>8, <3>2, <3>3, ForwardTyped DEF HandleSearch
  <2>9. CASE ExecFails(m)
    BY <2>9, FailTyped DEF ExecFails, Results
  <2>10. ASSUME NEW o, NEW spent, NEW affordable,
                HandleExec(m, o, spent, affordable)
         PROVE  TypeOK'
    <3>1. NextPage(Counted(m)) \in Metas /\ NextRound(Counted(m)) \in Metas
      BY <2>2, MetaTypes
    <3>2. "exec" \in Stages /\ "plan" \in Stages /\ m.rounds + 1 \in Nat
      BY <2>2 DEF Stages
    <3>3. ASSUME NEW sent \in BOOLEAN, SendFinal(m, sent) PROVE TypeOK'
      <4>1. msgs' \subseteq Messages
        BY <3>3, PhaseTyped DEF SendFinal, Phases
      <4>2. QED
        BY <3>3, <4>1 DEF SendFinal, Mark, TypeOK
    <3>4. QED
      BY <2>2, <2>10, <3>1, <3>2, <3>3, ExecCases, ForwardTyped
  <2>11. ASSUME NEW sent \in BOOLEAN, SendCompletion(m, sent)
         PROVE  TypeOK'
    <3>1. msgs' \subseteq Messages
      BY <2>11, PhaseTyped DEF SendCompletion, Returned, Phases, Results
    <3>2. \/ completions' = completions + 1 /\ unsent' = unsent
          \/ completions' = completions /\ unsent' = unsent \cup {"completion"}
      BY <2>11, Zenon DEF SendCompletion
    <3>3. completions' \in Nat
      BY <3>2 DEF TypeOK
    <3>4. unsent' \subseteq {"final", "completion", "dlq"}
      BY <3>2 DEF TypeOK
    <3>5. QED
      BY <2>11, <3>1, <3>3, <3>4, SMTT(30) DEF SendCompletion, TypeOK
  <2>12. ASSUME NEW sent \in BOOLEAN, RouteToDLQ(m, sent)
         PROVE  TypeOK'
    <3>1. msgs' \subseteq Messages
      BY <2>12, PhaseTyped DEF RouteToDLQ, Phases
    <3>2. QED
      BY <2>12, <3>1 DEF RouteToDLQ, TypeOK
  <2>13. CASE Nack(m)
    <3>1. msgs' \subseteq Messages
      BY <2>13, PhaseTyped DEF Nack, Phases
    <3>2. QED
      BY <2>13, <3>1 DEF Nack, TypeOK
  <2>14. CASE Ack(m)
    BY <2>14 DEF Ack, TypeOK
  <2>15. CASE ExecUnitError(m)
    BY <2>15, ErrorTyped DEF ExecUnitError, TypeOK
  <2>16. ASSUME NEW counted \in BOOLEAN, Crash(m, counted)
         PROVE  TypeOK'
    <3>1. [m EXCEPT !.phase = "backlog",
                    !.redelivered = IF counted THEN @ + 1 ELSE @] \in Messages
      <4>1. (IF counted THEN m.redelivered + 1 ELSE m.redelivered) \in Nat
        BY <2>2 DEF Messages
      <4>2. QED
        BY <2>2, <4>1 DEF Messages, Phases
    <3>2. forks' \in 0..MaxForks
      BY <2>3, <2>16 DEF Crash, TypeOK
    <3>3. msgs' \subseteq Messages
      BY <2>16, <3>1 DEF Crash, Replace, TypeOK
    <3>4. QED
      BY <2>16, <3>2, <3>3 DEF Crash, TypeOK
  <2>17. QED
    BY <2>1, <2>4, <2>5, <2>6, <2>7, <2>8, <2>9, <2>10, <2>11, <2>12, <2>13,
       <2>14, <2>15, <2>16 DEF WorkerStep
<1>3. QED
  BY <1>1, <1>2

\* Every behaviour of the stage pipeline keeps its stage messages, the session
\* topic's end marker and the outcome counters well typed.
THEOREM TypeCorrect == Spec => []TypeOK
<1>1. Init => TypeOK
  <2>1. (CHOOSE i \in Ids : TRUE) \in Ids /\ MaxForks \in Nat
    BY PipelineAssumption DEF PipelineAssumption
  <2>2. NoMeta \in Metas
    BY DEF NoMeta, Metas
  <2>3. QED
    BY <2>1, <2>2 DEF Init, TypeOK, Messages, Stages, Phases
<1>2. QED
  BY <1>1, TypeStep, PTL DEF Spec

-------------------------------------------------------------------------------
(* The recursion fields *)

\* What the metadata of a stage message satisfies: every 1.0 and every 0.1
\* taken from the budget is accounted for by recursion_count and the pages,
\* the count grows only while it is below the limit, the ghost of the
\* re-plans agrees with the count as long as the metadata was never lost, and
\* chunk_offset points into the unit list exactly when the exec stage reads it.
Sound(stage, meta, rounds, dropped) ==
    /\ ~meta.set => meta = NoMeta
    /\ meta.set => /\ meta.budget + 10 * meta.count + meta.pages = RecursionBudget
                   /\ meta.budget >= -1
    /\ meta.count <= MaxRecursionCount
    /\ ~dropped => rounds = meta.count
    /\ stage = "exec" => meta.set /\ meta.offset < Units(meta)
    /\ stage # "exec" => meta.offset = 0

\* The inductive invariant: every stage message is sound.
AllSound == \A m \in msgs : Sound(m.stage, m.meta, m.rounds, m.dropped)

\* Moving a message to another phase, or counting its redelivery, touches
\* nothing that Sound is about.
LEMMA ReplaceSound ==
    ASSUME AllSound, NEW m \in msgs, NEW n,
           n.stage = m.stage, n.meta = m.meta, n.rounds = m.rounds,
           n.dropped = m.dropped
    PROVE  \A k \in Replace(m, n) : Sound(k.stage, k.meta, k.rounds, k.dropped)
BY DEF AllSound, Replace

\* The two changes of a message that the handlers make.
LEMMA PhaseSound ==
    ASSUME TypeOK, AllSound, NEW m \in msgs, NEW p, NEW c
    PROVE  /\ \A k \in Replace(m, [m EXCEPT !.phase = p]) :
                Sound(k.stage, k.meta, k.rounds, k.dropped)
           /\ \A k \in Replace(m, [m EXCEPT !.phase = p, !.redelivered = c]) :
                Sound(k.stage, k.meta, k.rounds, k.dropped)
<1>1. m \in Messages
  BY DEF TypeOK
<1> DEFINE n1 == [m EXCEPT !.phase = p]
           n2 == [m EXCEPT !.phase = p, !.redelivered = c]
<1>2. /\ n1.stage = m.stage /\ n1.meta = m.meta /\ n1.rounds = m.rounds
      /\ n1.dropped = m.dropped
  BY <1>1 DEF Messages
<1>3. /\ n2.stage = m.stage /\ n2.meta = m.meta /\ n2.rounds = m.rounds
      /\ n2.dropped = m.dropped
  BY <1>1 DEF Messages
<1> HIDE DEF n1, n2
<1>4. /\ \A k \in Replace(m, n1) : Sound(k.stage, k.meta, k.rounds, k.dropped)
      /\ \A k \in Replace(m, n2) : Sound(k.stage, k.meta, k.rounds, k.dropped)
  BY <1>2, <1>3, ReplaceSound
<1>5. QED
  BY <1>4 DEF n1, n2

\* Publishing a sound successor keeps every message sound.
LEMMA ForwardSound ==
    ASSUME TypeOK, AllSound, NEW m \in msgs, NEW stage, NEW meta, NEW rounds,
           NEW dropped, Sound(stage, meta, rounds, dropped),
           Forward(m, Successor(stage, meta, rounds, dropped))
    PROVE  AllSound'
<1> DEFINE next == Successor(stage, meta, rounds, dropped)
<1>1. Sound(next.stage, next.meta, next.rounds, next.dropped)
  BY DEF Successor
<1>2. /\ \A k \in Replace(m, Returned(m, "success")) :
            Sound(k.stage, k.meta, k.rounds, k.dropped)
      /\ \A k \in Replace(m, Returned(m, "transient")) :
            Sound(k.stage, k.meta, k.rounds, k.dropped)
  BY PhaseSound DEF Returned
<1> HIDE DEF next
<1>3. \/ msgs' = Replace(m, Returned(m, "success")) \cup {next}
      \/ msgs' = Replace(m, Returned(m, "transient"))
      \/ msgs' = Replace(m, Returned(m, "transient")) \cup {next}
  BY DEF Forward, next
<1>4. QED
  BY <1>1, <1>2, <1>3 DEF AllSound

\* handlePlan: the metadata is passed on, or lost.
LEMMA PlanSound ==
    ASSUME NEW meta \in Metas, NEW rounds \in Nat, NEW dropped \in BOOLEAN,
           NEW items \in BOOLEAN, Sound("plan", meta, rounds, dropped)
    PROVE  Sound("search", IF items THEN NoMeta ELSE meta, rounds, dropped \/ items)
<1>1. MaxRecursionCount \in Nat
  BY PipelineAssumption DEF PipelineAssumption
<1>2. CASE items
  BY <1>1, <1>2 DEF Sound, NoMeta
<1>3. CASE ~items
  BY <1>3 DEF Sound
<1>4. QED
  BY <1>2, <1>3

\* handleSearch: fresh recursion fields after a loss, the old ones otherwise.
LEMMA SearchSound ==
    ASSUME NEW meta \in Metas, NEW rounds \in Nat, NEW dropped \in BOOLEAN,
           NEW groups \in Nat, NEW refined \in Nat \cup {NoSteps},
           Sound("search", meta, rounds, dropped)
    PROVE  Sound("exec", Retrieved(meta, groups, refined), rounds, dropped)
<1> DEFINE new == Retrieved(meta, groups, refined)
<1>1. RecursionBudget \in Nat /\ MaxRecursionCount \in Nat
  BY PipelineAssumption DEF PipelineAssumption
<1>2. new \in Metas
  BY MetaTypes
<1>3. Units(new) \in Nat \ {0}
  BY <1>2, PageFacts
<1>4. /\ new.set = TRUE /\ new.offset = meta.offset /\ new.count = meta.count
      /\ new.pages = meta.pages
      /\ new.budget = IF meta.set THEN meta.budget ELSE RecursionBudget
  BY DEF Retrieved, Metas
<1>5. meta.offset = 0 /\ meta.count <= MaxRecursionCount
  BY DEF Sound
<1>6. new.budget + 10 * new.count + new.pages = RecursionBudget /\ new.budget >= -1
  BY <1>1, <1>4 DEF Sound, NoMeta, Metas
<1> HIDE DEF new
<1>7. Sound("exec", new, rounds, dropped)
  BY <1>3, <1>4, <1>5, <1>6 DEF Sound
<1>8. QED
  BY <1>7 DEF new

\* handleExec: the next page and the next round, when handleExecDecision
\* allows them.
LEMMA ExecSound ==
    ASSUME TypeOK, NEW m \in msgs, m.stage = "exec",
           Sound("exec", m.meta, m.rounds, m.dropped),
           NEW spent \in SpentAnswers(Counted(m)),
           NEW affordable \in AffordableAnswers(Counted(m))
    PROVE  /\ PageEnd(Counted(m)) < Units(Counted(m)) /\ ~spent =>
                Sound("exec", NextPage(Counted(m)), m.rounds, m.dropped)
           /\ affordable /\ ~(Counted(m).count >= MaxRecursionCount) =>
                Sound("plan", NextRound(Counted(m)), m.rounds + 1, m.dropped)
<1> DEFINE meta == Counted(m)
<1>1. RecursionBudget \in Nat /\ MaxRecursionCount \in Nat
  BY PipelineAssumption DEF PipelineAssumption
<1>2. /\ m.meta \in Metas /\ meta \in Metas /\ m.rounds \in Nat
      /\ m.dropped \in BOOLEAN
  BY CountedTyped
<1>3. /\ meta.set = m.meta.set /\ meta.budget = m.meta.budget
      /\ meta.count = m.meta.count /\ meta.pages = m.meta.pages
      /\ meta.offset = m.meta.offset /\ meta.groups = m.meta.groups
      /\ meta.steps = m.meta.steps
  BY <1>2 DEF Counted, Metas
<1>4. /\ meta.set = TRUE
      /\ meta.budget + 10 * meta.count + meta.pages = RecursionBudget
      /\ meta.budget >= -1
      /\ meta.count <= MaxRecursionCount
      /\ ~m.dropped => m.rounds = meta.count
  BY <1>2, <1>3 DEF Sound, Metas
<1>5. /\ meta.budget \in Int /\ meta.count \in Nat /\ meta.pages \in Nat
      /\ PageEnd(meta) \in Nat
  BY <1>2, PageFacts DEF Metas
<1> HIDE DEF meta
<1>6. ~spent => meta.budget >= 0
  <2>1. CASE meta.budget < 0
    <3>1. meta.budget # 0 /\ meta.budget <= 0
      BY <1>5, <2>1
    <3>2. spent \in SpentAnswers(meta)
      BY DEF meta
    <3>3. spent = (meta.budget <= 0)
      BY <3>1, <3>2, Zenon DEF SpentAnswers
    <3>4. QED
      BY <3>1, <3>3, Zenon
  <2>2. QED
    BY <1>5, <2>1
<1>7. affordable => meta.budget >= 10
  <2>1. CASE meta.budget < 10
    <3>1. meta.budget # 10 /\ ~(meta.budget >= 10)
      BY <1>5, <2>1
    <3>2. affordable \in AffordableAnswers(meta)
      BY DEF meta
    <3>3. affordable = (meta.budget >= 10)
      BY <3>1, <3>2, Zenon DEF AffordableAnswers
    <3>4. QED
      BY <3>1, <3>3, Zenon
  <2>2. QED
    BY <1>5, <2>1
<1>8. ASSUME PageEnd(meta) < Units(meta), ~spent
      PROVE  Sound("exec", NextPage(meta), m.rounds, m.dropped)
  <2> DEFINE new == NextPage(meta)
  <2>1. /\ new.set = TRUE /\ new.budget = meta.budget - 1
        /\ new.count = meta.count /\ new.pages = meta.pages + 1
        /\ new.offset = PageEnd(meta) /\ new.groups = meta.groups
        /\ new.steps = meta.steps
    BY <1>2, <1>4 DEF NextPage, Metas
  <2>2. Units(new) = Units(meta)
    BY <2>1 DEF Units
  <2> HIDE DEF new
  <2>3. Sound("exec", new, m.rounds, m.dropped)
    BY <1>1, <1>4, <1>5, <1>6, <1>8, <2>1, <2>2 DEF Sound
  <2>4. QED
    BY <2>3 DEF new
<1>9. ASSUME affordable, ~(meta.count >= MaxRecursionCount)
      PROVE  Sound("plan", NextRound(meta), m.rounds + 1, m.dropped)
  <2> DEFINE new == NextRound(meta)
  <2>1. /\ new.set = TRUE /\ new.budget = meta.budget - 10
        /\ new.count = meta.count + 1 /\ new.pages = meta.pages
        /\ new.offset = 0
    BY <1>2, <1>4 DEF NextRound, Metas
  <2> HIDE DEF new
  <2>2. Sound("plan", new, m.rounds + 1, m.dropped)
    BY <1>1, <1>2, <1>4, <1>5, <1>7, <1>9, <2>1 DEF Sound
  <2>3. QED
    BY <2>2 DEF new
<1>10. QED
  BY <1>8, <1>9 DEF meta

\* Every step keeps every message sound.
LEMMA SoundStep == TypeOK /\ AllSound /\ [Next]_vars => AllSound'
<1> SUFFICES ASSUME TypeOK, AllSound, [Next]_vars PROVE AllSound'
  OBVIOUS
<1>1. CASE UNCHANGED vars
  BY <1>1 DEF vars, AllSound
<1>2. CASE Next
  <2>1. PICK m \in msgs :
          \/ WorkerStep(m)
          \/ ExecUnitError(m)
          \/ \E counted \in BOOLEAN : Crash(m, counted)
    BY <1>2 DEF Next
  <2>2. /\ m.meta \in Metas /\ m.rounds \in Nat /\ m.dropped \in BOOLEAN
        /\ Sound(m.stage, m.meta, m.rounds, m.dropped)
    BY CountedTyped DEF AllSound
  <2>3. MaxGroups \in Nat /\ MaxSteps \in Nat /\ MemoryPacks \subseteq BOOLEAN
    BY PipelineAssumption DEF PipelineAssumption
  <2>4. CASE Receive(m)
    BY <2>4, PhaseSound DEF Receive, AllSound
  <2>5. CASE HandleIngress(m)
    <3>1. Sound("plan", m.meta, m.rounds, m.dropped)
      BY <2>2, <2>5 DEF HandleIngress, At, Sound
    <3>2. QED
      BY <2>5, <3>1, ForwardSound DEF HandleIngress
  <2>6. ASSUME NEW r \in Results, PlanFails(m, r) \/ SearchFails(m, r)
        PROVE  AllSound'
    BY <2>6, PhaseSound DEF PlanFails, SearchFails, Fail, Returned, AllSound
  <2>7. ASSUME NEW items \in MemoryPacks, HandlePlan(m, items)
        PROVE  AllSound'
    <3>1. m.stage = "plan" /\ items \in BOOLEAN
      BY <2>3, <2>7 DEF HandlePlan, At
    <3>2. Sound("search", IF items THEN NoMeta ELSE m.meta, m.rounds,
                m.dropped \/ items)
      BY <2>2, <3>1, PlanSound
    <3>3. QED
      BY <2>7, <3>2, ForwardSound DEF HandlePlan
  <2>8. ASSUME NEW groups \in 0..MaxGroups, NEW refined \in NoSteps..MaxSteps,
               HandleSearch(m, groups, refined)
        PROVE  AllSound'
    <3>1. groups \in Nat /\ refined \in Nat \cup {NoSteps}
      BY <2>3 DEF NoSteps
    <3>2. m.stage = "search"
      BY <2>8 DEF HandleSearch, At
    <3>3. Sound("exec", Retrieved(m.meta, groups, refined), m.rounds, m.dropped)
      BY <2>2, <3>1, <3>2, SearchSound
    <3>4. QED
      BY <2>8, <3>3, ForwardSound DEF HandleSearch
  <2>9. CASE ExecFails(m)
    BY <2>9, PhaseSound DEF ExecFails, Fail, Returned, AllSound
  <2>10. ASSUME NEW o, NEW spent, NEW affordable,
                HandleExec(m, o, spent, affordable)
         PROVE  AllSound'
    <3>1. /\ m.stage = "exec"
          /\ spent \in SpentAnswers(Counted(m))
          /\ affordable \in AffordableAnswers(Counted(m))
      BY <2>10, ExecCases
    <3>2. CASE /\ PageEnd(Counted(m)) < Units(Counted(m)) /\ ~spent
               /\ Forward(m, Successor("exec", NextPage(Counted(m)),
                                       m.rounds, m.dropped))
      <4>1. Sound("exec", NextPage(Counted(m)), m.rounds, m.dropped)
        BY <2>2, <3>1, <3>2, ExecSound
      <4>2. QED
        BY <3>2, <4>1, ForwardSound
    <3>3. CASE /\ affordable /\ ~(Counted(m).count >= MaxRecursionCount)
               /\ Forward(m, Successor("plan", NextRound(Counted(m)),
                                       m.rounds + 1, m.dropped))
      <4>1. Sound("plan", NextRound(Counted(m)), m.rounds + 1, m.dropped)
        BY <2>2, <3>1, <3>3, ExecSound
      <4>2. QED
        BY <3>3, <4>1, ForwardSound
    <3>4. ASSUME NEW sent \in BOOLEAN, SendFinal(m, sent) PROVE AllSound'
      BY <3>4, PhaseSound DEF SendFinal, AllSound
    <3>5. QED
      BY <2>10, <3>2, <3>3, <3>4, ExecCases
  <2>11. ASSUME NEW sent \in BOOLEAN, SendCompletion(m, sent)
         PROVE  AllSound'
    BY <2>11, PhaseSound DEF SendCompletion, Returned, AllSound
  <2>12. ASSUME NEW sent \in BOOLEAN, RouteToDLQ(m, sent)
         PROVE  AllSound'
    BY <2>12, PhaseSound DEF RouteToDLQ, AllSound
  <2>13. CASE Nack(m)
    BY <2>13, PhaseSound DEF Nack, AllSound
  <2>14. CASE Ack(m)
    BY <2>14 DEF Ack, AllSound
  <2>15. CASE ExecUnitError(m)
    BY <2>15 DEF ExecUnitError, AllSound
  <2>16. ASSUME NEW counted \in BOOLEAN, Crash(m, counted)
         PROVE  AllSound'
    BY <2>16, PhaseSound DEF Crash, AllSound
  <2>17. QED
    BY <2>1, <2>4, <2>5, <2>6, <2>7, <2>8, <2>9, <2>10, <2>11, <2>12, <2>13,
       <2>14, <2>15, <2>16 DEF WorkerStep
<1>3. QED
  BY <1>1, <1>2

\* Every behaviour keeps every message sound.
LEMMA AlwaysSound == Spec => []AllSound
<1>1. Init => AllSound
  <2>1. MaxRecursionCount \in Nat
    BY PipelineAssumption DEF PipelineAssumption
  <2>2. QED
    BY <2>1 DEF Init, AllSound, Sound, NoMeta
<1>2. QED
  BY <1>1, SoundStep, TypeCorrect, PTL DEF Spec

\* In every round, for every paging configuration, the exec stage has a
\* non-empty page to process: pagination and re-planning keep chunk_offset
\* inside the unit list that the same metadata yields.
THEOREM PageInRangeAlways == Spec => []PageInRange
<1>1. AllSound => PageInRange
  BY DEF AllSound, Sound, PageInRange
<1>2. QED
  BY <1>1, AlwaysSound, PTL

\* Re-plans and pages of a pipeline that kept its metadata stay within the
\* configured recursion budget and MaxRecursionCount, for every value of both
\* and whichever way the float comparisons at the boundary go.
THEOREM RecursionBoundedAlways == Spec => []RecursionBounded
<1>1. TypeOK /\ AllSound => RecursionBounded
  <2> SUFFICES ASSUME TypeOK, AllSound, NEW m \in msgs, ~m.dropped
               PROVE  /\ m.rounds <= MaxRecursionCount
                      /\ 10 * m.rounds + m.meta.pages <= RecursionBudget + 1
    BY DEF RecursionBounded
  <2>1. m.meta \in Metas /\ Sound(m.stage, m.meta, m.rounds, m.dropped)
    BY CountedTyped DEF AllSound
  <2>2. RecursionBudget \in Nat /\ MaxRecursionCount \in Nat
    BY PipelineAssumption DEF PipelineAssumption
  <2>3. /\ m.meta.budget \in Int /\ m.meta.count \in Nat /\ m.meta.pages \in Nat
        /\ m.rounds = m.meta.count /\ m.meta.count <= MaxRecursionCount
    BY <2>1 DEF Sound, Metas
  <2>4. m.meta.set => /\ m.meta.budget + 10 * m.meta.count + m.meta.pages = RecursionBudget
                      /\ m.meta.budget >= -1
    BY <2>1 DEF Sound
  <2>5. ~m.meta.set => m.meta.count = 0 /\ m.meta.pages = 0
    BY <2>1 DEF Sound, NoMeta
  <2>6. QED
    BY <2>2, <2>3, <2>4, <2>5
<1>2. QED
  BY <1>1, AlwaysSound, TypeCorrect, PTL

-------------------------------------------------------------------------------
(* Requests are neither lost nor multiplied *)

\* A message that owes an outcome is replaced by at most one.
KeptOpen(m) ==
    /\ Owing' # {}
    /\ \E n : Owing' \subseteq (Owing \ {m}) \cup {n}

\* The kinds of steps, by what they do to the messages that owe an outcome and
\* to the outcomes.  One owing message is passed on or kept;
PassedOn(m) ==
    /\ m \in Owing /\ KeptOpen(m)
    /\ UNCHANGED <<completions, dead, forks>> /\ unsent \subseteq unsent'
\* or it is passed on and kept;
Forked(m) ==
    /\ m \in Owing /\ Owing' # {}
    /\ \E n, k : Owing' \subseteq (Owing \ {m}) \cup {n, k}
    /\ forks' = forks + 1
    /\ UNCHANGED <<completions, dead, unsent>>
\* or it becomes an outcome;
Settled(m) ==
    /\ m \in Owing /\ Owing' \subseteq Owing \ {m}
    /\ \/ completions' = completions + 1 /\ dead' = dead
       \/ completions' = completions /\ dead' = dead + 1
       \/ /\ completions' = completions /\ dead' = dead
          /\ unsent' \cap {"completion", "dlq"} # {}
    /\ forks' = forks
\* or a message that owes nothing any more is removed;
Removed ==
    /\ Owing' = Owing
    /\ UNCHANGED <<completions, dead, unsent, forks>>
\* or a crash has a message delivered again.
Redelivered ==
    /\ Owing' # {}
    /\ \E n : Owing' \subseteq Owing \cup {n}
    /\ forks' = forks + 1
    /\ UNCHANGED <<completions, dead, unsent>>

\* Replacing a message by one in another phase.
LEMMA ReplaceOwing ==
    ASSUME NEW m \in msgs, NEW n, msgs' = Replace(m, n)
    PROVE  /\ Owing' \subseteq (Owing \ {m}) \cup {n}
           /\ n.phase \notin {"success", "routed"} => Owing' # {}
           /\ n.phase \in {"success", "routed"} => Owing' \subseteq Owing \ {m}
<1>1. Owing' = {k \in (msgs \ {m}) \cup {n} : Open(k)}
  BY DEF Owing, Replace, Open
<1>2. n.phase \notin {"success", "routed"} => n \in Owing'
  BY <1>1 DEF Open
<1>3. QED
  BY <1>1, <1>2 DEF Owing, Open

\* The phase of a message that was moved to another phase.
LEMMA PhaseOf ==
    ASSUME TypeOK, NEW m \in msgs, NEW p, NEW c
    PROVE  /\ [m EXCEPT !.phase = p].phase = p
           /\ [m EXCEPT !.phase = p, !.redelivered = c].phase = p
BY DEF TypeOK, Messages

\* A step that moves one message to another phase.
LEMMA PhaseOwing ==
    ASSUME TypeOK, NEW m \in msgs, NEW p, NEW c,
           \/ msgs' = Replace(m, [m EXCEPT !.phase = p])
           \/ msgs' = Replace(m, [m EXCEPT !.phase = p, !.redelivered = c])
    PROVE  /\ p \notin {"success", "routed"} => KeptOpen(m)
           /\ p \in {"success", "routed"} => Owing' \subseteq Owing \ {m}
<1>1. PICK n : n.phase = p /\ msgs' = Replace(m, n)
  BY PhaseOf
<1>2. QED
  BY <1>1, ReplaceOwing DEF KeptOpen

\* Publishing to the next stage passes the message on, or forks it.
LEMMA ForwardKind ==
    ASSUME TypeOK, NEW m \in msgs, m.phase = "running",
           NEW stage, NEW meta, NEW rounds, NEW dropped,
           Forward(m, Successor(stage, meta, rounds, dropped))
    PROVE  PassedOn(m) \/ Forked(m)
<1> DEFINE next == Successor(stage, meta, rounds, dropped)
<1>1. next.phase = "backlog"
  BY DEF Successor
<1>2. m \in Owing
  BY DEF Owing, Open
<1>3. /\ Returned(m, "success").phase = "success"
      /\ Returned(m, "transient").phase = "transient"
  BY PhaseOf DEF Returned
<1> HIDE DEF next
<1>4. CASE /\ FreeIds # {}
           /\ msgs' = Replace(m, Returned(m, "success")) \cup {next}
           /\ UNCHANGED <<endMarker, completions, dead, unsent, forks>>
  <2>1. Owing' \subseteq (Owing \ {m}) \cup {next} /\ next \in Owing'
    BY <1>1, <1>3, <1>4 DEF Owing, Open, Replace
  <2>2. QED
    BY <1>2, <1>4, <2>1 DEF PassedOn, KeptOpen
<1>5. CASE /\ msgs' = Replace(m, Returned(m, "transient"))
           /\ SendError
           /\ UNCHANGED <<completions, dead, unsent, forks>>
  <2>1. /\ Owing' \subseteq (Owing \ {m}) \cup {Returned(m, "transient")}
        /\ Owing' # {}
    BY <1>3, <1>5, ReplaceOwing
  <2>2. QED
    BY <1>2, <1>5, <2>1 DEF PassedOn, KeptOpen
<1>6. CASE /\ forks < MaxForks /\ FreeIds # {}
           /\ msgs' = Replace(m, Returned(m, "transient")) \cup {next}
           /\ SendError
           /\ forks' = forks + 1
           /\ UNCHANGED <<completions, dead, unsent>>
  <2>1. /\ Owing' \subseteq (Owing \ {m}) \cup {Returned(m, "transient"), next}
        /\ next \in Owing'
    BY <1>1, <1>3, <1>6 DEF Owing, Open, Replace
  <2>2. QED
    BY <1>2, <1>6, <2>1 DEF Forked
<1>7. QED
  BY <1>4, <1>5, <1>6 DEF Forward, next

\* HandleMessage acknowledges without routing only what was processed.
LEMMA AckedIsSuccess ==
    ASSUME NEW m, Disposed(m, "ack")
    PROVE  m.phase = "success"
BY DEF Disposed, Disposition, Results

\* What is nacked or routed was not processed.
LEMMA FailedIsOpen ==
    ASSUME NEW m, Disposed(m, "nack") \/ Disposed(m, "bury")
    PROVE  m.phase \notin {"success", "routed"}
BY DEF Disposed, Disposition, Results

\* A stage that gives up keeps its message.
LEMMA FailKind ==
    ASSUME TypeOK, NEW m \in msgs, m.phase = "running",
           NEW r \in Results \ {"success"}, Fail(m, r)
    PROVE  PassedOn(m)
<1>1. Returned(m, r).phase = r
  BY PhaseOf DEF Returned
<1>2. Owing' \subseteq (Owing \ {m}) \cup {Returned(m, r)} /\ Owing' # {}
  BY <1>1, ReplaceOwing DEF Fail, Results
<1>3. m \in Owing
  BY DEF Owing, Open
<1>4. QED
  BY <1>2, <1>3 DEF Fail, PassedOn, KeptOpen

\* Every step is of one of the kinds above.
LEMMA StepKinds ==
    ASSUME TypeOK, Next
    PROVE  \/ \E m \in msgs : PassedOn(m) \/ Forked(m) \/ Settled(m)
           \/ Removed \/ Redelivered
<1>1. PICK m \in msgs :
        \/ WorkerStep(m)
        \/ ExecUnitError(m)
        \/ \E counted \in BOOLEAN : Crash(m, counted)
  BY DEF Next
<1>2. m.phase \notin {"success", "routed"} => m \in Owing
  BY DEF Owing, Open
<1> DEFINE Goal == \/ PassedOn(m) \/ Forked(m) \/ Settled(m)
                   \/ Removed \/ Redelivered
<1>3. CASE Receive(m)
  <2>1. KeptOpen(m)
    <3>1. msgs' = Replace(m, [m EXCEPT !.phase = "running"])
      BY <1>3 DEF Receive
    <3>2. "running" \notin {"success", "routed"}
      OBVIOUS
    <3>3. QED
      BY <3>1, <3>2, PhaseOwing, Zenon
  <2>2. QED
    BY <1>2, <1>3, <2>1 DEF Receive, PassedOn
<1>4. CASE HandleIngress(m)
  BY <1>4, ForwardKind DEF HandleIngress, At
<1>5. ASSUME NEW r \in Results, PlanFails(m, r) \/ SearchFails(m, r)
      PROVE  Goal
  BY <1>5, FailKind DEF PlanFails, SearchFails, At
<1>6. ASSUME NEW items, HandlePlan(m, items)
      PROVE  Goal
  BY <1>6, ForwardKind DEF HandlePlan, At
<1>7. ASSUME NEW groups, NEW refined, HandleSearch(m, groups, refined)
      PROVE  Goal
  BY <1>7, ForwardKind DEF HandleSearch, At
<1>8. CASE ExecFails(m)
  BY <1>8, FailKind DEF ExecFails, At, Results
<1>9. ASSUME NEW o, NEW spent, NEW affordable,
             HandleExec(m, o, spent, affordable)
      PROVE  Goal
  <2>1. m.phase = "running"
    BY <1>9, ExecCases
  <2>2. ASSUME NEW sent \in BOOLEAN, SendFinal(m, sent) PROVE PassedOn(m)
    <3>1. KeptOpen(m)
      <4>1. msgs' = Replace(m, [m EXCEPT !.phase = "answered"])
        BY <2>2 DEF SendFinal
      <4>2. "answered" \notin {"success", "routed"}
        OBVIOUS
      <4>3. QED
        BY <4>1, <4>2, PhaseOwing, Zenon
    <3>2. QED
      BY <1>2, <2>1, <2>2, <3>1 DEF SendFinal, PassedOn
  <2>3. QED
    BY <1>9, <2>1, <2>2, ExecCases, ForwardKind
<1>10. ASSUME NEW sent \in BOOLEAN, SendCompletion(m, sent)
       PROVE  Goal
  <2>1. Owing' \subseteq Owing \ {m}
    BY <1>10, PhaseOwing DEF SendCompletion, Returned
  <2>2. \/ completions' = completions + 1
        \/ completions' = completions /\ unsent' = unsent \cup {"completion"}
    BY <1>10, Zenon DEF SendCompletion
  <2>3. m \in Owing
    BY <1>2, <1>10 DEF SendCompletion
  <2>4. QED
    BY <1>10, <2>1, <2>2, <2>3 DEF SendCompletion, Settled
<1>11. ASSUME NEW sent \in BOOLEAN, RouteToDLQ(m, sent)
       PROVE  Goal
  <2>1. Owing' \subseteq Owing \ {m}
    BY <1>11, PhaseOwing DEF RouteToDLQ
  <2>2. \/ dead' = dead + 1
        \/ dead' = dead /\ unsent' = unsent \cup {"dlq"}
    BY <1>11, Zenon DEF RouteToDLQ
  <2>3. m \in Owing
    BY <1>2, <1>11, FailedIsOpen DEF RouteToDLQ
  <2>4. QED
    BY <1>11, <2>1, <2>2, <2>3 DEF RouteToDLQ, Settled
<1>12. CASE Nack(m)
  <2>1. KeptOpen(m)
    <3> DEFINE c == m.redelivered + 1
    <3>1. msgs' = Replace(m, [m EXCEPT !.phase = "backlog", !.redelivered = c])
      BY <1>12 DEF Nack
    <3> HIDE DEF c
    <3>2. "backlog" \notin {"success", "routed"}
      OBVIOUS
    <3>3. QED
      BY <3>1, <3>2, PhaseOwing, Zenon
  <2>2. m \in Owing
    BY <1>2, <1>12, FailedIsOpen DEF Nack
  <2>3. QED
    BY <1>12, <2>1, <2>2 DEF Nack, PassedOn
<1>13. CASE Ack(m)
  <2>1. m.phase \in {"success", "routed"}
    BY <1>13, AckedIsSuccess DEF Ack
  <2>2. Owing' = Owing
    BY <1>13, <2>1 DEF Ack, Owing, Open
  <2>3. QED
    BY <1>13, <2>2 DEF Ack, Removed
<1>14. CASE ExecUnitError(m)
  BY <1>14 DEF ExecUnitError, Removed, Owing, Open
<1>15. ASSUME NEW counted \in BOOLEAN, Crash(m, counted)
       PROVE  Goal
  <2>1. KeptOpen(m)
    <3> DEFINE c == IF counted THEN m.redelivered + 1 ELSE m.redelivered
    <3>1. msgs' = Replace(m, [m EXCEPT !.phase = "backlog", !.redelivered = c])
      BY <1>15 DEF Crash
    <3> HIDE DEF c
    <3>2. "backlog" \notin {"success", "routed"}
      OBVIOUS
    <3>3. QED
      BY <3>1, <3>2, PhaseOwing, Zenon
  <2>2. QED
    BY <1>15, <2>1 DEF Crash, Redelivered, KeptOpen
<1>16. QED
  BY <1>1, <1>3, <1>4, <1>5, <1>6, <1>7, <1>8, <1>9, <1>10, <1>11, <1>12,
     <1>13, <1>14, <1>15 DEF WorkerStep

\* No request vanishes, whatever fails, crashes or is delivered twice: there is
\* a message that still owes it an outcome, or an outcome, or a publish whose
\* failure the code only logs.
THEOREM RequestAccountedAlways == Spec => []RequestAccounted
<1>1. Init => RequestAccounted
  <2> SUFFICES ASSUME Init PROVE Owing # {}
    BY DEF RequestAccounted
  <2> DEFINE first == [id |-> CHOOSE i \in Ids : TRUE, stage |-> "ingress",
                          meta |-> NoMeta, redelivered |-> 0, phase |-> "backlog",
                          rounds |-> 0, dropped |-> FALSE]
  <2>1. first \in msgs /\ first.phase = "backlog"
    BY DEF Init
  <2>2. QED
    BY <2>1 DEF Owing, Open
<1>2. TypeOK /\ RequestAccounted /\ [Next]_vars => RequestAccounted'
  <2> SUFFICES ASSUME TypeOK, RequestAccounted, [Next]_vars
               PROVE  RequestAccounted'
    OBVIOUS
  <2>1. completions \in Nat /\ dead \in Nat
    BY DEF TypeOK
  <2>2. CASE UNCHANGED vars
    BY <2>2 DEF vars, RequestAccounted, Owing, Open
  <2>3. ASSUME NEW m \in msgs, PassedOn(m) \/ Forked(m)
        PROVE  RequestAccounted'
    BY <2>3 DEF PassedOn, KeptOpen, Forked, RequestAccounted
  <2>4. ASSUME NEW m \in msgs, Settled(m)
        PROVE  RequestAccounted'
    BY <2>1, <2>4 DEF Settled, RequestAccounted
  <2>5. CASE Removed
    BY <2>5 DEF Removed, RequestAccounted
  <2>6. CASE Redelivered
    BY <2>6 DEF Redelivered, RequestAccounted
  <2>7. QED
    BY <2>2, <2>3, <2>4, <2>5, <2>6, StepKinds
<1>3. QED
  BY <1>1, <1>2, TypeCorrect, PTL DEF Spec

\* How the number of owing messages changes with each kind of step.
LEMMA SetCounts ==
    ASSUME NEW S, IsFiniteSet(S), NEW m \in S, NEW n, NEW k
    PROVE  /\ Cardinality(S) \in Nat
           /\ IsFiniteSet((S \ {m}) \cup {n, k})
           /\ Cardinality(S \ {m}) = Cardinality(S) - 1
           /\ Cardinality((S \ {m}) \cup {n}) <= Cardinality(S)
           /\ Cardinality((S \ {m}) \cup {n, k}) <= Cardinality(S) + 1
<1> DEFINE S1 == S \ {m}
           S2 == S1 \cup {n}
           S3 == S2 \cup {k}
<1>1. Cardinality(S) \in Nat
  BY FS_CardinalityType
<1>2. IsFiniteSet(S1) /\ Cardinality(S1) = Cardinality(S) - 1
  BY FS_RemoveElement
<1> HIDE DEF S1
<1>3. IsFiniteSet(S2) /\ (Cardinality(S2) = Cardinality(S1) \/ Cardinality(S2) = Cardinality(S1) + 1)
  BY <1>2, FS_AddElement
<1> HIDE DEF S2
<1>4. IsFiniteSet(S3) /\ (Cardinality(S3) = Cardinality(S2) \/ Cardinality(S3) = Cardinality(S2) + 1)
  BY <1>3, FS_AddElement
<1>5. S3 = S1 \cup {n, k}
  BY DEF S2
<1> HIDE DEF S3
<1>6. QED
  BY <1>1, <1>2, <1>3, <1>4, <1>5 DEF S1, S2

\* One owing message less pays for one outcome more.
LEMMA Balance ==
    ASSUME NEW c \in Nat, NEW c1 \in Nat, NEW n \in Nat, NEW n1 \in Nat,
           NEW d \in Nat, NEW d1 \in Nat, NEW f \in Nat,
           c1 <= c - 1, n1 + d1 <= n + d + 1, c + n + d <= 1 + f
    PROVE  c1 + n1 + d1 <= 1 + f
OBVIOUS

\* A request is answered at most once more than it was forked by a crash or by
\* a publish that was stored but reported as failed.
THEOREM NoSpuriousForkAlways == Spec => []NoSpuriousFork
<1> DEFINE Inv == IsFiniteSet(Owing) /\ NoSpuriousFork
<1>1. Init => Inv
  <2> SUFFICES ASSUME Init PROVE Inv
    OBVIOUS
  <2> DEFINE first == [id |-> CHOOSE i \in Ids : TRUE, stage |-> "ingress",
                          meta |-> NoMeta, redelivered |-> 0, phase |-> "backlog",
                          rounds |-> 0, dropped |-> FALSE]
  <2>1. msgs = {first} /\ first.phase = "backlog"
    BY DEF Init
  <2> HIDE DEF first
  <2>2. Owing = {first}
    BY <2>1 DEF Owing, Open
  <2>3. IsFiniteSet(Owing) /\ Cardinality(Owing) = 1
    BY <2>2, FS_Singleton
  <2>4. QED
    BY <2>3 DEF Init, NoSpuriousFork
<1>2. TypeOK /\ Inv /\ [Next]_vars => Inv'
  <2> SUFFICES ASSUME TypeOK, Inv, [Next]_vars PROVE Inv'
    OBVIOUS
  <2>1. completions \in Nat /\ dead \in Nat /\ forks \in Nat /\ Cardinality(Owing) \in Nat
    BY PipelineAssumption, FS_CardinalityType DEF TypeOK, PipelineAssumption
  <2>2. CASE UNCHANGED vars
    <3>1. Owing' = Owing
      BY <2>2 DEF vars, Owing, Open
    <3>2. QED
      BY <2>2, <3>1 DEF vars, NoSpuriousFork
  <2>3. ASSUME NEW m \in msgs, PassedOn(m) PROVE Inv'
    <3>1. PICK n : Owing' \subseteq (Owing \ {m}) \cup {n}
      BY <2>3 DEF PassedOn, KeptOpen
    <3> DEFINE S == (Owing \ {m}) \cup {n}
    <3>2. IsFiniteSet(S) /\ Cardinality(S) <= Cardinality(Owing) /\ Cardinality(S) \in Nat
      <4>1. (Owing \ {m}) \cup {n, n} = S
        OBVIOUS
      <4>2. QED
        BY <2>3, <4>1, SetCounts, FS_CardinalityType DEF PassedOn
    <3> HIDE DEF S
    <3>3. IsFiniteSet(Owing') /\ Cardinality(Owing') <= Cardinality(S)
      BY <3>1, <3>2, FS_Subset DEF S
    <3>4. Cardinality(Owing') \in Nat
      BY <3>3, FS_CardinalityType
    <3>5. QED
      BY <2>1, <2>3, <3>2, <3>3, <3>4 DEF PassedOn, NoSpuriousFork
  <2>4. ASSUME NEW m \in msgs, Forked(m) PROVE Inv'
    <3>1. PICK n, k : Owing' \subseteq (Owing \ {m}) \cup {n, k}
      BY <2>4 DEF Forked
    <3> DEFINE S == (Owing \ {m}) \cup {n, k}
    <3>2. IsFiniteSet(S) /\ Cardinality(S) <= Cardinality(Owing) + 1 /\ Cardinality(S) \in Nat
      BY <2>4, SetCounts, FS_CardinalityType DEF Forked
    <3> HIDE DEF S
    <3>3. IsFiniteSet(Owing') /\ Cardinality(Owing') <= Cardinality(S)
      BY <3>1, <3>2, FS_Subset DEF S
    <3>4. Cardinality(Owing') \in Nat
      BY <3>3, FS_CardinalityType
    <3>5. QED
      BY <2>1, <2>4, <3>2, <3>3, <3>4 DEF Forked, NoSpuriousFork
  <2>5. ASSUME NEW m \in msgs, Settled(m) PROVE Inv'
    <3> DEFINE S == Owing \ {m}
    <3>1. IsFiniteSet(S) /\ Cardinality(S) = Cardinality(Owing) - 1
      BY <2>5, FS_RemoveElement DEF Settled
    <3>2. Cardinality(S) \in Nat /\ Owing' \subseteq S
      BY <2>5, <3>1, FS_CardinalityType DEF Settled
    <3> HIDE DEF S
    <3>3. IsFiniteSet(Owing') /\ Cardinality(Owing') <= Cardinality(S)
      BY <3>1, <3>2, FS_Subset
    <3>4. Cardinality(Owing') \in Nat
      BY <3>3, FS_CardinalityType
    <3>5. completions' + dead' <= completions + dead + 1 /\ forks' = forks
          /\ completions' \in Nat /\ dead' \in Nat
      BY <2>1, <2>5 DEF Settled
    <3>6. Cardinality(Owing) + completions + dead <= 1 + forks
      BY DEF NoSpuriousFork
    <3>7. Cardinality(Owing') + completions' + dead' <= 1 + forks'
      <4>1. Cardinality(Owing') <= Cardinality(Owing) - 1
        BY <3>1, <3>3
      <4>2. QED
        BY <2>1, <3>4, <3>5, <3>6, <4>1, Balance
    <3>8. QED
      BY <3>3, <3>7 DEF NoSpuriousFork
  <2>6. CASE Removed
    BY <2>6 DEF Removed, NoSpuriousFork
  <2>7. CASE Redelivered
    <3>1. PICK n : Owing' \subseteq Owing \cup {n}
      BY <2>7 DEF Redelivered
    <3> DEFINE S == Owing \cup {n}
    <3>2. IsFiniteSet(S) /\ (\/ Cardinality(S) = Cardinality(Owing)
                             \/ Cardinality(S) = Cardinality(Owing) + 1)
      BY FS_AddElement
    <3> HIDE DEF S
    <3>3. IsFiniteSet(Owing') /\ Cardinality(Owing') <= Cardinality(S)
      BY <3>1, <3>2, FS_Subset DEF S
    <3>4. Cardinality(Owing') \in Nat
      BY <3>3, FS_CardinalityType
    <3>5. QED
      BY <2>1, <2>7, <3>2, <3>3, <3>4 DEF Redelivered, NoSpuriousFork
  <2>8. QED
    BY <2>2, <2>3, <2>4, <2>5, <2>6, <2>7, StepKinds
<1>3. Inv => NoSpuriousFork
  OBVIOUS
<1>4. QED
  BY <1>1, <1>2, <1>3, TypeCorrect, PTL DEF Spec

===============================================================================
