------------------------- MODULE ResponseStoreProofs -------------------------
(***************************************************************************)
(* What the db-adapter stores, for every number of messages and failures:  *)
(* the types and the user's prompt with any number of replicas; and, with  *)
(* one replica, the pieces of the response, the final result and the logs. *)
(*                                                                         *)
(* With one replica nobody writes between a handler's query and its        *)
(* commit, so that what was read is still what is stored (ReadFresh) and   *)
(* every prompt row has one record (OneEach).                              *)
(***************************************************************************)
EXTENDS ResponseStore, SequenceTheorems, TLAPS

HasText == \E i \in DOMAIN prompts : prompts[i] = "text"

Pcs == {"idle", "find", "create", "fill", "ack"}

\* What the prompt loops rely on: rows are ghosts or have the text, a ghost that
\* was found is still there, and a handler that is about to acknowledge knows of
\* a row with the text.
PromptInv ==
    /\ prompts \in Seq({"pending", "text"})
    /\ prom \in [Replicas -> [pc : Pcs, row : Nat]]
    /\ \A r \in Replicas : prom[r].pc = "fill" => prom[r].row \in 1..Len(prompts)
    /\ \A r \in Replicas : prom[r].pc = "ack" => HasText
    /\ promptMsg = "acked" => HasText

\* Rows are added and filled, never removed and never emptied: what the
\* invariant says of the rows survives every such step.
LEMMA RowsGrow ==
    ASSUME NEW old \in Seq({"pending", "text"}), NEW x \in {"pending", "text"}
    PROVE  /\ Append(old, x) \in Seq({"pending", "text"})
           /\ Len(Append(old, x)) = Len(old) + 1
           /\ \A i \in DOMAIN old : i \in DOMAIN Append(old, x) /\ Append(old, x)[i] = old[i]
           /\ Append(old, x)[Len(old) + 1] = x
           /\ Len(old) + 1 \in DOMAIN Append(old, x)
    OBVIOUS

\* The prompt loops start idle and without rows.
LEMMA PromptInit == Init => PromptInv
    BY DEF Init, PromptInv, Pcs

\* A step that leaves the prompt loops alone and at most adds a ghost.
LEMMA GhostHarmless ==
    ASSUME PromptInv, UNCHANGED <<prom, promptMsg>>,
           \/ UNCHANGED prompts
           \/ prompts' = Append(prompts, "pending")
    PROVE  PromptInv'
<1>1. CASE UNCHANGED prompts
    BY <1>1 DEF PromptInv, HasText
<1>2. CASE prompts' = Append(prompts, "pending")
    <2>1. prompts' \in Seq({"pending", "text"}) /\ Len(prompts') = Len(prompts) + 1
        BY <1>2, RowsGrow DEF PromptInv
    <2>2. HasText => HasText'
        BY <1>2, RowsGrow DEF PromptInv, HasText
    <2>3. Len(prompts) \in Nat
        BY DEF PromptInv
    <2> QED BY <2>1, <2>2, <2>3 DEF PromptInv
<1> QED BY <1>1, <1>2

\* HandlePrompt: every way to the acknowledgement leads past a row with the text.
LEMMA PromptSteps ==
    ASSUME PromptInv, NEW r \in Replicas, PromptStep(r)
    PROVE  PromptInv'
<1>1. CASE ReceivePrompt(r)
    BY <1>1 DEF ReceivePrompt, PromptInv, HasText, Pcs
<1>2. CASE LookUpGhost(r)
    <2>1. Newest # 0 => Newest \in 1..Len(prompts) /\ Newest \in DOMAIN prompts
        BY DEF PromptInv, Newest
    <2>2. CASE Newest = 0 /\ prom' = [prom EXCEPT ![r].pc = "create"]
        BY <1>2, <2>2 DEF LookUpGhost, PromptInv, HasText, Pcs
    <2>3. CASE /\ Newest # 0
               /\ prom' = [prom EXCEPT ![r].pc = "fill", ![r].row = Newest]
        BY <1>2, <2>1, <2>3 DEF LookUpGhost, PromptInv, HasText, Pcs
    <2>4. CASE /\ Newest # 0 /\ prompts[Newest] # "pending"
               /\ prom' = [prom EXCEPT ![r].pc = "ack"]
        <3>1. HasText
            BY <2>1, <2>4 DEF PromptInv, HasText
        <3> QED BY <1>2, <2>4, <3>1 DEF LookUpGhost, PromptInv, HasText, Pcs
    <2> QED BY <1>2, <2>2, <2>3, <2>4 DEF LookUpGhost
<1>3. CASE StorePrompt(r)
    <2>1. CASE prom[r].pc = "create" /\ prompts' = Append(prompts, "text")
        <3>1. prompts' \in Seq({"pending", "text"}) /\ Len(prompts') = Len(prompts) + 1
            BY <2>1, RowsGrow DEF PromptInv
        <3>2. HasText'
            BY <2>1, RowsGrow DEF PromptInv, HasText
        <3>3. Len(prompts) \in Nat
            BY DEF PromptInv
        <3> QED BY <1>3, <3>1, <3>2, <3>3 DEF StorePrompt, PromptInv, Pcs
    <2>2. CASE prom[r].pc = "fill" /\ prompts' = [prompts EXCEPT ![prom[r].row] = "text"]
        <3>1. prompts' \in Seq({"pending", "text"}) /\ Len(prompts') = Len(prompts)
            BY <2>2 DEF PromptInv
        <3>2. HasText'
            BY <2>2 DEF PromptInv, HasText
        <3> QED BY <1>3, <3>1, <3>2 DEF StorePrompt, PromptInv, Pcs
    <2> QED BY <1>3, <2>1, <2>2 DEF StorePrompt
<1>4. CASE AckPrompt(r)
    BY <1>4 DEF AckPrompt, PromptInv, HasText, Pcs
<1> QED BY <1>1, <1>2, <1>3, <1>4 DEF PromptStep

\* A failure sends the prompt back; it takes no row away.
LEMMA FailureSteps ==
    ASSUME PromptInv, NEW r \in Replicas, LookUpFails(r) \/ PromptFails(r) \/ Crash(r)
    PROVE  PromptInv'
<1>1. CASE PromptFails(r)
    BY <1>1 DEF PromptFails, PromptInv, HasText, Pcs
<1>2. CASE Crash(r)
    BY <1>2 DEF Crash, PromptInv, HasText, Pcs
<1>3. CASE LookUpFails(r)
    BY <1>3, SMTT(30) DEF LookUpFails, PromptInv, HasText, Pcs
<1> QED BY <1>1, <1>2, <1>3

\* The response loops touch the prompts only to add a ghost.
LEMMA ResponseSteps ==
    ASSUME NEW r \in Replicas, ResponseStep(r) \/ ResponseFails(r) \/ LogsFail(r)
    PROVE  /\ UNCHANGED <<prom, promptMsg>>
           /\ UNCHANGED prompts \/ prompts' = Append(prompts, "pending")
    BY DEF ResponseStep, ResponseFails, LogsFail, ReceiveResponse, FindPrompt, CreateGhost,
           QueryResponse, WriteResponse, CreateConflict, CheckLogs, WriteLogs, AckResponse

LEMMA PromptInvStep == PromptInv /\ [Next]_vars => PromptInv'
<1> SUFFICES ASSUME PromptInv, [Next]_vars PROVE PromptInv'
    OBVIOUS
<1>1. CASE UNCHANGED vars
    BY <1>1, GhostHarmless DEF vars
<1>2. ASSUME NEW r \in Replicas, PromptStep(r) PROVE PromptInv'
    BY <1>2, PromptSteps
<1>3. ASSUME NEW r \in Replicas, ResponseStep(r) \/ ResponseFails(r) \/ LogsFail(r)
      PROVE  PromptInv'
    BY <1>3, ResponseSteps, GhostHarmless
<1>4. ASSUME NEW r \in Replicas, LookUpFails(r) \/ PromptFails(r) \/ Crash(r)
      PROVE  PromptInv'
    BY <1>4, FailureSteps
<1> QED BY <1>1, <1>2, <1>3, <1>4 DEF Next

\* Once the prompt message is acknowledged its text is in the database, with any
\* number of replicas, ghosts, redeliveries and crashes.
THEOREM PromptTextStoredAlways == Spec => []PromptTextStored
<1>1. PromptInv => PromptTextStored
    BY DEF PromptInv, PromptTextStored, HasText
<1> QED BY <1>1, PromptInit, PromptInvStep, PTL DEF Spec

-------------------------------------------------------------------------------
(* Types *)

Rows == [prompt : Nat, content : Seq(1..Deltas), erased : SUBSET (1..Deltas)]

RespPcs == {"idle", "find", "ghost", "query", "write", "logs", "log", "blind", "ack"}

Handlers == [pc : RespPcs, msg : Messages, row : Nat, seen : Nat, read : Seq(1..Deltas)]

\* A handler's rows exist.
Fits(w) ==
    /\ w \in Handlers /\ w.seen <= Len(responses)
    /\ w.pc \in {"query", "write"} => w.row \in 1..Len(prompts)

Types ==
    /\ PromptInv
    /\ result \in Assembled
    /\ responses \in Seq(Rows)
    /\ \A i \in 1..Len(responses) : responses[i].prompt \in 1..Len(prompts)
    /\ logs \in Seq({"log", "blind"}) /\ faults \in 0..MaxFaults
    /\ inbox \in Seq(Messages) /\ acked \in Seq(Messages)
    /\ promptMsg \in {"waiting", "held", "acked"}
    /\ resp \in [Replicas -> Handlers]
    /\ \A r \in Replicas : Fits(resp[r]) /\ prom[r].row <= Len(prompts)

LEMMA Constants ==
    /\ Deltas \in Nat /\ MaxFaults \in Nat
    /\ Final \in Nat \ {0} /\ Messages = 0..Final
    /\ \A m \in Messages : m = 0 \/ m = Final \/ m \in 1..Deltas
    /\ Idle \in Handlers /\ Idle.pc = "idle" /\ Idle.seen = 0
<1>1. Deltas \in Nat /\ MaxFaults \in Nat
    BY ResponseStoreAssumption
<1>2. /\ Idle.pc = "idle" /\ Idle.seen = 0
      /\ Idle \in Handlers
    BY <1>1 DEF Idle, Handlers, RespPcs, Messages, Final
<1> QED BY <1>1, <1>2 DEF Final, Messages

\* The final result is a text of pieces.
LEMMA ResultTyped ==
    ASSUME result \in Assembled PROVE result \in Seq(1..Deltas) /\ Len(result) \in Nat
<1>1. PICK n \in 1..Deltas : result \in [1..n -> 1..Deltas]
    BY DEF Assembled, Injection
<1>2. n \in Nat
    BY <1>1, Constants
<1>3. result \in Seq(1..Deltas)
    BY <1>1, <1>2, SeqDef
<1> QED BY <1>3

\* What begins a text still begins it when a piece is appended.
LEMMA PrefixGrows ==
    ASSUME NEW s \in Seq(1..Deltas), NEW t \in Seq(1..Deltas), NEW m \in 1..Deltas,
           IsPrefix(s, t)
    PROVE  IsPrefix(s, Append(t, m))
<1>1. Len(s) <= Len(t) /\ SubSeq(s, 1, Len(s)) = SubSeq(t, 1, Len(s))
    BY DEF IsPrefix
<1>2. Len(Append(t, m)) = Len(t) + 1 /\ Len(s) \in Nat /\ Len(t) \in Nat
    OBVIOUS
<1>3. SubSeq(t, 1, Len(s)) = SubSeq(Append(t, m), 1, Len(s))
    BY <1>1, <1>2
<1> QED BY <1>1, <1>2, <1>3 DEF IsPrefix

\* A handler that goes on.
LEMMA Handling ==
    ASSUME NEW w \in Handlers, NEW pc \in RespPcs
    PROVE  LET x == [w EXCEPT !.pc = pc] IN
           /\ x \in Handlers /\ x.pc = pc /\ x.msg = w.msg
           /\ x.row = w.row /\ x.seen = w.seen /\ x.read = w.read
    BY DEF Handlers

\* What is written is a text of pieces, with the piece the message brings; only a
\* final result leaves one out, and what begins with the result still does.
LEMMA Content ==
    ASSUME NEW m \in Messages, NEW read \in Seq(1..Deltas), result \in Assembled
    PROVE  /\ NewContent(m, read) \in Seq(1..Deltas)
           /\ \A d \in 1..Deltas :
                 m = d \/ (Contains(read, d) /\ (m = Final => Contains(result, d)))
                     => Contains(NewContent(m, read), d)
           /\ m = Final \/ IsPrefix(result, read) => IsPrefix(result, NewContent(m, read))
<1>1. CASE m = 0
    BY <1>1, Constants DEF NewContent
<1>2. CASE m = Final
    <2>1. NewContent(m, read) = result /\ Final \notin 1..Deltas
        BY <1>2, Constants DEF NewContent, Final
    <2>2. IsPrefix(result, result)
        BY ResultTyped DEF IsPrefix
    <2> QED BY <1>2, <2>1, <2>2, ResultTyped
<1>3. CASE m # 0 /\ m # Final
    <2>1. m \in 1..Deltas /\ NewContent(m, read) = Append(read, m)
        BY <1>3, Constants DEF NewContent
    <2>2. PICK n \in Nat : n = Len(read)
        OBVIOUS
    <2>3. /\ Append(read, m) \in Seq(1..Deltas) /\ Len(Append(read, m)) = n + 1
          /\ Append(read, m)[n + 1] = m
          /\ \A i \in 1..n : Append(read, m)[i] = read[i]
        BY <2>1, <2>2
    <2>4. n + 1 \in 1..(n + 1) /\ \A i \in 1..n : i \in 1..(n + 1)
        OBVIOUS
    <2>5. ASSUME NEW d \in 1..Deltas, m = d \/ Contains(read, d)
          PROVE  Contains(Append(read, m), d)
        BY <2>2, <2>3, <2>4, <2>5 DEF Contains
    <2>6. IsPrefix(result, read) => IsPrefix(result, Append(read, m))
        BY <2>1, PrefixGrows, ResultTyped
    <2> QED BY <1>3, <2>1, <2>3, <2>5, <2>6
<1> QED BY <1>1, <1>2, <1>3

\* A handler moves, and the tables have grown.
LEMMA HandlerMoves ==
    ASSUME Types, NEW r \in Replicas, NEW w \in Handlers, resp' = [resp EXCEPT ![r] = w],
           Len(prompts) <= Len(prompts'), Len(responses) <= Len(responses'), Fits(w)',
           Len(prompts') \in Nat, Len(responses') \in Nat
    PROVE  /\ resp' \in [Replicas -> Handlers] /\ resp'[r] = w
           /\ (\A q \in Replicas : Fits(resp[q]))'
<1>1. Len(prompts) \in Nat /\ Len(responses) \in Nat
    BY DEF Types, PromptInv
<1>2. resp' \in [Replicas -> Handlers] /\ resp'[r] = w
    BY DEF Types
<1>3. ASSUME NEW q \in Replicas PROVE Fits(resp[q])'
    <2>1. CASE q = r
        BY <1>2, <2>1
    <2>2. CASE q # r
        <3>1. PICK v \in Handlers : v = resp[q] /\ Fits(v) /\ resp'[q] = v
            BY <1>1, <2>2 DEF Types
        <3>2. Fits(v)'
            BY <1>1, <3>1 DEF Fits, Handlers
        <3> QED BY <3>1, <3>2 DEF Fits
    <2> QED BY <2>1, <2>2
<1> QED BY <1>2, <1>3

LEMMA InitTypes == Init => Types
<1> SUFFICES ASSUME Init PROVE Types
    OBVIOUS
<1>1. PromptInv
    BY PromptInit
<1>2. inbox \in Seq(Messages)
    <2>1. PICK k \in 1..Deltas : inbox = Topic(k)
        BY DEF Init
    <2>2. Final \in Nat /\ Final = Deltas + 1 /\ Deltas \in Nat
        BY Constants DEF Final
    <2>3. ASSUME NEW i \in 1..(Final + 1) PROVE Topic(k)[i] \in Messages
        <3>1. Topic(k)[i] =
                CASE i <= k + 1 -> i - 1 [] i = k + 2 -> Final [] OTHER -> i - 2
            BY DEF Topic
        <3>2. CASE i <= k + 1
            BY <2>2, <3>1, <3>2 DEF Messages
        <3>3. CASE i = k + 2
            BY <2>2, <3>1, <3>3 DEF Messages
        <3>4. CASE i > k + 2
            BY <2>2, <3>1, <3>4 DEF Messages
        <3> QED BY <2>2, <3>2, <3>3, <3>4
    <2>4. Topic(k) \in [1..(Final + 1) -> Messages]
        BY <2>3 DEF Topic
    <2> QED BY <2>1, <2>2, <2>4
<1>3. \A r \in Replicas : Fits(resp[r]) /\ prom[r].row <= Len(prompts)
    BY Constants DEF Init, Fits
<1> QED BY <1>1, <1>2, <1>3, Constants DEF Init, Types

\* The handler of responses, step by step: its record fits the tables as they are then.
LEMMA ResponseTypes ==
    ASSUME Types, NEW r \in Replicas, ResponseStep(r) \/ ResponseFails(r) \/ LogsFail(r) \/ Crash(r)
    PROVE  /\ resp' \in [Replicas -> Handlers] /\ (\A q \in Replicas : Fits(resp[q]))'
           /\ responses' \in Seq(Rows)
           /\ \A i \in 1..Len(responses') : responses'[i].prompt \in 1..Len(prompts')
           /\ logs' \in Seq({"log", "blind"})
           /\ inbox' \in Seq(Messages) /\ acked' \in Seq(Messages)
<1> DEFINE Goal == /\ resp' \in [Replicas -> Handlers] /\ (\A q \in Replicas : Fits(resp[q]))'
                   /\ responses' \in Seq(Rows)
                   /\ \A i \in 1..Len(responses') : responses'[i].prompt \in 1..Len(prompts')
                   /\ logs' \in Seq({"log", "blind"})
                   /\ inbox' \in Seq(Messages) /\ acked' \in Seq(Messages)
<1>1. PICK h \in Handlers : h = resp[r] /\ Fits(h)
    BY DEF Types
<1>2. /\ Len(prompts) \in Nat /\ Len(responses) \in Nat
      /\ h.msg \in Messages /\ h.row \in Nat /\ h.seen \in 0..Len(responses)
      /\ h.read \in Seq(1..Deltas)
    BY <1>1 DEF Types, PromptInv, Handlers, Fits
<1>3. ASSUME NEW w \in Handlers, resp' = [resp EXCEPT ![r] = w],
             UNCHANGED <<prompts, responses>>, Fits(w),
             logs' \in Seq({"log", "blind"}),
             inbox' \in Seq(Messages), acked' \in Seq(Messages)
      PROVE  Goal
    <2>1. Fits(w)'
        BY <1>3 DEF Fits
    <2>2. resp' \in [Replicas -> Handlers] /\ (\A q \in Replicas : Fits(resp[q]))'
        <3>1. /\ Len(prompts) <= Len(prompts') /\ Len(responses) <= Len(responses')
              /\ Len(prompts') \in Nat /\ Len(responses') \in Nat
            BY <1>2, <1>3
        <3> QED BY <1>3, <2>1, <3>1, HandlerMoves
    <2> QED BY <1>3, <2>2 DEF Types
<1>4. ASSUME NEW pc \in RespPcs \ {"query", "write"}, resp' = [resp EXCEPT ![r].pc = pc],
             UNCHANGED <<prompts, responses, inbox, acked>>, logs' \in Seq({"log", "blind"})
      PROVE  Goal
    <2> DEFINE w == [h EXCEPT !.pc = pc]
    <2>1. w \in Handlers /\ w.pc = pc /\ w.seen = h.seen
        BY Handling, <1>2
    <2>2. resp' = [resp EXCEPT ![r] = w]
        BY <1>1, <1>4
    <2> HIDE DEF w
    <2>3. Fits(w)
        BY <1>2, <1>4, <2>1 DEF Fits
    <2> QED BY <1>3, <1>4, <2>1, <2>2, <2>3 DEF Types
<1>5. Fits(Idle)
    BY <1>2, Constants DEF Fits
<1>6. ASSUME resp' = [resp EXCEPT ![r] = Idle], UNCHANGED <<prompts, responses, logs>>,
             inbox' \in Seq(Messages), acked' \in Seq(Messages)
      PROVE  Goal
    BY <1>3, <1>5, <1>6, Constants DEF Types
<1>7. CASE ReceiveResponse(r)
    <2>1. PICK m \in Messages : m = Head(inbox) /\ Tail(inbox) \in Seq(Messages)
        BY <1>7 DEF ReceiveResponse, Types
    <2> DEFINE w == [Idle EXCEPT !.pc = "find", !.msg = m]
    <2>2. w \in Handlers /\ w.pc = "find" /\ w.seen = 0
        BY Constants DEF Idle, Handlers, RespPcs
    <2>3. resp' = [resp EXCEPT ![r] = w]
        BY <1>7, <2>1 DEF ReceiveResponse
    <2> HIDE DEF w
    <2>4. Fits(w)
        BY <1>2, <2>2 DEF Fits
    <2> QED BY <1>3, <1>7, <2>1, <2>2, <2>3, <2>4 DEF ReceiveResponse, Types
<1>8. CASE FindPrompt(r)
    <2>1. PICK pc \in {"ghost", "query"} : pc = IF Newest = 0 THEN "ghost" ELSE "query"
        OBVIOUS
    <2> DEFINE w == [h EXCEPT !.row = Newest, !.pc = pc]
    <2>2. w \in Handlers /\ w.pc = pc /\ w.seen = h.seen /\ w.row = Newest
        <3>1. pc \in RespPcs /\ Newest \in Nat
            BY <1>2 DEF Newest, RespPcs
        <3> QED BY <3>1 DEF Handlers
    <2>3. resp' = [resp EXCEPT ![r] = w]
        BY <1>1, <1>8, <2>1 DEF FindPrompt, Types, Handlers
    <2> HIDE DEF w
    <2>4. Fits(w)
        BY <1>2, <2>1, <2>2 DEF Fits, Newest
    <2> QED BY <1>3, <1>8, <2>2, <2>3, <2>4 DEF FindPrompt, Types
<1>9. CASE CreateGhost(r)
    <2>1. /\ prompts' = Append(prompts, "pending") /\ Len(prompts') = Len(prompts) + 1
          /\ UNCHANGED <<responses, logs, inbox, acked>>
        BY <1>9, RowsGrow DEF CreateGhost, Types, PromptInv
    <2>6. PICK n \in Nat : n = Len(prompts) + 1
        BY <1>2
    <2> DEFINE w == [h EXCEPT !.row = n, !.pc = "query"]
    <2>2. w \in Handlers /\ w.pc = "query" /\ w.seen = h.seen /\ w.row = n
        BY DEF Handlers, RespPcs
    <2>3. resp' = [resp EXCEPT ![r] = w]
        BY <1>1, <1>9, <2>6 DEF CreateGhost, Types, Handlers
    <2> HIDE DEF w
    <2>4. Fits(w)'
        <3>1. Len(prompts') = Len(prompts) + 1 /\ Len(responses') = Len(responses)
            BY <2>1
        <3>2. w.seen <= Len(responses') /\ w.row \in 1..Len(prompts')
            BY <1>2, <2>2, <2>6, <3>1
        <3> QED BY <2>2, <3>2 DEF Fits
    <2>5. \A i \in 1..Len(responses') : responses'[i].prompt \in 1..Len(prompts')
        BY <1>2, <2>1 DEF Types
    <2>7. resp' \in [Replicas -> Handlers] /\ (\A q \in Replicas : Fits(resp[q]))'
        <3>1. /\ Len(prompts) <= Len(prompts') /\ Len(responses) <= Len(responses')
              /\ Len(prompts') \in Nat /\ Len(responses') \in Nat
            BY <1>2, <2>1
        <3> QED BY <2>2, <2>3, <2>4, <3>1, HandlerMoves
    <2> QED BY <2>1, <2>5, <2>7 DEF Types
<1>10. CASE QueryResponse(r)
    <2>1. h.pc = "query" /\ h.row \in 1..Len(prompts)
        BY <1>1, <1>10 DEF QueryResponse, Fits
    <2>2. CASE resp' = [resp EXCEPT ![r].seen = 0, ![r].pc = "write"]
        <3> DEFINE w == [h EXCEPT !.seen = 0, !.pc = "write"]
        <3>1. w \in Handlers /\ w.pc = "write" /\ w.seen = 0 /\ w.row = h.row
            BY DEF Handlers, RespPcs
        <3>2. resp' = [resp EXCEPT ![r] = w]
            BY <1>1, <2>2 DEF Types, Handlers
        <3> HIDE DEF w
        <3>3. Fits(w)
            BY <1>2, <2>1, <3>1 DEF Fits
        <3> QED BY <1>3, <1>10, <3>1, <3>2, <3>3 DEF QueryResponse, Types
    <2>3. ASSUME NEW i \in RowsOf(resp[r].row),
                 resp' = [resp EXCEPT ![r].seen = i, ![r].read = responses[i].content,
                                      ![r].pc = "write"]
          PROVE  Goal
        <3>1. i \in 1..Len(responses) /\ responses[i] \in Rows
            BY DEF RowsOf, Types
        <3>2. PICK c \in Seq(1..Deltas) : c = responses[i].content
            BY <3>1 DEF Rows
        <3> DEFINE w == [h EXCEPT !.seen = i, !.read = c, !.pc = "write"]
        <3>3. w \in Handlers /\ w.pc = "write" /\ w.seen = i /\ w.row = h.row
            <4>1. i \in Nat /\ "write" \in RespPcs
                BY <1>2, <3>1 DEF RespPcs
            <4> QED BY <3>2, <4>1 DEF Handlers
        <3>4. resp' = [resp EXCEPT ![r] = w]
            BY <1>1, <2>3, <3>2 DEF Types, Handlers
        <3> HIDE DEF w
        <3>5. Fits(w)
            BY <1>2, <2>1, <3>1, <3>3 DEF Fits
        <3> QED BY <1>3, <1>10, <3>3, <3>4, <3>5 DEF QueryResponse, Types
    <2> QED BY <1>10, <2>2, <2>3 DEF QueryResponse
<1>11. CASE WriteResponse(r)
    <2>1. PICK c \in Seq(1..Deltas) : c = NewContent(h.msg, h.read)
        BY <1>2, Content DEF Types
    <2>2. PICK pc \in {"logs", "ack"} : pc = IF HasMetadata(h.msg) THEN "logs" ELSE "ack"
        OBVIOUS
    <2> DEFINE w == [h EXCEPT !.pc = pc]
    <2>3. w \in Handlers /\ w.pc = pc /\ w.seen = h.seen
        <3>1. pc \in RespPcs
            BY DEF RespPcs
        <3> QED BY <3>1, Handling
    <2>4. resp' = [resp EXCEPT ![r] = w]
        BY <1>1, <1>11, <2>2 DEF WriteResponse
    <2> HIDE DEF w
    <2>5. h.pc = "write" /\ h.row \in 1..Len(prompts)
        BY <1>1, <1>11 DEF WriteResponse, Fits
    <2>6. /\ responses' \in Seq(Rows) /\ Len(responses) <= Len(responses')
          /\ \A i \in 1..Len(responses') : responses'[i].prompt \in 1..Len(prompts)
        <3>1. CASE responses' = Append(responses,
                                       [prompt |-> h.row, content |-> c, erased |-> {}])
            <4> DEFINE y == [prompt |-> h.row, content |-> c, erased |-> {}]
            <4>1. y \in Rows /\ y.prompt = h.row
                BY <1>2 DEF Rows
            <4>2. responses' = Append(responses, y)
                BY <3>1
            <4> HIDE DEF y
            <4>3. /\ responses \in Seq(Rows)
                  /\ \A i \in 1..Len(responses) : responses[i].prompt \in 1..Len(prompts)
                BY DEF Types
            <4>4. /\ responses' \in Seq(Rows) /\ Len(responses') = Len(responses) + 1
                  /\ \A i \in 1..Len(responses) : responses'[i] = responses[i]
                  /\ responses'[Len(responses) + 1] = y
                BY <4>1, <4>2, <4>3
            <4>5. \A i \in 1..Len(responses') : i \in 1..Len(responses) \/ i = Len(responses) + 1
                BY <1>2, <4>4
            <4>6. ASSUME NEW i \in 1..Len(responses') PROVE responses'[i].prompt \in 1..Len(prompts)
                <5>1. CASE i \in 1..Len(responses)
                    BY <4>3, <4>4, <5>1
                <5>2. CASE i = Len(responses) + 1
                    BY <2>5, <4>1, <4>4, <5>2
                <5> QED BY <4>5, <5>1, <5>2
            <4>7. Len(responses) <= Len(responses')
                BY <1>2, <4>4
            <4> QED BY <4>4, <4>6, <4>7
        <3> DEFINE old == responses[h.seen]
                   x == [prompt |-> old.prompt, content |-> c,
                         erased |-> old.erased \cup Erases(h.msg, old.content)]
        <3>2. CASE h.seen # 0 /\ responses' = [responses EXCEPT ![h.seen] = x]
            <4>1. h.seen \in 1..Len(responses)
                BY <1>2, <3>2
            <4>2. x \in Rows /\ x.prompt = responses[h.seen].prompt
                <5>1. old \in Rows
                    BY <4>1 DEF Types
                <5>2. Erases(h.msg, old.content) \subseteq 1..Deltas
                    BY DEF Erases
                <5> QED BY <5>1, <5>2 DEF Rows
            <4>3. responses' = [responses EXCEPT ![h.seen] = x]
                BY <3>2
            <4> HIDE DEF x
            <4>4. /\ responses' \in Seq(Rows) /\ Len(responses') = Len(responses)
                  /\ \A i \in 1..Len(responses) :
                        responses'[i] = IF i = h.seen THEN x ELSE responses[i]
                BY <4>1, <4>2, <4>3 DEF Types
            <4>5. \A i \in 1..Len(responses) : responses'[i].prompt = responses[i].prompt
                BY <4>2, <4>4
            <4>6. \A i \in 1..Len(responses) : responses[i].prompt \in 1..Len(prompts)
                BY DEF Types
            <4> QED BY <1>2, <4>4, <4>5, <4>6
        <3>3. \/ responses' = Append(responses,
                                     [prompt |-> h.row, content |-> c, erased |-> {}])
              \/ h.seen # 0 /\ responses' = [responses EXCEPT ![h.seen] = x]
            BY <1>1, <1>11, <2>1 DEF WriteResponse
        <3> QED BY <3>1, <3>2, <3>3
    <2>7. UNCHANGED <<prompts, logs, inbox, acked>> /\ Len(responses') \in Nat
        BY <1>11, <2>6 DEF WriteResponse
    <2>8. Fits(w)'
        BY <1>2, <2>2, <2>3, <2>6, <2>7 DEF Fits
    <2>9. resp' \in [Replicas -> Handlers] /\ (\A q \in Replicas : Fits(resp[q]))'
        <3>1. Len(prompts) <= Len(prompts') /\ Len(prompts') \in Nat
            BY <1>2, <2>7
        <3> QED BY <2>3, <2>4, <2>6, <2>7, <2>8, <3>1, HandlerMoves
    <2> QED BY <2>6, <2>7, <2>9 DEF Types
<1>12. CASE CheckLogs(r)
    BY <1>4, <1>12 DEF CheckLogs, RespPcs, Types
<1>13. CASE WriteLogs(r)
    <2>1. logs' \in Seq({"log", "blind"})
        BY <1>13 DEF WriteLogs, Types
    <2> QED BY <1>4, <1>13, <2>1 DEF WriteLogs, RespPcs
<1>14. CASE AckResponse(r)
    <2>1. acked' \in Seq(Messages) /\ inbox' \in Seq(Messages)
        BY <1>1, <1>2, <1>14 DEF AckResponse, Types
    <2> QED BY <1>6, <1>14, <2>1 DEF AckResponse
<1>15. CASE CreateConflict(r) \/ ResponseFails(r)
    <2>1. acked' \in Seq(Messages) /\ inbox' \in Seq(Messages)
        <3>1. inbox' = Append(inbox, h.msg) /\ UNCHANGED acked
            BY <1>1, <1>15 DEF CreateConflict, ResponseFails, NackResponse
        <3> QED BY <1>2, <3>1 DEF Types
    <2> QED BY <1>6, <1>15, <2>1 DEF CreateConflict, ResponseFails, NackResponse
<1>16. CASE LogsFail(r)
    BY <1>4, <1>16 DEF LogsFail, RespPcs, Types
<1>17. CASE Crash(r)
    <2>1. acked' \in Seq(Messages) /\ inbox' \in Seq(Messages)
        BY <1>1, <1>2, <1>17 DEF Crash, Types
    <2> QED BY <1>6, <1>17, <2>1 DEF Crash
<1> QED BY <1>7, <1>8, <1>9, <1>10, <1>11, <1>12, <1>13, <1>14, <1>15, <1>16, <1>17
        DEF ResponseStep

\* The handler of prompts: the row it has found is there.
LEMMA PromptTypes ==
    ASSUME Types, UNCHANGED result,
           NEW r \in Replicas, PromptStep(r) \/ LookUpFails(r) \/ PromptFails(r)
    PROVE  Types'
<1>1. PromptInv'
    BY PromptSteps, FailureSteps DEF Types
<1>2. UNCHANGED <<responses, logs, inbox, acked, resp>>
    BY DEF PromptStep, ReceivePrompt, LookUpGhost, StorePrompt, AckPrompt, LookUpFails,
           PromptFails
<1>3. /\ Len(prompts) \in Nat /\ Len(prompts') \in Nat /\ Len(prompts) <= Len(prompts')
      /\ Len(responses) \in Nat
    <2>1. Len(prompts) \in Nat /\ Len(responses) \in Nat
        BY DEF Types, PromptInv
    <2>2. CASE prompts' = Append(prompts, "text")
        BY <2>1, <2>2, RowsGrow DEF Types, PromptInv
    <2>3. CASE UNCHANGED prompts \/ prompts' = [prompts EXCEPT ![prom[r].row] = "text"]
        BY <2>1, <2>3 DEF Types, PromptInv
    <2> QED BY <2>1, <2>2, <2>3 DEF PromptStep, ReceivePrompt, LookUpGhost, StorePrompt,
               AckPrompt, LookUpFails, PromptFails
<1>4. ASSUME NEW q \in Replicas PROVE prom'[q].row <= Len(prompts')
    <2>1. prom[q].row <= Len(prompts) /\ prom[q].row \in Nat
        BY DEF Types, PromptInv
    <2>2. prom'[q].row \in {prom[q].row, Len(prompts), 0}
        <3>1. prom \in [Replicas -> [pc : Pcs, row : Nat]]
            BY DEF Types, PromptInv
        <3>2. CASE prom' = [prom EXCEPT ![r].pc = "fill", ![r].row = Len(prompts)]
            BY <3>1, <3>2
        <3>3. ASSUME NEW pc, prom' = [prom EXCEPT ![r].pc = pc]
              PROVE  prom'[q].row = prom[q].row
            BY <3>1, <3>3
        <3>4. CASE prom' = [prom EXCEPT ![r] = [pc |-> "idle", row |-> 0]]
            BY <3>1, <3>4
        <3> QED BY <3>2, <3>3, <3>4 DEF PromptStep, ReceivePrompt, LookUpGhost, StorePrompt,
                   AckPrompt, LookUpFails, PromptFails, Newest
    <2> QED BY <1>3, <2>1, <2>2
<1>5. faults' \in 0..MaxFaults /\ promptMsg' \in {"waiting", "held", "acked"}
    BY Constants DEF PromptStep, ReceivePrompt, LookUpGhost, StorePrompt, AckPrompt, LookUpFails,
       PromptFails, Fault, Types
<1>6. ASSUME NEW q \in Replicas PROVE Fits(resp[q])'
    <2>1. PICK w \in Handlers : w = resp[q] /\ Fits(w) /\ w = resp'[q]
        BY <1>2 DEF Types
    <2>2. Fits(w)'
        BY <1>2, <1>3, <2>1 DEF Fits, Handlers
    <2> QED BY <2>1, <2>2 DEF Fits
<1>7. \A i \in 1..Len(responses') : responses'[i].prompt \in 1..Len(prompts')
    BY <1>2, <1>3 DEF Types
<1>8. result' \in Assembled'
    BY DEF Types, Assembled
<1> QED BY <1>1, <1>2, <1>4, <1>5, <1>6, <1>7, <1>8 DEF Types

\* What the aggregator has assembled stays the same.
LEMMA ResultFixed == [Next]_vars => result' = result
    BY DEF Next, vars

LEMMA TypesStep == Types /\ [Next]_vars => Types'
<1> SUFFICES ASSUME Types, [Next]_vars PROVE Types'
    OBVIOUS
<1>1. CASE UNCHANGED vars
    BY <1>1, PromptInvStep DEF vars, Types, Fits
<1>2. ASSUME NEW r \in Replicas, PromptStep(r) \/ LookUpFails(r) \/ PromptFails(r)
      PROVE  Types'
    BY <1>2, ResultFixed, PromptTypes
<1>3. ASSUME NEW r \in Replicas,
             ResponseStep(r) \/ ResponseFails(r) \/ LogsFail(r) \/ Crash(r)
      PROVE  Types'
    <2>1. PromptInv'
        BY PromptInvStep DEF Types
    <2>2. faults' \in 0..MaxFaults
        <3>1. UNCHANGED faults \/ Fault
            BY <1>3 DEF ResponseStep, ResponseFails, LogsFail, Crash, ReceiveResponse, FindPrompt,
               CreateGhost, QueryResponse, WriteResponse, CreateConflict, CheckLogs, WriteLogs,
               AckResponse
        <3> QED BY <3>1, Constants, SMTT(30) DEF Fault, Types
    <2>3. promptMsg' \in {"waiting", "held", "acked"}
        BY <1>3, ResponseSteps DEF Crash, Types
    <2>4. ASSUME NEW q \in Replicas PROVE prom'[q].row <= Len(prompts')
        <3>1. prom[q].row <= Len(prompts) /\ prom[q].row \in Nat /\ Len(prompts) \in Nat
            BY DEF Types, PromptInv
        <3>2. Len(prompts') = Len(prompts) \/ Len(prompts') = Len(prompts) + 1
            BY <1>3, ResponseSteps, RowsGrow DEF Crash, Types, PromptInv
        <3>3. prom'[q].row \in {prom[q].row, 0}
            <4>1. CASE UNCHANGED prom
                BY <4>1
            <4>2. CASE prom' = [prom EXCEPT ![r] = [pc |-> "idle", row |-> 0]]
                BY <4>2 DEF Types, PromptInv
            <4> QED BY <1>3, <4>1, <4>2, ResponseSteps DEF Crash
        <3> QED BY <3>1, <3>2, <3>3
    <2>5. /\ resp' \in [Replicas -> Handlers] /\ (\A q \in Replicas : Fits(resp[q]))'
          /\ responses' \in Seq(Rows)
          /\ \A i \in 1..Len(responses') : responses'[i].prompt \in 1..Len(prompts')
          /\ logs' \in Seq({"log", "blind"})
          /\ inbox' \in Seq(Messages) /\ acked' \in Seq(Messages)
        BY <1>3, ResponseTypes
    <2>6. result' \in Assembled'
        BY ResultFixed DEF Types, Assembled
    <2> QED BY <2>1, <2>2, <2>3, <2>4, <2>5, <2>6 DEF Types
<1> QED BY <1>1, <1>2, <1>3 DEF Next

LEMMA TypesAlways == Spec => []Types
    BY InitTypes, TypesStep, PTL DEF Spec

\* The rows and records every handler holds on to exist: a row that was looked up is
\* there when it is written, whatever the replicas do meanwhile.
THEOREM TypesKept == Spec => []TypeOK
<1>1. ASSUME Types PROVE TypeOK
    <2>1. \A i \in DOMAIN prompts : prompts[i] \in {"pending", "text"}
        BY <1>1 DEF Types, PromptInv
    <2>2. \A i \in DOMAIN responses : /\ responses[i].prompt \in DOMAIN prompts
                                      /\ responses[i].content \in Seq(1..Deltas)
                                      /\ responses[i].erased \subseteq 1..Deltas
        <3>1. DOMAIN responses = 1..Len(responses) /\ DOMAIN prompts = 1..Len(prompts)
            BY <1>1 DEF Types, PromptInv
        <3>2. \A i \in 1..Len(responses) : responses[i] \in Rows
            BY <1>1 DEF Types
        <3> QED BY <1>1, <3>1, <3>2 DEF Types, Rows
    <2>3. ASSUME NEW r \in Replicas
          PROVE  /\ resp[r].pc \in {"idle", "find", "ghost", "query", "write", "logs", "log",
                                    "blind", "ack"}
                 /\ resp[r].msg \in Messages
                 /\ resp[r].pc \in {"query", "write"} => resp[r].row \in DOMAIN prompts
                 /\ resp[r].seen \in 0..Len(responses)
        <3>1. resp[r] \in Handlers /\ Fits(resp[r])
            BY <1>1 DEF Types
        <3>2. Len(responses) \in Nat /\ DOMAIN prompts = 1..Len(prompts)
            BY <1>1 DEF Types, PromptInv
        <3> QED BY <3>1, <3>2 DEF Fits, Handlers, RespPcs
    <2>4. ASSUME NEW r \in Replicas
          PROVE  prom[r].pc \in Pcs /\ prom[r].row \in 0..Len(prompts)
        <3>1. prom[r] \in [pc : Pcs, row : Nat] /\ prom[r].row <= Len(prompts)
            BY <1>1 DEF Types, PromptInv
        <3>2. Len(prompts) \in Nat
            BY <1>1 DEF Types, PromptInv
        <3> QED BY <3>1, <3>2
    <2> QED BY <1>1, <2>1, <2>2, <2>3, <2>4 DEF Types, TypeOK, Pcs
<1> QED BY <1>1, TypesAlways, PTL

-------------------------------------------------------------------------------
(* One replica *)

OneReplica == \A q, r \in Replicas : q = r

\* What each step of the response handler makes of its record.
LEMMA Outcomes ==
    ASSUME Types, NEW r \in Replicas, NEW h, h = resp[r], NEW x, x = resp'[r]
    PROVE  /\ ReceiveResponse(r) => x.pc = "find" /\ x.msg = Head(inbox)
           /\ FindPrompt(r) => x.pc \in {"ghost", "query"} /\ x.msg = h.msg
           /\ CreateGhost(r) => x.pc = "query" /\ x.msg = h.msg
           /\ QueryResponse(r) =>
                /\ h.pc = "query" /\ x.pc = "write" /\ x.msg = h.msg /\ x.row = h.row
                /\ \/ x.seen = 0 /\ RowsOf(h.row) = {}
                   \/ x.seen \in RowsOf(h.row) /\ x.read = responses[x.seen].content
           /\ WriteResponse(r) =>
                x.msg = h.msg /\ x.pc = IF HasMetadata(h.msg) THEN "logs" ELSE "ack"
           /\ CheckLogs(r) =>
                h.pc = "logs" /\ x.msg = h.msg /\ x.pc = IF logs = <<>> THEN "log" ELSE "ack"
           /\ WriteLogs(r) => h.pc \in {"log", "blind"} /\ x.msg = h.msg /\ x.pc = "ack"
           /\ LogsFail(r) =>
                /\ h.pc \in {"logs", "log", "blind"} /\ x.msg = h.msg
                /\ x.pc \in {"blind", "ack"}
           /\ AckResponse(r) \/ CreateConflict(r) \/ ResponseFails(r) \/ Crash(r) => x = Idle
<1>1. resp \in [Replicas -> Handlers] /\ h \in Handlers
    BY DEF Types
<1>2. ASSUME NEW pc \in RespPcs, resp' = [resp EXCEPT ![r].pc = pc]
      PROVE  x.pc = pc /\ x.msg = h.msg
    BY <1>1, <1>2, Handling
<1>3. ReceiveResponse(r) => x.pc = "find" /\ x.msg = Head(inbox)
    BY <1>1 DEF ReceiveResponse, Idle
<1>4. FindPrompt(r) => x.pc \in {"ghost", "query"} /\ x.msg = h.msg
    BY <1>1 DEF FindPrompt, Handlers
<1>5. CreateGhost(r) => x.pc = "query" /\ x.msg = h.msg
    BY <1>1, SMTT(30) DEF CreateGhost, Handlers
<1>6. ASSUME QueryResponse(r)
      PROVE  /\ h.pc = "query" /\ x.pc = "write" /\ x.msg = h.msg /\ x.row = h.row
             /\ \/ x.seen = 0 /\ RowsOf(h.row) = {}
                \/ x.seen \in RowsOf(h.row) /\ x.read = responses[x.seen].content
    <2>1. CASE /\ RowsOf(h.row) = {}
               /\ resp' = [resp EXCEPT ![r].seen = 0, ![r].pc = "write"]
        BY <1>1, <1>6, <2>1 DEF QueryResponse, Handlers
    <2>2. ASSUME NEW i \in RowsOf(h.row),
                 resp' = [resp EXCEPT ![r].seen = i, ![r].read = responses[i].content,
                                      ![r].pc = "write"]
          PROVE  /\ x.pc = "write" /\ x.msg = h.msg /\ x.row = h.row
                 /\ x.seen = i /\ x.read = responses[i].content
        <3>1. PICK c : c = responses[i].content
            OBVIOUS
        <3>2. resp' = [resp EXCEPT ![r].seen = i, ![r].read = c, ![r].pc = "write"]
            BY <2>2, <3>1
        <3>3. x.seen = i /\ x.read = c /\ x.pc = "write" /\ x.msg = h.msg /\ x.row = h.row
            BY <1>1, <3>2, SMTT(30) DEF Handlers
        <3> QED BY <3>1, <3>3
    <2>3. h.pc = "query"
        BY <1>6 DEF QueryResponse
    <2> QED BY <1>6, <2>1, <2>2, <2>3 DEF QueryResponse
<1>7. WriteResponse(r) => x.msg = h.msg /\ x.pc = IF HasMetadata(h.msg) THEN "logs" ELSE "ack"
    BY <1>2 DEF WriteResponse, RespPcs
<1>8. CheckLogs(r) =>
        h.pc = "logs" /\ x.msg = h.msg /\ x.pc = IF logs = <<>> THEN "log" ELSE "ack"
    BY <1>2 DEF CheckLogs, RespPcs
<1>9. WriteLogs(r) => h.pc \in {"log", "blind"} /\ x.msg = h.msg /\ x.pc = "ack"
    BY <1>2 DEF WriteLogs, RespPcs
<1>10. LogsFail(r) =>
         h.pc \in {"logs", "log", "blind"} /\ x.msg = h.msg /\ x.pc \in {"blind", "ack"}
    BY <1>2 DEF LogsFail, RespPcs
<1>11. AckResponse(r) \/ CreateConflict(r) \/ ResponseFails(r) \/ Crash(r) => x = Idle
    BY <1>1 DEF AckResponse, CreateConflict, ResponseFails, NackResponse, Crash
<1> QED BY <1>3, <1>4, <1>5, <1>6, <1>7, <1>8, <1>9, <1>10, <1>11

\* A write after a check finds no logs.
Checked == LogsOnceChecked /\ \A r \in Replicas : resp[r].pc = "log" => logs = <<>>

LEMMA CheckedStep ==
    ASSUME OneReplica, Types, Checked, [Next]_vars PROVE Checked'
<1>1. ASSUME UNCHANGED logs, \A r \in Replicas : resp'[r].pc = "log" => resp[r].pc = "log" \/ logs = <<>>
      PROVE  Checked'
    BY <1>1 DEF Checked, LogsOnceChecked
<1>2. ASSUME NEW r \in Replicas, WriteLogs(r) PROVE Checked'
    <2>1. logs' = Append(logs, resp[r].pc) /\ resp'[r].pc = "ack" /\ logs \in Seq({"log", "blind"})
        BY <1>2, Outcomes DEF WriteLogs, Types
    <2>2. \A q \in Replicas : resp'[q].pc # "log"
        BY <2>1 DEF OneReplica
    <2>3. resp[r].pc \in {"log", "blind"} /\ (resp[r].pc = "log" => logs = <<>>)
        BY <1>2 DEF WriteLogs, Checked
    <2>4. LogsOnceChecked'
        <3>1. CASE logs = <<>>
            BY <2>1, <2>3, <3>1 DEF LogsOnceChecked
        <3>2. CASE resp[r].pc = "blind"
            BY <2>1, <3>2 DEF Checked, LogsOnceChecked
        <3> QED BY <2>3, <3>1, <3>2
    <2> QED BY <2>2, <2>4 DEF Checked
<1>3. ASSUME NEW r \in Replicas,
             ResponseStep(r) \/ ResponseFails(r) \/ LogsFail(r) \/ Crash(r), ~WriteLogs(r)
      PROVE  Checked'
    <2>1. UNCHANGED logs
        BY <1>3 DEF ResponseStep, ResponseFails, LogsFail, Crash, ReceiveResponse, FindPrompt,
           CreateGhost, QueryResponse, WriteResponse, CreateConflict, CheckLogs, AckResponse
    <2>2. resp'[r].pc = "log" => logs = <<>>
        BY <1>3, Outcomes, Constants DEF ResponseStep
    <2> QED BY <1>1, <2>1, <2>2, SMTT(30) DEF OneReplica
<1>4. ASSUME NEW r \in Replicas, PromptStep(r) \/ LookUpFails(r) \/ PromptFails(r)
      PROVE  UNCHANGED <<resp, logs>>
    BY <1>4 DEF PromptStep, ReceivePrompt, LookUpGhost, StorePrompt, AckPrompt, LookUpFails,
       PromptFails
<1>5. CASE UNCHANGED vars
    BY <1>1, <1>5 DEF vars
<1> QED BY <1>1, <1>2, <1>3, <1>4, <1>5 DEF Next, ResponseStep

\* With one replica the retrieval logs are written a second time only when the check
\* for them has failed: redeliveries and crashes between write and ack do not do it.
THEOREM LogsOnceCheckedAlways == ASSUME OneReplica PROVE Spec => []LogsOnceChecked
<1>1. Init => Checked
    BY DEF Init, Checked, LogsOnceChecked, Idle
<1>2. Checked => LogsOnceChecked
    BY DEF Checked
<1> QED BY <1>1, <1>2, CheckedStep, TypesAlways, PTL DEF Spec

-------------------------------------------------------------------------------
(* What one replica has stored *)

\* The commit: a new record, or a new content for the one that was read.
LEMMA Writes ==
    ASSUME Types, NEW r \in Replicas, WriteResponse(r), NEW h, h = resp[r],
           NEW c, c = NewContent(h.msg, h.read), NEW n, n = Len(responses)
    PROVE  /\ n \in Nat /\ h \in Handlers /\ h.pc = "write"
           /\ h.seen = 0 =>
                /\ Len(responses') = n + 1 /\ \A i \in 1..n : responses'[i] = responses[i]
                /\ responses'[n + 1].prompt = h.row /\ responses'[n + 1].content = c
           /\ h.seen # 0 =>
                /\ h.seen \in 1..n /\ Len(responses') = n
                /\ \A i \in 1..n : i = h.seen \/ responses'[i] = responses[i]
                /\ responses'[h.seen].prompt = responses[h.seen].prompt
                /\ responses'[h.seen].content = c
                /\ responses'[h.seen].erased = responses[h.seen].erased
                        \cup Erases(h.msg, responses[h.seen].content)
<1>1. /\ n \in Nat /\ h \in Handlers /\ h.pc = "write" /\ h.seen \in 0..n
      /\ responses \in Seq(Rows)
    BY DEF Types, Fits, Handlers, WriteResponse
<1>2. c \in Seq(1..Deltas) /\ h.row \in Nat
    BY <1>1, Content DEF Handlers, Types
<1>3. CASE h.seen = 0
    <2> DEFINE x == [prompt |-> h.row, content |-> c, erased |-> {}]
    <2>1. x \in Rows /\ x.prompt = h.row /\ x.content = c
        BY <1>2 DEF Rows
    <2>2. responses' = Append(responses, x)
        BY <1>3 DEF WriteResponse
    <2> HIDE DEF x
    <2> QED BY <1>1, <1>3, <2>1, <2>2
<1>4. CASE h.seen # 0
    <2>1. h.seen \in 1..n /\ responses[h.seen] \in Rows
        BY <1>1, <1>4
    <2>2. PICK e \in SUBSET (1..Deltas) : e = Erases(h.msg, responses[h.seen].content)
        BY DEF Erases
    <2> DEFINE x == [prompt |-> responses[h.seen].prompt, content |-> c,
                     erased |-> responses[h.seen].erased \cup e]
    <2>3. /\ x \in Rows /\ x.prompt = responses[h.seen].prompt /\ x.content = c
          /\ x.erased = responses[h.seen].erased \cup e
        BY <1>2, <2>1 DEF Rows
    <2>4. responses' = [responses EXCEPT ![h.seen] = x]
        BY <1>4, <2>2 DEF WriteResponse
    <2> HIDE DEF x
    <2> QED BY <1>1, <1>4, <2>1, <2>2, <2>3, <2>4
<1> QED BY <1>1, <1>3, <1>4

\* A delta is in a record, or the final result has taken it from one.
Stored(d) == \E i \in 1..Len(responses) :
    Contains(responses[i].content, d) \/ d \in responses[i].erased

\* Between the query and the commit nobody else writes.
ReadFresh ==
    \A r \in Replicas : resp[r].pc = "write" =>
        /\ resp[r].seen = 0 => RowsOf(resp[r].row) = {}
        /\ resp[r].seen # 0 =>
              /\ resp[r].seen \in RowsOf(resp[r].row)
              /\ resp[r].read = responses[resp[r].seen].content

\* So every prompt row has one response record,
OneEach ==
    \A i, j \in 1..Len(responses) : responses[i].prompt = responses[j].prompt => i = j

\* a delta that was written or acknowledged is in a record, and only messages with
\* metadata go through the logs.
Kept ==
    /\ \A d \in 1..Deltas : d \in Acked => Stored(d)
    /\ \A r \in Replicas : \A d \in 1..Deltas : resp[r].pc = "ack" /\ resp[r].msg = d => Stored(d)
    /\ \A r \in Replicas : resp[r].pc \in {"logs", "log", "blind"} => HasMetadata(resp[r].msg)

\* What a record's text begins with is not taken from it any more.
Begun == \E i \in 1..Len(responses) : IsPrefix(result, responses[i].content)

FinalStored ==
    Final \in Acked \/ (\E r \in Replicas : resp[r].msg = Final
                                            /\ resp[r].pc \in {"logs", "log", "blind", "ack"})
        => Begun

StoreInv == ReadFresh /\ OneEach /\ Kept /\ FinalStored

\* A commit keeps every piece that was stored but those a final result leaves out,
\* which it notes; it adds its own, and what begins with the result still does.
LEMMA WritesKeep ==
    ASSUME Types, ReadFresh, NEW r \in Replicas, WriteResponse(r), UNCHANGED result
    PROVE  /\ \A d \in 1..Deltas : Stored(d) \/ resp[r].msg = d => Stored(d)'
           /\ Begun \/ resp[r].msg = Final => Begun'
<1>a. PICK h : h = resp[r]
    OBVIOUS
<1>b. PICK c : c = NewContent(h.msg, h.read)
    OBVIOUS
<1>c. PICK n : n = Len(responses)
    OBVIOUS
<1> DEFINE k == IF h.seen = 0 THEN n + 1 ELSE h.seen
<1>1. /\ n \in Nat /\ h \in Handlers /\ h.pc = "write"
      /\ h.seen # 0 => h.seen \in 1..n /\ Len(responses') = n /\ responses'[h.seen].content = c
    BY <1>a, <1>b, <1>c, Writes
<1>2. h.seen = 0 =>
        /\ Len(responses') = n + 1 /\ \A i \in 1..n : responses'[i] = responses[i]
        /\ responses'[n + 1].prompt = h.row /\ responses'[n + 1].content = c
    BY <1>a, <1>b, <1>c, Writes
<1>3. h.seen # 0 =>
        /\ \A i \in 1..n : i = h.seen \/ responses'[i] = responses[i]
        /\ responses'[h.seen].erased =
              responses[h.seen].erased \cup Erases(h.msg, responses[h.seen].content)
    <2>1. h.seen # 0 => \A i \in 1..n : i = h.seen \/ responses'[i] = responses[i]
        BY <1>a, <1>b, <1>c, Writes, SMTT(60)
    <2>2. h.seen # 0 => responses'[h.seen].erased =
              responses[h.seen].erased \cup Erases(h.msg, responses[h.seen].content)
        BY <1>a, <1>b, <1>c, Writes, SMTT(60)
    <2> QED BY <2>1, <2>2
<1>4. h.seen # 0 => h.read = responses[h.seen].content
    BY <1>1, <1>a DEF ReadFresh
<1>5. h.seen # 0 => responses'[h.seen].erased =
                        responses[h.seen].erased \cup Erases(h.msg, h.read)
    BY <1>3, <1>4
<1>6. h.msg \in Messages /\ h.read \in Seq(1..Deltas)
    BY <1>1 DEF Handlers
<1>7. /\ \A d \in 1..Deltas :
            h.msg = d \/ (Contains(h.read, d) /\ (h.msg = Final => Contains(result, d)))
                => Contains(c, d)
      /\ h.msg = Final \/ IsPrefix(result, h.read) => IsPrefix(result, c)
    BY <1>6, <1>b, Content DEF Types
<1>8. k \in 1..Len(responses') /\ responses'[k].content = c
    BY <1>1, <1>2
<1>9. \A i \in 1..n :
        \/ h.seen # 0 /\ i = k /\ i = h.seen
        \/ responses'[i] = responses[i] /\ i \in 1..Len(responses')
    BY <1>1, <1>2, <1>3
<1> HIDE DEF k
<1>10. ASSUME NEW d \in 1..Deltas, Stored(d) \/ h.msg = d PROVE Stored(d)'
    <2>1. CASE h.msg = d
        BY <1>7, <1>8, <2>1 DEF Stored
    <2>2. CASE Stored(d)
        <3>1. PICK i \in 1..n : Contains(responses[i].content, d) \/ d \in responses[i].erased
            BY <2>2, <1>c DEF Stored
        <3>2. CASE h.seen # 0 /\ i = k /\ i = h.seen
            <4>1. Contains(h.read, d) \/ d \in responses[h.seen].erased
                BY <1>4, <3>1, <3>2
            <4>2. Contains(c, d) \/ d \in responses'[h.seen].erased
                BY <1>5, <1>7, <3>2, <4>1 DEF Erases
            <4> QED BY <1>8, <3>2, <4>2 DEF Stored
        <3>3. CASE responses'[i] = responses[i] /\ i \in 1..Len(responses')
            BY <3>1, <3>3 DEF Stored
        <3> QED BY <1>9, <3>2, <3>3
    <2> QED BY <1>10, <2>1, <2>2
<1>11. ASSUME Begun \/ h.msg = Final PROVE Begun'
    <2>1. CASE h.msg = Final
        BY <1>7, <1>8, <2>1 DEF Begun
    <2>2. CASE Begun
        <3>1. PICK i \in 1..n : IsPrefix(result, responses[i].content)
            BY <2>2, <1>c DEF Begun
        <3>2. CASE h.seen # 0 /\ i = k /\ i = h.seen
            BY <1>4, <1>7, <1>8, <3>1, <3>2 DEF Begun
        <3>3. CASE responses'[i] = responses[i] /\ i \in 1..Len(responses')
            BY <3>1, <3>3 DEF Begun
        <3> QED BY <1>9, <3>2, <3>3
    <2> QED BY <1>11, <2>1, <2>2
<1> QED BY <1>10, <1>11, <1>a

\* It leaves one record for each prompt row.
LEMMA WritesOne ==
    ASSUME Types, ReadFresh, OneEach, NEW r \in Replicas, WriteResponse(r)
    PROVE  OneEach'
<1>a. PICK h : h = resp[r]
    OBVIOUS
<1>b. PICK n : n = Len(responses)
    OBVIOUS
<1>1. /\ n \in Nat
      /\ h.seen = 0 =>
           /\ Len(responses') = n + 1 /\ \A i \in 1..n : responses'[i].prompt = responses[i].prompt
           /\ responses'[n + 1].prompt = h.row
      /\ h.seen # 0 =>
           /\ Len(responses') = n
           /\ \A i \in 1..n : responses'[i].prompt = responses[i].prompt
    <2>1. PICK c : c = NewContent(h.msg, h.read)
        OBVIOUS
    <2>2. /\ n \in Nat
          /\ h.seen = 0 =>
               /\ Len(responses') = n + 1 /\ \A i \in 1..n : responses'[i] = responses[i]
               /\ responses'[n + 1].prompt = h.row
        BY <1>a, <1>b, <2>1, Writes
    <2>3. h.seen # 0 => Len(responses') = n /\ responses'[h.seen].prompt = responses[h.seen].prompt
        BY <1>a, <1>b, <2>1, Writes
    <2>4. h.seen # 0 => \A i \in 1..n : i = h.seen \/ responses'[i] = responses[i]
        BY <1>a, <1>b, <2>1, Writes, SMTT(60)
    <2> QED BY <2>2, <2>3, <2>4
<1>2. h.seen = 0 => \A i \in 1..n : responses[i].prompt # h.row
    <2>1. DOMAIN responses = 1..n
        BY <1>b DEF Types
    <2> QED BY <1>a, <2>1 DEF ReadFresh, RowsOf, WriteResponse
<1>3. \A i, j \in 1..n : responses[i].prompt = responses[j].prompt => i = j
    BY <1>b DEF OneEach
<1>4. \A i \in 1..(n + 1) : i \in 1..n \/ i = n + 1
    BY <1>1
<1> QED BY <1>1, <1>2, <1>3, <1>4 DEF OneEach

\* The records change with a commit only.
LEMMA OnlyWrites ==
    ASSUME [Next]_vars
    PROVE  \/ UNCHANGED <<resp, responses, inbox, acked>>
           \/ \E r \in Replicas : WriteResponse(r)
           \/ /\ UNCHANGED responses
              /\ \E r \in Replicas :
                    (ResponseStep(r) \/ ResponseFails(r) \/ LogsFail(r) \/ Crash(r)) /\ ~WriteResponse(r)
<1>1. CASE UNCHANGED vars
    BY <1>1 DEF vars
<1>2. ASSUME NEW r \in Replicas, PromptStep(r) \/ LookUpFails(r) \/ PromptFails(r)
      PROVE  UNCHANGED <<resp, responses, inbox, acked>>
    BY <1>2, SMTT(30) DEF PromptStep, ReceivePrompt, LookUpGhost, StorePrompt, AckPrompt, LookUpFails,
       PromptFails
<1>3. ASSUME NEW r \in Replicas,
             ResponseStep(r) \/ ResponseFails(r) \/ LogsFail(r) \/ Crash(r), ~WriteResponse(r)
      PROVE  UNCHANGED responses
    BY <1>3 DEF ResponseStep, ReceiveResponse, FindPrompt, CreateGhost, QueryResponse,
       CreateConflict, CheckLogs, WriteLogs, AckResponse, ResponseFails, LogsFail, Crash
<1> QED BY <1>1, <1>2, <1>3 DEF Next

LEMMA ReadFreshStep ==
    ASSUME OneReplica, Types, ReadFresh, [Next]_vars PROVE ReadFresh'
<1>1. ASSUME UNCHANGED <<resp, responses>> PROVE ReadFresh'
    BY <1>1 DEF ReadFresh, RowsOf
<1>2. ASSUME NEW r \in Replicas, resp'[r].pc # "write" PROVE ReadFresh'
    BY <1>2 DEF OneReplica, ReadFresh
<1>3. ASSUME NEW r \in Replicas, WriteResponse(r) PROVE ReadFresh'
    <2>1. resp'[r].pc # "write"
        BY <1>3, Outcomes
    <2> QED BY <1>2, <2>1
<1>4. ASSUME NEW r \in Replicas, UNCHANGED responses, ~WriteResponse(r),
             ResponseStep(r) \/ ResponseFails(r) \/ LogsFail(r) \/ Crash(r)
      PROVE  ReadFresh'
    <2>1. CASE QueryResponse(r)
        <3>1. PICK h, x : h = resp[r] /\ x = resp'[r]
            OBVIOUS
        <3>2. /\ x.row = h.row
              /\ \/ x.seen = 0 /\ RowsOf(h.row) = {}
                 \/ x.seen \in RowsOf(h.row) /\ x.read = responses[x.seen].content
            BY <2>1, <3>1, Outcomes
        <3>3. \A p : RowsOf(p)' = RowsOf(p)
            BY <1>4 DEF RowsOf
        <3>4. 0 \notin RowsOf(h.row)
            BY DEF RowsOf, Types
        <3>5. /\ x.seen = 0 => RowsOf(x.row)' = {}
              /\ x.seen # 0 => x.seen \in RowsOf(x.row)' /\ x.read = responses'[x.seen].content
            BY <1>4, <3>2, <3>3, <3>4
        <3> QED BY <3>1, <3>5 DEF OneReplica, ReadFresh
    <2>2. CASE ~QueryResponse(r)
        <3>1. resp'[r].pc # "write"
            BY <1>4, <2>2, Outcomes, Constants DEF ResponseStep
        <3> QED BY <1>2, <3>1
    <2> QED BY <2>1, <2>2
<1> QED BY <1>1, <1>3, <1>4, OnlyWrites

LEMMA OneEachStep ==
    ASSUME Types, ReadFresh, OneEach, [Next]_vars PROVE OneEach'
<1>1. UNCHANGED responses => OneEach'
    BY DEF OneEach
<1> QED BY <1>1, OnlyWrites, WritesOne

\* An acknowledgement appends what the handler held.
LEMMA Acknowledges ==
    ASSUME Types, NEW r \in Replicas, AckResponse(r)
    PROVE  resp[r].pc = "ack" /\ Acked' = Acked \cup {resp[r].msg}
<1>1. /\ resp[r].pc = "ack" /\ acked' = Append(acked, resp[r].msg)
      /\ acked \in Seq(Messages) /\ resp[r].msg \in Messages
    BY DEF AckResponse, Types, Handlers
<1>2. PICK n \in Nat : n = Len(acked)
    BY <1>1
<1>3. /\ DOMAIN acked = 1..n /\ DOMAIN acked' = 1..(n + 1)
      /\ \A i \in 1..n : acked'[i] = acked[i]
      /\ acked'[n + 1] = resp[r].msg
    BY <1>1, <1>2
<1>4. \A i \in 1..(n + 1) : i \in 1..n \/ i = n + 1
    OBVIOUS
<1>5. n + 1 \in 1..(n + 1) /\ \A i \in 1..n : i \in 1..(n + 1)
    BY SMTT(30)
<1> QED BY <1>1, <1>3, <1>4, <1>5 DEF Acked

\* The other steps of the handler acknowledge nothing.
LEMMA OthersAckNothing ==
    ASSUME NEW r \in Replicas, ResponseStep(r) \/ ResponseFails(r) \/ LogsFail(r) \/ Crash(r),
           ~AckResponse(r)
    PROVE  UNCHANGED acked
    BY DEF ResponseStep, ReceiveResponse, FindPrompt, CreateGhost, QueryResponse, WriteResponse,
       CreateConflict, CheckLogs, WriteLogs, ResponseFails, NackResponse, LogsFail, Crash

LEMMA KeptStep ==
    ASSUME OneReplica, Types, ReadFresh, Kept, [Next]_vars PROVE Kept'
<1>1. ASSUME UNCHANGED <<resp, responses, acked>> PROVE Kept'
    BY <1>1 DEF Kept, Stored, Acked
<1>2. \A d \in 1..Deltas : ~HasMetadata(d)
    BY Constants DEF HasMetadata, Final
<1>3. ASSUME NEW r \in Replicas, WriteResponse(r) PROVE Kept'
    <2>1. PICK h, x : h = resp[r] /\ x = resp'[r]
        OBVIOUS
    <2>2. x.msg = h.msg /\ x.pc = IF HasMetadata(h.msg) THEN "logs" ELSE "ack"
        BY <1>3, <2>1, Outcomes
    <2>3. \A d \in 1..Deltas : Stored(d) \/ h.msg = d => Stored(d)'
        BY <1>3, <2>1, WritesKeep, ResultFixed
    <2>4. Acked' = Acked
        BY <1>3 DEF WriteResponse, Acked
    <2>5. /\ \A d \in 1..Deltas : x.pc = "ack" /\ x.msg = d => Stored(d)'
          /\ x.pc \in {"logs", "log", "blind"} => HasMetadata(x.msg)
        BY <2>2, <2>3
    <2>6. \A d \in 1..Deltas : d \in Acked' => Stored(d)'
        BY <2>3, <2>4 DEF Kept
    <2> QED BY <2>1, <2>5, <2>6 DEF OneReplica, Kept
<1>4. ASSUME NEW r \in Replicas, UNCHANGED responses, ~WriteResponse(r),
             ResponseStep(r) \/ ResponseFails(r) \/ LogsFail(r) \/ Crash(r)
      PROVE  Kept'
    <2>1. PICK h, x : h = resp[r] /\ x = resp'[r]
        OBVIOUS
    <2>2. \A d : Stored(d)' = Stored(d)
        BY <1>4 DEF Stored
    <2>3. \A d \in 1..Deltas : d \in Acked' => Stored(d)
        <3>1. CASE AckResponse(r)
            BY <3>1, Acknowledges DEF Kept
        <3>2. CASE ~AckResponse(r)
            BY <1>4, <3>2, OthersAckNothing DEF Kept, Acked
        <3> QED BY <3>1, <3>2
    <2>4. /\ x.pc \in {"logs", "log", "blind"} => HasMetadata(x.msg)
          /\ x.pc = "ack" => HasMetadata(x.msg)
        <3>1. h.pc \in {"logs", "log", "blind"} => HasMetadata(h.msg)
            BY <2>1 DEF Kept
        <3>2. CASE CheckLogs(r) \/ WriteLogs(r) \/ LogsFail(r)
            BY <2>1, <3>1, <3>2, Outcomes
        <3>3. CASE ~(CheckLogs(r) \/ WriteLogs(r) \/ LogsFail(r))
            <4>1. x.pc \in {"find", "ghost", "query", "write", "idle"}
                BY <1>4, <2>1, <3>3, Outcomes, Constants DEF ResponseStep
            <4> QED BY <4>1
        <3> QED BY <3>2, <3>3
    <2>5. \A d \in 1..Deltas : x.pc = "ack" /\ x.msg = d => Stored(d)
        BY <1>2, <2>4
    <2> QED BY <2>1, <2>2, <2>3, <2>4, <2>5 DEF OneReplica, Kept
<1> QED BY <1>1, <1>3, <1>4, OnlyWrites

\* Past its write, the final result stands at the beginning of a record.
LEMMA FinalStoredStep ==
    ASSUME OneReplica, Types, ReadFresh, FinalStored, [Next]_vars PROVE FinalStored'
<1>1. UNCHANGED responses => Begun' = Begun
    BY ResultFixed DEF Begun
<1>2. ASSUME UNCHANGED <<resp, responses, acked>> PROVE FinalStored'
    BY <1>1, <1>2 DEF FinalStored, Acked
<1>3. ASSUME NEW r \in Replicas, WriteResponse(r) PROVE FinalStored'
    <2>1. resp'[r].msg = resp[r].msg /\ Acked' = Acked
        BY <1>3, Outcomes DEF WriteResponse, Acked
    <2>2. Begun \/ resp[r].msg = Final => Begun'
        BY <1>3, WritesKeep, ResultFixed
    <2> QED BY <2>1, <2>2 DEF OneReplica, FinalStored
<1>4. ASSUME NEW r \in Replicas, UNCHANGED responses, ~WriteResponse(r),
             ResponseStep(r) \/ ResponseFails(r) \/ LogsFail(r) \/ Crash(r)
      PROVE  FinalStored'
    <2>1. PICK h, x : h = resp[r] /\ x = resp'[r]
        OBVIOUS
    <2>2. Final \in Acked' => Begun
        <3>1. CASE AckResponse(r)
            BY <3>1, Acknowledges DEF FinalStored
        <3>2. CASE ~AckResponse(r)
            BY <1>4, <3>2, OthersAckNothing DEF FinalStored, Acked
        <3> QED BY <3>1, <3>2
    <2>3. x.msg = Final /\ x.pc \in {"logs", "log", "blind", "ack"} => Begun
        <3>1. CASE CheckLogs(r) \/ WriteLogs(r) \/ LogsFail(r)
            <4>1. x.msg = h.msg /\ h.pc \in {"logs", "log", "blind"}
                BY <2>1, <3>1, Outcomes
            <4> QED BY <2>1, <4>1 DEF FinalStored
        <3>2. CASE ~(CheckLogs(r) \/ WriteLogs(r) \/ LogsFail(r))
            <4>1. x.pc \in {"find", "ghost", "query", "write", "idle"}
                BY <1>4, <2>1, <3>2, Outcomes, Constants DEF ResponseStep
            <4> QED BY <4>1
        <3> QED BY <3>1, <3>2
    <2> QED BY <1>1, <1>4, <2>1, <2>2, <2>3 DEF OneReplica, FinalStored
<1> QED BY <1>2, <1>3, <1>4, OnlyWrites

LEMMA StoreInvInit == Init => StoreInv
<1> SUFFICES ASSUME Init PROVE StoreInv
    OBVIOUS
<1>1. \A r \in Replicas : resp[r] = Idle /\ resp[r].pc = "idle"
    BY Constants DEF Init
<1>2. responses = <<>> /\ Acked = {}
    BY DEF Init, Acked
<1> QED BY <1>1, <1>2 DEF StoreInv, ReadFresh, OneEach, Kept, FinalStored

LEMMA StoreInvStep == ASSUME OneReplica, Types, StoreInv, [Next]_vars PROVE StoreInv'
    BY ReadFreshStep, OneEachStep, KeptStep, FinalStoredStep DEF StoreInv

LEMMA StoreInvAlways == ASSUME OneReplica PROVE Spec => []StoreInv
    BY StoreInvInit, StoreInvStep, TypesAlways, PTL DEF Spec

\* With one replica an acknowledged piece of text is in a record of the response
\* unless the final result, which lacks it, has replaced the text: no retry, crash,
\* ghost row or other chunk erases it.
THEOREM DeltasAppendedAlways == ASSUME OneReplica PROVE Spec => []DeltasAppended
<1>1. Types /\ StoreInv => DeltasAppended
    BY DEF Types, StoreInv, Kept, Stored, DeltasAppended
<1> QED BY <1>1, StoreInvAlways, TypesAlways, PTL

\* With one replica, what the history shows for a row of the prompt begins with the
\* acknowledged final result, through every failure and however the race between the
\* prompt and its response has gone.
THEOREM FinalShownAlways == ASSUME OneReplica PROVE Spec => []FinalShown
<1>1. ASSUME Types, StoreInv PROVE FinalShown
    <2> SUFFICES ASSUME Final \in Acked
                 PROVE  \E p \in DOMAIN prompts : \E c \in Shown(p) : IsPrefix(result, c)
        BY DEF FinalShown
    <2>1. PICK i \in 1..Len(responses) : IsPrefix(result, responses[i].content)
        BY <1>1 DEF StoreInv, FinalStored, Begun
    <2>2. PICK p : p = responses[i].prompt /\ p \in DOMAIN prompts
        BY <1>1 DEF Types, PromptInv
    <2>3. RowsOf(p) = {i}
        <3>1. \A j \in 1..Len(responses) : responses[j].prompt = p => j = i
            BY <1>1, <2>1, <2>2 DEF StoreInv, OneEach
        <3>2. DOMAIN responses = 1..Len(responses)
            BY <1>1 DEF Types
        <3> QED BY <2>1, <2>2, <3>1, <3>2 DEF RowsOf
    <2>4. Len(responses[i].content) \in Nat
        <3>1. responses[i] \in Rows
            BY <1>1 DEF Types
        <3> QED BY <3>1 DEF Rows
    <2>5. responses[i].content \in Shown(p)
        BY <2>3, <2>4 DEF Shown
    <2> QED BY <2>1, <2>2, <2>5
<1> QED BY <1>1, StoreInvAlways, TypesAlways, PTL

===============================================================================
