---------------------------- MODULE ResponseStore ----------------------------
(***************************************************************************)
(* How the db-adapter stores one request.  The user's prompt arrives on    *)
(* the prompt topic; the worker's chunks and, later, the aggregator's      *)
(* final result arrive on the results topic.  Every replica runs one loop  *)
(* per topic, one message at a time, and the two loops share nothing but   *)
(* the tables.  Neither table has a key over the request's uuid, so every  *)
(* handler first looks and then writes.                                    *)
(*                                                                         *)
(* Message 0 is the metadata chunk of a stream, 1..Deltas are its pieces   *)
(* of text, Deltas + 1 is the aggregated result.  The result need not be   *)
(* the pieces in their order: the aggregator reads another topic, keeps    *)
(* one chunk per sequence number and may time out, and while it reads      *)
(* another episode may still publish.  So it is any choice of the pieces,  *)
(* and it may come before the last of them.  Left out are planning notes,  *)
(* segments, sessions and further results for the same request.            *)
(***************************************************************************)
EXTENDS Integers, FiniteSets, SequencesExt

CONSTANTS
    Replicas,        \* db-adapter pods; the autoscaler allows one to three
    UniquePrompt,    \* did Schema.Create get its unique index on responses.prompt_id?
    Deltas,          \* bound: content chunks of the response
    MaxFaults        \* bound: crashes and failing database calls

ASSUME ResponseStoreAssumption ==
    /\ Replicas # {} /\ IsFiniteSet(Replicas)
    /\ UniquePrompt \in BOOLEAN
    /\ Deltas \in Nat \ {0} /\ MaxFaults \in Nat

VARIABLES
    result,       \* the text of the aggregated result, the same all the time
    prompts,      \* rows of prompts with this prompt_id, oldest first
    responses,    \* rows of responses for those prompts; erased is a history: the
                  \* pieces that the final result took from the content
    logs,         \* the writes of the retrieval logs: after a check, or blind
    inbox,        \* results topic: messages to be delivered
    promptMsg,    \* the prompt message: waiting, held or acked
    resp,         \* HandleResponse, by replica
    prom,         \* HandlePrompt, by replica
    acked,        \* results-topic messages acknowledged, in order
    faults

vars == <<result, prompts, responses, logs, inbox, promptMsg, resp, prom, acked, faults>>

Final == Deltas + 1
Messages == 0..Final
HasMetadata(m) == m \in {0, Final}

\* What aggregateChunks may assemble: pieces in any order, none twice, some
\* missing; an empty result is not sent.
Assembled == UNION {Injection(1..n, 1..Deltas) : n \in 1..Deltas}

\* The results topic when the final result is sent after piece k.
Topic(k) == [i \in 1..(Final + 1) |->
                CASE i <= k + 1 -> i - 1 [] i = k + 2 -> Final [] OTHER -> i - 2]

Idle == [pc |-> "idle", msg |-> 0, row |-> 0, seen |-> 0, read |-> <<>>]

TypeOK ==
    /\ \A i \in DOMAIN prompts : prompts[i] \in {"pending", "text"}
    /\ \A i \in DOMAIN responses : /\ responses[i].prompt \in DOMAIN prompts
                                   /\ responses[i].content \in Seq(1..Deltas)
                                   /\ responses[i].erased \subseteq 1..Deltas
    /\ result \in Assembled
    /\ logs \in Seq({"log", "blind"}) /\ faults \in 0..MaxFaults
    /\ inbox \in Seq(Messages) /\ acked \in Seq(Messages)
    /\ promptMsg \in {"waiting", "held", "acked"}
    /\ \A r \in Replicas :
        /\ resp[r].pc \in {"idle", "find", "ghost", "query", "write", "logs", "log",
                         "blind", "ack"}
        /\ resp[r].msg \in Messages
        /\ resp[r].pc \in {"query", "write"} => resp[r].row \in DOMAIN prompts
        /\ resp[r].seen \in 0..Len(responses)
        /\ prom[r].pc \in {"idle", "find", "create", "fill", "ack"}
        /\ prom[r].row \in 0..Len(prompts)

Init ==
    /\ prompts = <<>> /\ responses = <<>> /\ logs = <<>>
    /\ result \in Assembled
    /\ \E k \in 1..Deltas : inbox = Topic(k)
    /\ promptMsg = "waiting"
    /\ resp = [r \in Replicas |-> Idle]
    /\ prom = [r \in Replicas |-> [pc |-> "idle", row |-> 0]]
    /\ acked = <<>> /\ faults = 0

-------------------------------------------------------------------------------
(* HandlePrompt *)

Newest == Len(prompts)    \* 0 when there is none

ReceivePrompt(r) ==
    /\ prom[r].pc = "idle" /\ promptMsg = "waiting"
    /\ prom' = [prom EXCEPT ![r].pc = "find"]
    /\ promptMsg' = "held"
    /\ UNCHANGED <<prompts, responses, logs, inbox, resp, acked, faults>>

\* Mutant: any row counts as the prompt, a ghost too.
MutGhostIsPrompt(r) ==
    /\ prom[r].pc = "find"
    /\ prom' = [prom EXCEPT ![r].pc = IF Newest = 0 THEN "create" ELSE "ack"]
    /\ UNCHANGED <<prompts, responses, logs, inbox, promptMsg, resp, acked, faults>>

\* "Try to find if a ghost prompt already exists for this ID": the newest row.
LookUpGhost(r) ==
    /\ prom[r].pc = "find"
    /\ \/ Newest = 0 /\ prom' = [prom EXCEPT ![r].pc = "create"]
       \/ /\ Newest # 0 /\ prompts[Newest] = "pending"
          /\ prom' = [prom EXCEPT ![r].pc = "fill", ![r].row = Newest]
       \/ /\ Newest # 0 /\ prompts[Newest] # "pending"
          /\ prom' = [prom EXCEPT ![r].pc = "ack"]
    /\ UNCHANGED <<prompts, responses, logs, inbox, promptMsg, resp, acked, faults>>

StorePrompt(r) ==
    /\ \/ prom[r].pc = "create" /\ prompts' = Append(prompts, "text")
       \/ prom[r].pc = "fill" /\ prompts' = [prompts EXCEPT ![prom[r].row] = "text"]
    /\ prom' = [prom EXCEPT ![r].pc = "ack"]
    /\ UNCHANGED <<responses, logs, inbox, promptMsg, resp, acked, faults>>

AckPrompt(r) ==
    /\ prom[r].pc = "ack"
    /\ prom' = [prom EXCEPT ![r] = [pc |-> "idle", row |-> 0]]
    /\ promptMsg' = "acked"
    /\ UNCHANGED <<prompts, responses, logs, inbox, resp, acked, faults>>

-------------------------------------------------------------------------------
(* HandleResponse *)

ReceiveResponse(r) ==
    /\ resp[r].pc = "idle" /\ inbox # <<>>
    /\ resp' = [resp EXCEPT ![r] = [Idle EXCEPT !.pc = "find", !.msg = Head(inbox)]]
    /\ inbox' = Tail(inbox)
    /\ UNCHANGED <<prompts, responses, logs, promptMsg, prom, acked, faults>>

FindPrompt(r) ==
    /\ resp[r].pc = "find"
    /\ resp' = [resp EXCEPT ![r].row = Newest,
                            ![r].pc = IF Newest = 0 THEN "ghost" ELSE "query"]
    /\ UNCHANGED <<prompts, responses, logs, inbox, promptMsg, prom, acked, faults>>

\* Mutant: the ghost is created, but pr stays nil.
MutForgetGhost(r) ==
    /\ resp[r].pc = "ghost"
    /\ prompts' = Append(prompts, "pending")
    /\ resp' = [resp EXCEPT ![r].pc = "query"]
    /\ UNCHANGED <<responses, logs, inbox, promptMsg, prom, acked, faults>>

\* "Create a ghost prompt to handle out-of-order arrival".
CreateGhost(r) ==
    /\ resp[r].pc = "ghost"
    /\ prompts' = Append(prompts, "pending")
    /\ resp' = [resp EXCEPT ![r].row = Len(prompts) + 1, ![r].pc = "query"]
    /\ UNCHANGED <<responses, logs, inbox, promptMsg, prom, acked, faults>>

RowsOf(p) == {i \in DOMAIN responses : responses[i].prompt = p}

\* Inside the transaction: the response of the prompt, any one of them.
QueryResponse(r) ==
    /\ resp[r].pc = "query"
    /\ \/ /\ RowsOf(resp[r].row) = {}
          /\ resp' = [resp EXCEPT ![r].seen = 0, ![r].pc = "write"]
       \/ \E i \in RowsOf(resp[r].row) :
            resp' = [resp EXCEPT ![r].seen = i, ![r].read = responses[i].content,
                                 ![r].pc = "write"]
    /\ UNCHANGED <<prompts, responses, logs, inbox, promptMsg, prom, acked, faults>>

\* Mutant: a delta replaces the content like a final result.
MutReplaceContent(m, read) ==
    CASE m = 0 -> read [] m = Final -> result [] OTHER -> <<m>>

\* Mutant: the final result is appended like a delta.
MutAppendFinal(m, read) ==
    CASE m = 0 -> read [] m = Final -> read \o result [] OTHER -> Append(read, m)

\* A final result replaces the content by what the aggregator has assembled, a
\* delta is appended to what was read.
NewContent(m, read) ==
    CASE m = 0 -> read [] m = Final -> result [] OTHER -> Append(read, m)

\* The pieces a final result takes from the content it replaces.
Erases(m, content) ==
    {d \in 1..Deltas : m = Final /\ Contains(content, d) /\ ~Contains(result, d)}

\* The write and its commit.  The isolation level is READ COMMITTED: what
\* another transaction committed since the query is overwritten.
WriteResponse(r) ==
    LET c == NewContent(resp[r].msg, resp[r].read) IN
    LET old == responses[resp[r].seen] IN
    /\ resp[r].pc = "write"
    /\ \/ /\ resp[r].seen = 0
          /\ UniquePrompt => RowsOf(resp[r].row) = {}
          /\ responses' = Append(responses,
                                 [prompt |-> resp[r].row, content |-> c, erased |-> {}])
       \/ /\ resp[r].seen # 0
          /\ responses' = [responses EXCEPT ![resp[r].seen] =
                [prompt |-> old.prompt, content |-> c,
                 erased |-> old.erased \cup Erases(resp[r].msg, old.content)]]
    /\ resp' = [resp EXCEPT ![r].pc = IF HasMetadata(resp[r].msg) THEN "logs" ELSE "ack"]
    /\ UNCHANGED <<prompts, logs, inbox, promptMsg, prom, acked, faults>>

\* The transient failure of HandleResponse: the message comes back later.
NackResponse(r) ==
    /\ resp' = [resp EXCEPT ![r] = Idle]
    /\ inbox' = Append(inbox, resp[r].msg)

\* The unique index, where there is one, refuses a second record.
CreateConflict(r) ==
    /\ resp[r].pc = "write" /\ resp[r].seen = 0
    /\ UniquePrompt /\ RowsOf(resp[r].row) # {}
    /\ NackResponse(r)
    /\ UNCHANGED <<prompts, responses, logs, promptMsg, prom, acked, faults>>

\* Mutant: retrieval logs are written with every chunk that has metadata.
MutAlwaysLog(r) ==
    /\ resp[r].pc = "logs"
    /\ resp' = [resp EXCEPT ![r].pc = "log"]
    /\ UNCHANGED <<prompts, responses, logs, inbox, promptMsg, prom, acked, faults>>

CheckLogs(r) ==
    /\ resp[r].pc = "logs"
    /\ resp' = [resp EXCEPT ![r].pc = IF logs = <<>> THEN "log" ELSE "ack"]
    /\ UNCHANGED <<prompts, responses, logs, inbox, promptMsg, prom, acked, faults>>

\* The rows one message writes count as one write.
WriteLogs(r) ==
    /\ resp[r].pc \in {"log", "blind"}
    /\ logs' = Append(logs, resp[r].pc)
    /\ resp' = [resp EXCEPT ![r].pc = "ack"]
    /\ UNCHANGED <<prompts, responses, inbox, promptMsg, prom, acked, faults>>

AckResponse(r) ==
    /\ resp[r].pc = "ack"
    /\ acked' = Append(acked, resp[r].msg)
    /\ resp' = [resp EXCEPT ![r] = Idle]
    /\ UNCHANGED <<prompts, responses, logs, inbox, promptMsg, prom, faults>>

-------------------------------------------------------------------------------
(* Failures *)

Fault == faults < MaxFaults /\ faults' = faults + 1

\* A database call of HandleResponse fails before the commit, or the commit is
\* reported as failed although it was made.
ResponseFails(r) ==
    /\ \/ resp[r].pc \in {"find", "ghost", "query", "write", "logs"}
       \/ resp[r].pc = "ack" /\ ~HasMetadata(resp[r].msg)
    /\ NackResponse(r) /\ Fault
    /\ UNCHANGED <<prompts, responses, logs, promptMsg, prom, acked>>

\* Errors of the log queries are ignored: a check that fails reads as "no logs",
\* a write that fails as done.
LogsFail(r) ==
    /\ \/ resp[r].pc = "logs" /\ resp' = [resp EXCEPT ![r].pc = "blind"]
       \/ resp[r].pc \in {"log", "blind"} /\ resp' = [resp EXCEPT ![r].pc = "ack"]
    /\ Fault
    /\ UNCHANGED <<prompts, responses, logs, inbox, promptMsg, prom, acked>>

\* HandlePrompt takes any error of its lookup for "there is no prompt".
LookUpFails(r) ==
    /\ prom[r].pc = "find"
    /\ prom' = [prom EXCEPT ![r].pc = "create"]
    /\ Fault
    /\ UNCHANGED <<prompts, responses, logs, inbox, promptMsg, resp, acked>>

\* The session, the insert or the update fails, or is reported as failed
\* although it was made.
PromptFails(r) ==
    /\ prom[r].pc \in {"find", "create", "fill", "ack"}
    /\ prom' = [prom EXCEPT ![r] = [pc |-> "idle", row |-> 0]]
    /\ promptMsg' = "waiting"
    /\ Fault
    /\ UNCHANGED <<prompts, responses, logs, inbox, resp, acked>>

\* The pod dies: what its two loops held is delivered again, before newer
\* messages.
Crash(r) ==
    /\ resp[r].pc # "idle" \/ prom[r].pc # "idle"
    /\ resp' = [resp EXCEPT ![r] = Idle]
    /\ prom' = [prom EXCEPT ![r] = [pc |-> "idle", row |-> 0]]
    /\ inbox' = IF resp[r].pc = "idle" THEN inbox ELSE <<resp[r].msg>> \o inbox
    /\ promptMsg' = IF prom[r].pc = "idle" THEN promptMsg ELSE "waiting"
    /\ Fault
    /\ UNCHANGED <<prompts, responses, logs, acked>>

-------------------------------------------------------------------------------

PromptStep(r) == ReceivePrompt(r) \/ LookUpGhost(r) \/ StorePrompt(r) \/ AckPrompt(r)

ResponseStep(r) ==
    \/ ReceiveResponse(r) \/ FindPrompt(r) \/ CreateGhost(r) \/ QueryResponse(r)
    \/ WriteResponse(r) \/ CreateConflict(r)
    \/ CheckLogs(r) \/ WriteLogs(r) \/ AckResponse(r)

Next ==
    /\ \E r \in Replicas :
        \/ PromptStep(r) \/ ResponseStep(r)
        \/ ResponseFails(r) \/ LogsFail(r) \/ LookUpFails(r) \/ PromptFails(r) \/ Crash(r)
    /\ UNCHANGED result

Spec == Init /\ [][Next]_vars

-------------------------------------------------------------------------------
(* Properties *)

Acked == {acked[i] : i \in DOMAIN acked}

\* The response record a reader of the history finds for prompt row p: of
\* several, the longest (GetMessages).
Shown(p) == {responses[i].content : i \in
               {j \in RowsOf(p) : \A k \in RowsOf(p) :
                   Len(responses[k].content) <= Len(responses[j].content)}}

\* Whatever the order of the prompt and its response, and through every
\* redelivery: once the prompt is acknowledged its text is stored.
PromptTextStored == promptMsg = "acked" => \E i \in DOMAIN prompts : prompts[i] = "text"

\* A content chunk that was acknowledged is in some record of the response, or the
\* final result took it away, which lacks it: no other chunk, retry, crash or second
\* record of the race with the prompt has erased it.
DeltasAppended ==
    \A m \in 1..Deltas : m \in Acked =>
        \E i \in DOMAIN responses :
            Contains(responses[i].content, m) \/ m \in responses[i].erased

\* Once the final result is acknowledged, what the history shows for a row of the
\* prompt begins with it: the race with the prompt may have made two rows and split
\* the chunks between them, a late or redelivered chunk may have come after it, but
\* no chunk stands before it and none has overwritten it.
FinalShown ==
    Final \in Acked => \E p \in DOMAIN prompts : \E c \in Shown(p) : IsPrefix(result, c)

\* With one replica a second write of the logs can only be a blind one: the check
\* holds through crashes and redeliveries between the write and the ack.
LogsOnceChecked == \A i \in DOMAIN logs : i > 1 => logs[i] = "blind"

===============================================================================
