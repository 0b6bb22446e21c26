---------------------------- MODULE SessionStream ----------------------------
(***************************************************************************)
(* The session topic of one request and its readers.  Every run of         *)
(* handleExec for the request -- a page, another round, a retry, a fork -- *)
(* is an episode that publishes its text to the same topic and numbers its *)
(* chunks from the start.  When an episode has answered it publishes a     *)
(* COMPLETED event; the prompt-aggregator then reads the topic from the    *)
(* start to its first IsLast chunk and publishes the assembled text.  The  *)
(* llm-gateway reads the same topic while it grows.                        *)
(*                                                                         *)
(* Abstractions: a piece of text is <<episode, k>>, the k-th piece the     *)
(* episode produced; planning notes and the empty metadata chunk (Seq 0 of *)
(* a stream) carry no text and are left out.  A reader of an immutable log *)
(* is the position it has reached, so aggregateChunks is one step that     *)
(* picks where it stopped reading.                                         *)
(***************************************************************************)
EXTENDS Integers, FiniteSets, SequencesExt

CONSTANTS
    MaxEpisodes,   \* bound: runs of handleExec for the request
    MaxPieces,     \* bound: pieces of text per episode
    MaxFaults      \* bound: crashes, failed publishes, model errors, timeouts

ASSUME SessionStreamAssumption ==
    /\ MaxEpisodes \in Nat \ {0} /\ MaxPieces \in Nat /\ MaxFaults \in Nat

VARIABLES
    topic,     \* the session topic, a log
    exec,      \* the episodes
    pending,   \* exec-stage messages of the request that nobody handles
    events,    \* COMPLETED events not yet acknowledged
    agg,       \* the aggregator: idle, or between its publish and its ack
    finals,    \* the final results published for the db-adapter so far
    faults

vars == <<topic, exec, pending, events, agg, finals, faults>>

Episodes == 1..MaxEpisodes

\* absent: not begun; running: executing units; completing: the final chunk is
\* out, the COMPLETED event is not; over: returned.
Phases == {"absent", "running", "completing", "over"}

Pieces == Episodes \X (1..MaxPieces)

Texts == Seq(Pieces)

Chunks == [author : Episodes, seq : 0..(MaxPieces + 1), text : Texts,
           isLast : BOOLEAN, error : BOOLEAN]

TypeOK ==
    /\ \A i \in DOMAIN topic : topic[i] \in Chunks
    /\ \A e \in Episodes : /\ exec[e].phase \in Phases
                           /\ exec[e].seq \in 1..(MaxPieces + 1)
                           /\ exec[e].content \in Texts
                           /\ exec[e].streaming \in BOOLEAN
    /\ pending \in Nat /\ events \in Nat
    /\ agg \in {"idle", "sent"}
    /\ faults \in 0..MaxFaults

Init ==
    /\ topic = <<>>
    /\ \E stream \in BOOLEAN :
         exec = [e \in Episodes |-> [phase |-> "absent", seq |-> 1, content |-> <<>>,
                                     streaming |-> stream]]
    /\ pending = 1
    /\ events = 0 /\ agg = "idle" /\ finals = {} /\ faults = 0

-------------------------------------------------------------------------------
(* The worker *)

Fault == faults < MaxFaults /\ faults' = faults + 1

\* A publish to the session topic; a failing one is logged and forgotten.
Publish(c) ==
    \/ topic' = Append(topic, c) /\ UNCHANGED faults
    \/ UNCHANGED topic /\ Fault

SendStreamChunk(e, text, seq, isLast) ==
    Publish([author |-> e, seq |-> seq, text |-> text, isLast |-> isLast,
             error |-> FALSE])

\* An error chunk leaves SequenceNumber at 0 and ends the topic for its readers;
\* its publish may fail too.
SendError(e) ==
    topic' \in {topic, Append(topic, [author |-> e, seq |-> 0, text |-> <<>>,
                                      isLast |-> TRUE, error |-> TRUE])}

Begin(e) ==
    /\ exec[e].phase = "absent" /\ pending > 0
    /\ \A d \in 1..(e - 1) : exec[d].phase # "absent"
    /\ exec' = [exec EXCEPT ![e].phase = "running"]
    /\ pending' = pending - 1
    /\ UNCHANGED <<topic, events, agg, finals, faults>>

\* Mutant: the sequence number does not survive the unit.
MutForgetNextSeq(e) ==
    /\ exec[e].phase = "running" /\ Len(exec[e].content) < MaxPieces
    /\ LET piece == <<e, Len(exec[e].content) + 1>> IN
        /\ exec' = [exec EXCEPT ![e].content = Append(@, piece)]
        /\ IF exec[e].streaming
             THEN SendStreamChunk(e, <<piece>>, exec[e].seq, FALSE)
             ELSE UNCHANGED <<topic, faults>>
    /\ UNCHANGED <<pending, events, agg, finals>>

\* The model has produced another piece.  A stream publishes it at once; an
\* Execute call only accumulates it.
ProcessUnit(e) ==
    /\ exec[e].phase = "running" /\ Len(exec[e].content) < MaxPieces
    /\ LET piece == <<e, Len(exec[e].content) + 1>> IN
        /\ exec' = [exec EXCEPT ![e].content = Append(@, piece),
                                ![e].seq = IF exec[e].streaming THEN @ + 1 ELSE @]
        /\ IF exec[e].streaming
             THEN SendStreamChunk(e, <<piece>>, exec[e].seq, FALSE)
             ELSE UNCHANGED <<topic, faults>>
    /\ UNCHANGED <<pending, events, agg, finals>>

\* The model fails on a unit: an error chunk, and on to the next unit, unless
\* the model does not exist, when the message is dead-lettered.
UnitFails(e) ==
    /\ exec[e].phase = "running"
    /\ SendError(e) /\ Fault
    /\ exec' \in {exec, [exec EXCEPT ![e].phase = "over"]}
    /\ UNCHANGED <<pending, events, agg, finals>>

\* Insufficient context: the next page or another round, sooner or later
\* another episode.
Continue(e) ==
    /\ exec[e].phase = "running"
    /\ exec' = [exec EXCEPT ![e].phase = "over"]
    /\ pending' = pending + 1
    /\ UNCHANGED <<topic, events, agg, finals, faults>>

\* Mutant: the answer is the last unit's text, not the accumulated one.
MutLastUnitOnly(e) ==
    /\ exec[e].phase = "running"
    /\ exec' = [exec EXCEPT ![e].phase = "completing"]
    /\ LET last == SelectSeq(exec[e].content, LAMBDA p : p[2] = Len(exec[e].content)) IN
         IF exec[e].streaming THEN SendStreamChunk(e, <<>>, exec[e].seq, TRUE)
                      ELSE SendStreamChunk(e, last, 0, TRUE)
    /\ UNCHANGED <<pending, events, agg, finals>>

\* The answer: an empty IsLast chunk after a stream, or the whole text.
Answer(e) ==
    /\ exec[e].phase = "running"
    /\ exec' = [exec EXCEPT ![e].phase = "completing"]
    /\ IF exec[e].streaming THEN SendStreamChunk(e, <<>>, exec[e].seq, TRUE)
                    ELSE SendStreamChunk(e, exec[e].content, 0, TRUE)
    /\ UNCHANGED <<pending, events, agg, finals>>

SendCompletion(e) ==
    /\ exec[e].phase = "completing"
    /\ exec' = [exec EXCEPT ![e].phase = "over"]
    /\ \/ events' = events + 1 /\ UNCHANGED faults
       \/ UNCHANGED events /\ Fault
    /\ UNCHANGED <<topic, pending, agg, finals>>

\* The worker dies before it has acknowledged the stage message, or a publish
\* of the next stage message fails, which handleExec reports with an error chunk:
\* the message is handled once more.
Redeliver(e) ==
    /\ exec[e].phase # "absent"
    /\ exec' = [exec EXCEPT ![e].phase = "over"]
    /\ pending' = pending + 1
    /\ IF exec[e].phase = "running" THEN SendError(e) ELSE UNCHANGED topic
    /\ Fault
    /\ UNCHANGED <<events, agg, finals>>

-------------------------------------------------------------------------------
(* The readers *)

Markers == {i \in DOMAIN topic : topic[i].isLast}

\* Mutant: reading goes on to the newest IsLast chunk.
MutLastMarker == CHOOSE i \in Markers : \A j \in Markers : i >= j

FirstMarker == CHOOSE i \in Markers : \A j \in Markers : i <= j

\* chunks[s] after the first n messages: the last non-empty text numbered s.
ChunkAt(s, n) ==
    LET writes == {i \in 1..n : topic[i].seq = s /\ topic[i].text # <<>>} IN
    IF writes = {} THEN <<>>
    ELSE topic[CHOOSE i \in writes : \A j \in writes : i >= j].text

\* In order of sequence number.
assemble(n) == FlattenSeq([k \in 1..(MaxPieces + 1) |-> ChunkAt(k - 1, n)])

\* What the gateway hands on when it has read the first n messages: every
\* chunk in the order of the topic (SendRequest appends, the WebSocket
\* handler forwards).
Forwarded(n) == FlattenSeq([i \in 1..n |-> topic[i].text])

sendFinalResult(text, partial) ==
    /\ finals' = finals \cup {[text |-> text, partial |-> partial]}
    /\ agg' = "sent"
    /\ UNCHANGED events

\* Mutant: an empty result is retried.
MutRetryEmpty ==
    /\ agg = "idle" /\ events > 0 /\ Markers # {}
    /\ LET text == assemble(FirstMarker) IN
         IF text = <<>> THEN UNCHANGED <<events, agg, finals>>
                        ELSE sendFinalResult(text, FALSE)
    /\ UNCHANGED <<topic, exec, pending, faults>>

\* Mutant: after the ack of an empty result the loop body goes on.
MutFallThrough ==
    /\ agg = "idle" /\ events > 0 /\ Markers # {}
    /\ LET text == assemble(FirstMarker) IN
         /\ events' = IF text = <<>> THEN events - 1 ELSE events
         /\ finals' = finals \cup {[text |-> text, partial |-> FALSE]}
         /\ agg' = "sent"
    /\ UNCHANGED <<topic, exec, pending, faults>>

\* aggregateChunks has reached an IsLast chunk.  An empty result is ignored
\* and the event acknowledged.
Aggregate ==
    /\ agg = "idle" /\ events > 0 /\ Markers # {}
    /\ LET text == assemble(FirstMarker) IN
         IF text = <<>> THEN events' = events - 1 /\ UNCHANGED <<agg, finals>>
                        ELSE sendFinalResult(text, FALSE)
    /\ UNCHANGED <<topic, exec, pending, faults>>

\* The timeout comes before the IsLast chunk: what has been read, if anything,
\* is sent.  (With nothing read the event is nacked and nothing changes, and so
\* it is when the publish of the result fails.)
AggregatePartial ==
    /\ agg = "idle" /\ events > 0
    /\ \E n \in DOMAIN topic :
        /\ \A i \in 1..n : ~topic[i].isLast
        /\ assemble(n) # <<>>
        /\ sendFinalResult(assemble(n), TRUE)
    /\ Fault
    /\ UNCHANGED <<topic, exec, pending>>

AckCompletion ==
    /\ agg = "sent"
    /\ agg' = "idle" /\ events' = events - 1
    /\ UNCHANGED <<topic, exec, pending, finals, faults>>

\* The aggregator restarts before its ack: the event is delivered again.
AggregatorCrash ==
    /\ agg = "sent"
    /\ agg' = "idle"
    /\ Fault
    /\ UNCHANGED <<topic, exec, pending, events, finals>>

-------------------------------------------------------------------------------

EpisodeStep(e) == ProcessUnit(e) \/ Continue(e) \/ Answer(e) \/ SendCompletion(e)

Next ==
    \/ \E e \in Episodes : Begin(e) \/ EpisodeStep(e) \/ UnitFails(e) \/ Redeliver(e)
    \/ Aggregate \/ AggregatePartial \/ AckCompletion \/ AggregatorCrash

Spec == Init /\ [][Next]_vars

\* The aggregator's loop always goes on; nothing is asked of the worker.
FairSpec == Spec /\ WF_vars(Aggregate) /\ WF_vars(AckCompletion)

-------------------------------------------------------------------------------
(* Properties *)

\* The episodes that wrote to the first n messages.
Authors(n) == {topic[i].author : i \in 1..n}

\* The gateway and the aggregator, reading the same topic by different rules --
\* one in arrival order, one by sequence number -- have the same text, as long as
\* one episode wrote it; pieces that were lost and failing units included.
ReadersAgree ==
    Markers # {} /\ Cardinality(Authors(FirstMarker)) = 1
        => assemble(FirstMarker) = Forwarded(FirstMarker)

\* t has some of the elements of s, in the order of s.
IsSubsequence(t, s) ==
    \E place \in [DOMAIN t -> DOMAIN s] :
        /\ \A k \in DOMAIN t : t[k] = s[place[k]]
        /\ \A k, l \in DOMAIN t : k < l => place[k] < place[l]

\* A final result assembled from a single episode is a subsequence of the
\* episode's text in the order it was produced, and the whole of it when the
\* topic ended with the episode's own answer and no publish was lost.
FinalIsTheAnswer ==
    \A f \in finals : ~f.partial /\ Cardinality(Authors(FirstMarker)) = 1 =>
        LET e == topic[FirstMarker].author IN
        /\ IsSubsequence(f.text, exec[e].content)
        /\ faults = 0 => f.text = exec[e].content

\* However often a completion event is delivered and however many episodes
\* complete, the results the aggregator sends without a timeout are the same.
AggregationsAgree ==
    \A f, g \in finals : ~f.partial /\ ~g.partial => f.text = g.text

\* Once the topic has an end, every completion event is acknowledged for good.
CompletionsSettle == <>[](Markers # {} => events = 0)

\* "Prompt Aggregator: Aggregates all chunks from the session topic after
\* completion" (OPERATIONS.md, 5.2).  Sequence numbers start again with every
\* episode, and a chunk replaces an earlier one with its number.
AllChunksAggregated ==
    \A f \in finals : ~f.partial =>
        \A i \in 1..FirstMarker : ToSet(topic[i].text) \subseteq ToSet(f.text)

===============================================================================
