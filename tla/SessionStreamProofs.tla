------------------------- MODULE SessionStreamProofs -------------------------
(***************************************************************************)
(* What SessionStream promises, for every number of episodes, pieces and   *)
(* faults.  In four parts:                                                 *)
(*   - results sent without a timeout agree, as the topic up to its first  *)
(*     IsLast chunk never changes (FinalsFixed);                           *)
(*   - what the topic has is what its episodes produced, in the order of   *)
(*     the numbers of each of them (Written), hence the types;             *)
(*   - texts put together: the aggregator's assembly and the gateway's     *)
(*     forwarding grow by the same text with every message of one episode, *)
(*     hence the two readers agree;                                        *)
(*   - without a fault a stream's number is its place on the topic         *)
(*     (Whole), hence the final result is the whole answer.                *)
(* FlattenSeq is recursive; JoinsExist and FlattenJoins turn it into its   *)
(* two equations, by a least counterexample.                               *)
(***************************************************************************)
EXTENDS SessionStream, WellFoundedInduction, FiniteSetTheorems, TLAPS

ChunkLike == [author : Episodes, seq : Nat, text : Texts, isLast : BOOLEAN, error : BOOLEAN]

EpisodeLike == [phase : Phases, seq : Nat, content : Texts, streaming : BOOLEAN]

\* The types, without the bounds, that the readers rely on.
Typed == topic \in Seq(ChunkLike) /\ exec \in [Episodes -> EpisodeLike]

\* A result sent without a timeout is the assembly up to the first IsLast chunk.
FinalsFixed ==
    \A f \in finals : ~f.partial =>
        Markers # {} /\ f.text = assemble(FirstMarker)

-------------------------------------------------------------------------------

\* A set of naturals that is not empty has a least element.
LEMMA LeastNatural ==
    ASSUME NEW S, S \subseteq Nat, S # {}
    PROVE  \E i \in S : \A j \in S : i <= j
<1>1. PICK i \in S : \A j \in S : ~(<<j, i>> \in OpToRel(<, Nat))
    BY NatLessThanWellFounded, WFMin
<1>2. i \in S /\ \A j \in S : ~(j < i)
    BY <1>1 DEF OpToRel
<1> QED BY <1>2

\* One that is bounded has a greatest.
LEMMA GreatestNatural ==
    ASSUME NEW n \in Nat, NEW S, S \subseteq 1..n, S # {}
    PROVE  \E i \in S : \A j \in S : i >= j
<1> DEFINE T == {n - i : i \in S}
<1>1. T \subseteq Nat /\ T # {}
    OBVIOUS
<1> HIDE DEF T
<1>2. PICK k \in T : \A l \in T : k <= l
    BY <1>1, LeastNatural
<1>3. PICK i \in S : k = n - i
    BY <1>2 DEF T
<1>4. \A j \in S : n - j \in T
    BY DEF T
<1>5. \A j \in S : k <= n - j
    BY <1>2, <1>4
<1> QED BY <1>3, <1>5

\* The first IsLast chunk is on the topic.
LEMMA FirstMarkerIn ==
    ASSUME Typed, Markers # {}
    PROVE  /\ FirstMarker \in Markers /\ FirstMarker \in 1..Len(topic)
           /\ \A j \in Markers : FirstMarker <= j
<1>1. Markers \subseteq 1..Len(topic) /\ Markers \subseteq Nat
    BY DEF Markers, Typed
<1>2. \E i \in Markers : \A j \in Markers : i <= j
    BY <1>1, LeastNatural
<1> QED BY <1>1, <1>2 DEF FirstMarker

\* aggregateChunks: what has been read does not change when the topic grows.
LEMMA PrefixStable ==
    ASSUME Typed, NEW n \in 1..Len(topic), NEW c \in ChunkLike,
           topic' = Append(topic, c)
    PROVE  assemble(n)' = assemble(n)
<1>1. \A i \in 1..n : topic'[i] = topic[i]
    BY DEF Typed
<1>2. ASSUME NEW s \in 0..MaxPieces PROVE ChunkAt(s, n)' = ChunkAt(s, n)
    <2> DEFINE writes == {i \in 1..n : topic[i].seq = s /\ topic[i].text # <<>>}
    <2> DEFINE latest == CHOOSE i \in writes : \A j \in writes : i >= j
    <2>1. writes' = writes
        BY <1>1
    <2>2. CASE writes = {}
        BY <2>1, <2>2 DEF ChunkAt
    <2>3. CASE writes # {}
        <3>1. n \in Nat /\ writes \subseteq 1..n
            BY DEF Typed
        <3>2. \E i \in writes : \A j \in writes : i >= j
            BY <2>3, <3>1, GreatestNatural
        <3> HIDE DEF writes
        <3>3. latest \in 1..n
            BY <3>1, <3>2
        <3>4. latest' = latest
            BY <2>1
        <3>5. topic'[latest'] = topic[latest]
            BY <1>1, <3>3, <3>4
        <3>6. ChunkAt(s, n) = topic[latest].text /\ ChunkAt(s, n)' = topic'[latest'].text
            BY <2>1, <2>3 DEF ChunkAt, writes
        <3> QED BY <3>5, <3>6
    <2> QED BY <2>2, <2>3
<1>3. \A k \in 1..(MaxPieces + 1) : ChunkAt(k - 1, n)' = ChunkAt(k - 1, n)
    <2>1. ASSUME NEW k \in 1..(MaxPieces + 1) PROVE ChunkAt(k - 1, n)' = ChunkAt(k - 1, n)
        <3>1. k - 1 \in 0..MaxPieces
            BY SessionStreamAssumption
        <3> QED BY <1>2, <3>1
    <2> QED BY <2>1
<1>4. [k \in 1..(MaxPieces + 1) |-> ChunkAt(k - 1, n)]'
        = [k \in 1..(MaxPieces + 1) |-> ChunkAt(k - 1, n)]
    BY <1>3
<1> QED BY <1>4 DEF assemble

\* Neither does the first IsLast chunk.
LEMMA MarkerStable ==
    ASSUME Typed, Markers # {}, NEW c \in ChunkLike, topic' = Append(topic, c)
    PROVE  Markers' # {} /\ FirstMarker' = FirstMarker
<1>1. /\ FirstMarker \in Markers /\ FirstMarker \in 1..Len(topic)
      /\ \A j \in Markers : FirstMarker <= j
    BY FirstMarkerIn
<1>2. topic' \in Seq(ChunkLike) /\ Len(topic') = Len(topic) + 1
    BY DEF Typed
<1>3. \A i \in 1..Len(topic) : topic'[i] = topic[i]
    BY DEF Typed
<1>4. Len(topic) \in Nat /\ DOMAIN topic = 1..Len(topic) /\ DOMAIN topic' = 1..(Len(topic) + 1)
    BY <1>2 DEF Typed
<1>5. Markers \subseteq Markers' /\ Markers' \subseteq Markers \cup {Len(topic) + 1}
    BY <1>3, <1>4 DEF Markers
<1>6. FirstMarker \in Markers' /\ \A j \in Markers' : FirstMarker <= j
    BY <1>1, <1>4, <1>5
<1>7. \A i \in Markers' : (\A j \in Markers' : i <= j) => i = FirstMarker
    <2>1. Markers' \subseteq Nat
        BY <1>4 DEF Markers
    <2> QED BY <1>6, <2>1
<1>8. (CHOOSE i \in Markers' : \A j \in Markers' : i <= j) = FirstMarker
    BY <1>6, <1>7
<1> QED BY <1>6, <1>8 DEF FirstMarker

\* So a result that was sent stays what the topic says.
LEMMA TopicGrows ==
    ASSUME Typed, FinalsFixed, NEW c \in ChunkLike,
           topic' \in {topic, Append(topic, c)}, UNCHANGED finals
    PROVE  FinalsFixed' /\ topic' \in Seq(ChunkLike)
<1>1. CASE topic' = topic
    <2>1. Markers' = Markers /\ FirstMarker' = FirstMarker
        BY <1>1 DEF Markers, FirstMarker
    <2>2. \A n : assemble(n)' = assemble(n)
        BY <1>1 DEF assemble, ChunkAt
    <2> QED BY <1>1, <2>1, <2>2 DEF FinalsFixed, Typed
<1>2. CASE topic' = Append(topic, c)
    <2>1. ASSUME NEW f \in finals, ~f.partial
          PROVE  Markers' # {} /\ f.text = assemble(FirstMarker)'
        <3>1. Markers # {} /\ f.text = assemble(FirstMarker)
            BY <2>1 DEF FinalsFixed
        <3>2. FirstMarker \in 1..Len(topic)
            BY <3>1, FirstMarkerIn
        <3>3. Markers' # {} /\ FirstMarker' = FirstMarker
            BY <1>2, <3>1, MarkerStable
        <3>4. \A n \in 1..Len(topic) : assemble(n)' = assemble(n)
            BY <1>2, PrefixStable
        <3> QED BY <3>1, <3>2, <3>3, <3>4
    <2> QED BY <1>2, <2>1 DEF FinalsFixed, Typed
<1> QED BY <1>1, <1>2

-------------------------------------------------------------------------------

\* Every step of an episode publishes chunks of the known shape.
LEMMA EpisodesTyped ==
    ASSUME Typed, NEW e \in Episodes,
           Begin(e) \/ EpisodeStep(e) \/ UnitFails(e) \/ Redeliver(e)
    PROVE  /\ exec' \in [Episodes -> EpisodeLike]
           /\ \E c \in ChunkLike : topic' \in {topic, Append(topic, c)}
           /\ UNCHANGED finals
<1>1. exec[e] \in EpisodeLike /\ exec[e].content \in Seq(Pieces) /\ exec[e].seq \in Nat
    BY DEF Typed, EpisodeLike, Texts
<1>2. [author |-> e, seq |-> 0, text |-> <<>>, isLast |-> TRUE, error |-> TRUE] \in ChunkLike
    BY DEF ChunkLike, Texts
<1>3. ASSUME NEW text \in Texts, NEW seq \in Nat, NEW last \in BOOLEAN
      PROVE  [author |-> e, seq |-> seq, text |-> text, isLast |-> last, error |-> FALSE]
               \in ChunkLike
    BY <1>3 DEF ChunkLike
<1>4. ASSUME NEW text \in Texts, NEW seq \in Nat, NEW last \in BOOLEAN,
             SendStreamChunk(e, text, seq, last)
      PROVE  \E c \in ChunkLike : topic' \in {topic, Append(topic, c)}
    BY <1>3, <1>4 DEF SendStreamChunk, Publish
<1>5. CASE Begin(e) \/ Continue(e) \/ SendCompletion(e) \/ Redeliver(e)
    BY <1>2, <1>5, ZenonT(60) DEF Begin, Continue, SendCompletion, Redeliver, SendError, Typed,
                      EpisodeLike, Phases
<1>6. CASE UnitFails(e)
    BY <1>2, <1>6, ZenonT(60) DEF UnitFails, SendError, Typed, EpisodeLike, Phases
<1>7. CASE Answer(e)
    <2>1. <<>> \in Texts /\ exec[e].content \in Texts
        BY <1>1 DEF Texts
    <2>2. \E c \in ChunkLike : topic' \in {topic, Append(topic, c)}
        BY <1>1, <1>4, <1>7, <2>1 DEF Answer
    <2> QED BY <1>7, <2>2 DEF Answer, Typed, EpisodeLike, Phases
<1>8. CASE ProcessUnit(e)
    <2> DEFINE piece == <<e, Len(exec[e].content) + 1>>
    <2>1. piece \in Pieces
        BY <1>1, <1>8, SessionStreamAssumption DEF ProcessUnit, Pieces
    <2> HIDE DEF piece
    <2>2. <<piece>> \in Texts /\ Append(exec[e].content, piece) \in Texts
        BY <1>1, <2>1 DEF Texts
    <2>3. ASSUME exec[e].streaming
          PROVE  \E c \in ChunkLike : topic' \in {topic, Append(topic, c)}
        <3>1. SendStreamChunk(e, <<piece>>, exec[e].seq, FALSE)
            BY <1>8, <2>3 DEF ProcessUnit, piece
        <3> QED BY <1>1, <1>4, <2>2, <3>1
    <2>4. ASSUME ~exec[e].streaming
          PROVE  \E c \in ChunkLike : topic' \in {topic, Append(topic, c)}
        BY <1>2, <1>8, <2>4 DEF ProcessUnit
    <2> DEFINE seq == IF exec[e].streaming THEN exec[e].seq + 1 ELSE exec[e].seq
    <2>5. seq \in Nat
        BY <1>1
    <2> DEFINE content == Append(exec[e].content, piece)
    <2>6. exec' \in [Episodes -> EpisodeLike]
        <3>1. exec' = [exec EXCEPT ![e].content = content, ![e].seq = seq]
            BY <1>8 DEF ProcessUnit, piece
        <3>2. content \in Texts
            BY <2>2
        <3> HIDE DEF content, seq
        <3> QED BY <2>5, <3>1, <3>2 DEF Typed, EpisodeLike
    <2>7. UNCHANGED finals
        BY <1>8 DEF ProcessUnit
    <2>8. \E c \in ChunkLike : topic' \in {topic, Append(topic, c)}
        BY <2>3, <2>4
    <2> QED BY <2>6, <2>7, <2>8
<1> QED BY <1>5, <1>6, <1>7, <1>8 DEF EpisodeStep

\* The aggregator publishes without a timeout only what the topic says.
LEMMA AggregatorSteps ==
    ASSUME Typed, FinalsFixed,
           Aggregate \/ AggregatePartial \/ AckCompletion \/ AggregatorCrash
    PROVE  Typed' /\ FinalsFixed'
<1>1. UNCHANGED <<topic, exec>>
    BY DEF Aggregate, AggregatePartial, AckCompletion, AggregatorCrash
<1>2. Markers' = Markers /\ FirstMarker' = FirstMarker
    BY <1>1 DEF Markers, FirstMarker
<1>3. \A n : assemble(n)' = assemble(n)
    BY <1>1 DEF assemble, ChunkAt
<1>4. \A f \in finals' : f \in finals \/ f.partial
                          \/ (Markers # {} /\ f.text = assemble(FirstMarker))
    <2>1. CASE Aggregate
        BY <2>1 DEF Aggregate, sendFinalResult
    <2>2. CASE AggregatePartial
        BY <2>2 DEF AggregatePartial, sendFinalResult
    <2>3. CASE AckCompletion \/ AggregatorCrash
        BY <2>3 DEF AckCompletion, AggregatorCrash
    <2> QED BY <2>1, <2>2, <2>3
<1>5. assemble(FirstMarker)' = assemble(FirstMarker)
    BY <1>1 DEF assemble, ChunkAt, FirstMarker, Markers
<1> QED BY <1>1, <1>2, <1>4, <1>5 DEF Typed, FinalsFixed

LEMMA FinalsAtFirst == Init => Typed /\ FinalsFixed
BY DEF Init, Typed, FinalsFixed, EpisodeLike, Phases, Texts

LEMMA FinalsStep == Typed /\ FinalsFixed /\ [Next]_vars => Typed' /\ FinalsFixed'
<1> SUFFICES ASSUME Typed, FinalsFixed, [Next]_vars PROVE Typed' /\ FinalsFixed'
    OBVIOUS
<1>1. CASE UNCHANGED vars
    <2>1. assemble(FirstMarker)' = assemble(FirstMarker) /\ Markers' = Markers
        BY <1>1 DEF vars, assemble, ChunkAt, FirstMarker, Markers
    <2> QED BY <1>1, <2>1 DEF vars, Typed, FinalsFixed
<1>2. ASSUME NEW e \in Episodes,
             Begin(e) \/ EpisodeStep(e) \/ UnitFails(e) \/ Redeliver(e)
      PROVE  Typed' /\ FinalsFixed'
    <2>1. /\ exec' \in [Episodes -> EpisodeLike]
          /\ \E c \in ChunkLike : topic' \in {topic, Append(topic, c)}
          /\ UNCHANGED finals
        BY <1>2, EpisodesTyped
    <2>2. FinalsFixed' /\ topic' \in Seq(ChunkLike)
        BY <2>1, TopicGrows
    <2> QED BY <2>1, <2>2 DEF Typed
<1>3. CASE Aggregate \/ AggregatePartial \/ AckCompletion \/ AggregatorCrash
    BY <1>3, AggregatorSteps
<1> QED BY <1>1, <1>2, <1>3 DEF Next

\* However often completion events are delivered, and however many episodes write
\* to the topic meanwhile, the results that are sent without a timeout are equal
\* (handleCompletion, aggregateChunks): AggregationsAgree.
THEOREM AggregationsAgreeAlways == Spec => []AggregationsAgree
<1>1. FinalsFixed => AggregationsAgree
    BY DEF FinalsFixed, AggregationsAgree
<1> QED BY <1>1, FinalsAtFirst, FinalsStep, PTL DEF Spec

-------------------------------------------------------------------------------
(* What an episode has written *)

\* The pieces come in order; a stream numbers them as it publishes them.
EpisodeWell(e) ==
    /\ Len(exec[e].content) <= MaxPieces
    /\ exec[e].seq = IF exec[e].streaming THEN Len(exec[e].content) + 1 ELSE 1
    /\ \A k \in DOMAIN exec[e].content : exec[e].content[k] = <<e, k>>
    /\ exec[e].phase = "absent" => exec[e].content = <<>>

\* A chunk of a stream carries the piece of its number; one that is not of a
\* stream, if it has text, is the whole answer of an episode that is done.
Genuine(c) ==
    /\ exec[c.author].phase # "absent" /\ c.seq <= exec[c.author].seq
    /\ ~c.isLast => exec[c.author].streaming /\ c.text # <<>>
    /\ c.text # <<>> /\ exec[c.author].streaming =>
           /\ ~c.isLast /\ c.seq \in 1..(exec[c.author].seq - 1)
           /\ c.text = << <<c.author, c.seq>> >>
    /\ c.text # <<>> /\ ~exec[c.author].streaming =>
           /\ c.seq = 0 /\ c.isLast /\ c.text = exec[c.author].content
           /\ exec[c.author].phase # "running"

\* The texts of one episode are numbered in the order of the topic.
InOrder ==
    \A i, j \in DOMAIN topic :
        /\ i < j /\ topic[i].author = topic[j].author
        /\ topic[i].text # <<>> /\ topic[j].text # <<>>
        => topic[i].seq < topic[j].seq

Written ==
    /\ Typed
    /\ \A e \in Episodes : EpisodeWell(e)
    /\ \A i \in DOMAIN topic : Genuine(topic[i])
    /\ InOrder

Counted ==
    /\ pending \in Nat /\ events \in Nat /\ agg \in {"idle", "sent"}
    /\ agg = "sent" => events > 0
    /\ faults \in 0..MaxFaults

\* An episode moves on: nobody else does, and what it has written stays true.
MovesOn(e) ==
    /\ exec' \in [Episodes -> EpisodeLike]
    /\ \A d \in Episodes : d = e \/ exec'[d] = exec[d]
    /\ exec'[e].streaming = exec[e].streaming
    /\ exec[e].seq <= exec'[e].seq
    /\ exec'[e].phase # "absent"
    /\ exec[e].phase = "absent" \/ exec[e].phase = "running"
         \/ (exec'[e].phase # "running" /\ exec'[e].content = exec[e].content
               /\ exec'[e].seq = exec[e].seq)

LEMMA GenuineStays ==
    ASSUME Written, NEW e \in Episodes, MovesOn(e), NEW c \in ChunkLike, Genuine(c)
    PROVE  Genuine(c)'
<1>1. c.author \in Episodes /\ exec[c.author] \in EpisodeLike /\ exec'[c.author] \in EpisodeLike
    BY DEF ChunkLike, Written, Typed, MovesOn
<1>2. CASE c.author # e
    <2>1. exec'[c.author] = exec[c.author]
        BY <1>1, <1>2 DEF MovesOn
    <2> QED BY <2>1 DEF Genuine
<1>3. CASE c.author = e
    <2>1. exec[e].seq \in Nat /\ exec'[e].seq \in Nat
        BY <1>1, <1>3 DEF EpisodeLike
    <2>2. c.seq \in 1..(exec[e].seq - 1) => c.seq \in 1..(exec'[e].seq - 1)
        BY <2>1 DEF MovesOn, ChunkLike
    <2>3. c.seq <= exec[e].seq => c.seq <= exec'[e].seq
        BY <2>1 DEF MovesOn, ChunkLike
    <2> QED BY <1>3, <2>2, <2>3 DEF Genuine, MovesOn
<1> QED BY <1>2, <1>3

\* Nothing is published.
LEMMA SilentKeeps ==
    ASSUME Written, NEW e \in Episodes, MovesOn(e), EpisodeWell(e)', UNCHANGED topic
    PROVE  Written'
<1>1. Typed'
    BY DEF Written, Typed, MovesOn
<1>2. \A d \in Episodes : EpisodeWell(d)'
    BY DEF Written, EpisodeWell, MovesOn
<1>3. \A i \in DOMAIN topic : topic[i] \in ChunkLike
    BY DEF Written, Typed
<1>4. \A i \in DOMAIN topic : Genuine(topic[i])'
    <2> SUFFICES ASSUME NEW i \in DOMAIN topic PROVE Genuine(topic[i])'
        OBVIOUS
    <2>1. PICK c \in ChunkLike : c = topic[i]
        BY <1>3
    <2>2. Genuine(c)'
        BY <2>1, GenuineStays DEF Written
    <2> QED BY <2>1, <2>2 DEF Genuine
<1> QED BY <1>1, <1>2, <1>4 DEF Written, InOrder

\* A chunk is published that is numbered after what its author wrote before.
LEMMA PublishedKeeps ==
    ASSUME Written, NEW e \in Episodes, MovesOn(e), EpisodeWell(e)',
           NEW c \in ChunkLike, topic' = Append(topic, c), c.author = e, Genuine(c)',
           c.text # <<>> => \A i \in DOMAIN topic :
               topic[i].author = e /\ topic[i].text # <<>> => topic[i].seq < c.seq
    PROVE  Written'
<1>1. Typed'
    BY DEF Written, Typed, MovesOn
<1>2. \A d \in Episodes : EpisodeWell(d)'
    BY ZenonT(60) DEF Written, EpisodeWell, MovesOn
<1>3. /\ Len(topic) \in Nat /\ DOMAIN topic = 1..Len(topic) /\ DOMAIN topic' = 1..(Len(topic) + 1)
      /\ \A i \in DOMAIN topic : topic[i] \in ChunkLike /\ topic'[i] = topic[i]
      /\ topic'[Len(topic) + 1] = c
    BY DEF Written, Typed
<1>4. \A i \in DOMAIN topic' : Genuine(topic[i])'
    <2> SUFFICES ASSUME NEW i \in DOMAIN topic' PROVE Genuine(topic[i])'
        OBVIOUS
    <2>1. CASE i \in DOMAIN topic
        <3>1. PICK d \in ChunkLike : d = topic[i] /\ d = topic'[i]
            BY <1>3, <2>1
        <3>2. Genuine(d)'
            BY <2>1, <3>1, GenuineStays DEF Written
        <3> QED BY <3>1, <3>2 DEF Genuine
    <2>2. CASE i = Len(topic) + 1
        <3>1. topic'[i] = c
            BY <1>3, <2>2
        <3> QED BY <3>1 DEF Genuine
    <2> QED BY <1>3, <2>1, <2>2
<1>5. InOrder'
    <2> SUFFICES ASSUME NEW i \in DOMAIN topic', NEW j \in DOMAIN topic', i < j,
                        topic'[i].author = topic'[j].author,
                        topic'[i].text # <<>>, topic'[j].text # <<>>
                 PROVE  topic'[i].seq < topic'[j].seq
        BY DEF InOrder
    <2>1. i \in DOMAIN topic /\ topic'[i] = topic[i]
        BY <1>3
    <2>2. CASE j \in DOMAIN topic
        <3>1. topic'[j] = topic[j]
            BY <1>3, <2>2
        <3> QED BY <2>1, <2>2, <3>1 DEF Written, InOrder
    <2>3. CASE j = Len(topic) + 1
        <3>1. topic'[j] = c
            BY <1>3, <2>3
        <3> QED BY <2>1, <3>1
    <2> QED BY <1>3, <2>2, <2>3
<1> QED BY <1>1, <1>2, <1>4, <1>5 DEF Written

\* Only the phase changes.
LEMMA PhaseMoves ==
    ASSUME Written, NEW e \in Episodes, NEW p \in Phases \ {"absent"},
           exec' = [exec EXCEPT ![e].phase = p],
           exec[e].phase \in {"absent", "running"} \/ p # "running"
    PROVE  /\ MovesOn(e) /\ EpisodeWell(e)'
           /\ exec'[e].phase = p /\ exec'[e].content = exec[e].content
           /\ exec'[e].seq = exec[e].seq
<1>1. exec[e] \in EpisodeLike /\ exec[e].seq \in Nat
    BY DEF Written, Typed, EpisodeLike
<1>2. exec' = [exec EXCEPT ![e] = [exec[e] EXCEPT !.phase = p]]
    OBVIOUS
<1>3. exec'[e] = [exec[e] EXCEPT !.phase = p] /\ \A d \in Episodes : d = e \/ exec'[d] = exec[d]
    BY <1>2 DEF Written, Typed
<1>4. /\ exec'[e].phase = p /\ exec'[e].content = exec[e].content
      /\ exec'[e].seq = exec[e].seq /\ exec'[e].streaming = exec[e].streaming
      /\ exec'[e] \in EpisodeLike
    BY <1>1, <1>3 DEF EpisodeLike
<1>5. exec' \in [Episodes -> EpisodeLike]
    BY <1>2, <1>3, <1>4 DEF Written, Typed
<1>6. MovesOn(e)
    BY <1>1, <1>3, <1>4, <1>5 DEF MovesOn
<1>7. EpisodeWell(e)'
    BY <1>4 DEF Written, EpisodeWell
<1> QED BY <1>4, <1>6, <1>7

\* What ProcessUnit does to its episode.
LEMMA PieceProduced ==
    ASSUME Written, NEW e \in Episodes, ProcessUnit(e)
    PROVE  /\ MovesOn(e) /\ EpisodeWell(e)'
           /\ exec'[e].phase = "running" /\ exec[e].phase = "running"
           /\ exec[e].streaming =>
                /\ exec'[e].seq = exec[e].seq + 1 /\ exec[e].seq = Len(exec[e].content) + 1
                /\ SendStreamChunk(e, << <<e, exec[e].seq>> >>, exec[e].seq, FALSE)
           /\ ~exec[e].streaming => UNCHANGED <<topic, faults>>
<1>1. /\ exec[e] \in EpisodeLike /\ exec[e].seq \in Nat /\ exec[e].content \in Seq(Pieces)
      /\ Len(exec[e].content) \in Nat /\ Len(exec[e].content) < MaxPieces
      /\ exec[e].phase = "running" /\ MaxPieces \in Nat
    BY SessionStreamAssumption DEF Written, Typed, EpisodeLike, Texts, ProcessUnit
<1>2. PICK piece : piece = <<e, Len(exec[e].content) + 1>>
    OBVIOUS
<1>3. PICK seq : seq = IF exec[e].streaming THEN exec[e].seq + 1 ELSE exec[e].seq
    OBVIOUS
<1>4. PICK content : content = Append(exec[e].content, piece)
    OBVIOUS
<1>5. piece \in Pieces /\ seq \in Nat /\ exec[e].seq <= seq
    BY <1>1, <1>2, <1>3, SMTT(30) DEF Pieces
<1>6. /\ content \in Texts /\ Len(content) = Len(exec[e].content) + 1
      /\ DOMAIN content = 1..(Len(exec[e].content) + 1)
      /\ \A k \in 1..Len(exec[e].content) : content[k] = exec[e].content[k]
      /\ content[Len(exec[e].content) + 1] = piece
    BY <1>1, <1>4, <1>5 DEF Texts
<1>7. exec' = [exec EXCEPT ![e] = [exec[e] EXCEPT !.content = content, !.seq = seq]]
    BY <1>2, <1>3, <1>4 DEF ProcessUnit
<1>8. /\ exec'[e] = [exec[e] EXCEPT !.content = content, !.seq = seq]
      /\ \A d \in Episodes : d = e \/ exec'[d] = exec[d]
    BY <1>7 DEF Written, Typed
<1>9. /\ exec'[e].phase = "running" /\ exec'[e].content = content
      /\ exec'[e].seq = seq /\ exec'[e].streaming = exec[e].streaming
      /\ exec'[e] \in EpisodeLike
    BY <1>1, <1>5, <1>6, <1>8 DEF EpisodeLike
<1>10. exec' \in [Episodes -> EpisodeLike]
    BY <1>7, <1>8, <1>9 DEF Written, Typed
<1>11. MovesOn(e)
    BY <1>1, <1>5, <1>8, <1>9, <1>10 DEF MovesOn
<1>12. EpisodeWell(e)'
    <2>1. EpisodeWell(e)
        BY DEF Written
    <2>2. DOMAIN exec[e].content = 1..Len(exec[e].content)
        BY <1>1
    <2>3. \A k \in DOMAIN content : content[k] = <<e, k>>
        BY <1>1, <1>2, <1>6, <2>1, <2>2 DEF EpisodeWell
    <2>4. Len(content) <= MaxPieces
        BY <1>1, <1>6
    <2>5. seq = IF exec[e].streaming THEN Len(content) + 1 ELSE 1
        BY <1>1, <1>3, <1>6, <2>1 DEF EpisodeWell
    <2> QED BY <1>9, <2>3, <2>4, <2>5 DEF EpisodeWell
<1>13. exec[e].streaming => exec[e].seq = Len(exec[e].content) + 1
    BY DEF Written, EpisodeWell
<1> QED BY <1>1, <1>2, <1>3, <1>9, <1>11, <1>12, <1>13 DEF ProcessUnit

\* Every step of an episode keeps what was written true.
LEMMA EpisodeKeeps ==
    ASSUME Written, NEW e \in Episodes,
           Begin(e) \/ EpisodeStep(e) \/ UnitFails(e) \/ Redeliver(e)
    PROVE  Written'
<1> DEFINE Error == [author |-> e, seq |-> 0, text |-> <<>>, isLast |-> TRUE, error |-> TRUE]
<1>1. exec[e] \in EpisodeLike /\ exec[e].seq \in Nat
    BY DEF Written, Typed, EpisodeLike
<1>2. ASSUME MovesOn(e), EpisodeWell(e)', SendError(e) \/ UNCHANGED topic PROVE Written'
    <2>1. PICK c : c = Error
        OBVIOUS
    <2>2. c \in ChunkLike /\ c.author = e /\ c.text = <<>> /\ c.isLast /\ c.seq = 0
        BY <2>1 DEF ChunkLike, Texts
    <2>3. exec'[e].seq \in Nat
        BY <1>2 DEF MovesOn, EpisodeLike
    <2>4. Genuine(c)'
        BY <1>2, <2>2, <2>3 DEF Genuine, MovesOn
    <2>5. topic' = topic \/ topic' = Append(topic, c)
        BY <1>2, <2>1 DEF SendError
    <2> QED BY <1>2, <2>2, <2>4, <2>5, SilentKeeps, PublishedKeeps
<1>3. ASSUME NEW p \in Phases \ {"absent"}, exec' = [exec EXCEPT ![e].phase = p],
             exec[e].phase \in {"absent", "running"} \/ p # "running",
             SendError(e) \/ UNCHANGED topic
      PROVE  Written'
    BY <1>2, <1>3, PhaseMoves
<1>4. CASE Begin(e) \/ Continue(e) \/ SendCompletion(e) \/ Redeliver(e)
    BY <1>3, <1>4 DEF Begin, Continue, SendCompletion, Redeliver, Phases
<1>5. CASE UnitFails(e)
    <2>1. CASE exec' = [exec EXCEPT ![e].phase = "over"]
        BY <1>3, <1>5, <2>1 DEF UnitFails, Phases
    <2>2. CASE exec' = exec
        <3>1. MovesOn(e) /\ EpisodeWell(e)'
            BY <1>1, <1>5, <2>2 DEF UnitFails, MovesOn, EpisodeWell, Written, Typed
        <3> QED BY <1>2, <1>5, <3>1 DEF UnitFails
    <2> QED BY <1>5, <2>1, <2>2 DEF UnitFails
<1>6. CASE Answer(e)
    <2>1. /\ MovesOn(e) /\ EpisodeWell(e)' /\ exec[e].phase = "running"
          /\ exec'[e].phase = "completing" /\ exec'[e].content = exec[e].content
          /\ exec'[e].streaming = exec[e].streaming /\ exec'[e].seq = exec[e].seq
        BY <1>6, PhaseMoves DEF Answer, Phases, MovesOn
    <2>2. ASSUME NEW text \in Texts, NEW seq \in {0, exec[e].seq},
                 SendStreamChunk(e, text, seq, TRUE),
                 exec[e].streaming => text = <<>>,
                 ~exec[e].streaming => seq = 0 /\ text = exec[e].content
          PROVE  Written'
        <3>1. PICK c : c = [author |-> e, seq |-> seq, text |-> text, isLast |-> TRUE, error |-> FALSE]
            OBVIOUS
        <3>2. /\ c \in ChunkLike /\ c.author = e /\ c.seq = seq /\ c.text = text /\ c.isLast
            BY <1>1, <3>1 DEF ChunkLike
        <3>3. topic' = topic \/ topic' = Append(topic, c)
            BY <2>2, <3>1 DEF SendStreamChunk, Publish
        <3>4. Genuine(c)'
            BY <1>1, <2>1, <2>2, <3>2 DEF Genuine
        <3>5. c.text # <<>> => \A i \in DOMAIN topic : topic[i].author = e => topic[i].text = <<>>
            <4> SUFFICES ASSUME c.text # <<>>, NEW i \in DOMAIN topic, topic[i].author = e,
                                topic[i].text # <<>>
                         PROVE  FALSE
                OBVIOUS
            <4>1. ~exec[e].streaming
                BY <2>2, <3>2
            <4> QED BY <2>1, <4>1 DEF Written, Genuine
        <3> QED BY <2>1, <3>2, <3>3, <3>4, <3>5, SilentKeeps, PublishedKeeps
    <2>3. <<>> \in Texts /\ exec[e].content \in Texts
        BY <1>1 DEF EpisodeLike, Texts
    <2> QED BY <1>1, <1>6, <2>2, <2>3 DEF Answer
<1>7. CASE ProcessUnit(e)
    <2>1. MovesOn(e) /\ EpisodeWell(e)'
        BY <1>7, PieceProduced
    <2>2. CASE ~exec[e].streaming
        BY <1>7, <2>1, <2>2, PieceProduced, SilentKeeps
    <2>3. CASE exec[e].streaming
        <3>1. /\ exec'[e].seq = exec[e].seq + 1 /\ exec[e].seq \in 1..MaxPieces
              /\ exec'[e].phase = "running" /\ exec'[e].streaming
              /\ SendStreamChunk(e, << <<e, exec[e].seq>> >>, exec[e].seq, FALSE)
            <4>1. exec[e].seq = Len(exec[e].content) + 1 /\ Len(exec[e].content) < MaxPieces
                BY <1>7, <2>3, PieceProduced DEF ProcessUnit
            <4>2. Len(exec[e].content) \in Nat /\ MaxPieces \in Nat
                BY <1>1, SessionStreamAssumption DEF EpisodeLike, Texts
            <4>3. exec[e].seq \in 1..MaxPieces
                BY <4>1, <4>2
            <4> QED BY <1>7, <2>1, <2>3, <4>3, PieceProduced DEF MovesOn
        <3>2. PICK seq : seq = exec[e].seq
            OBVIOUS
        <3>3. PICK text : text = << <<e, seq>> >>
            OBVIOUS
        <3>4. text \in Texts /\ text # <<>> /\ seq \in 1..MaxPieces /\ seq \in Nat
            BY <3>1, <3>2, <3>3 DEF Texts, Pieces
        <3>5. PICK c : c = [author |-> e, seq |-> seq, text |-> text, isLast |-> FALSE, error |-> FALSE]
            OBVIOUS
        <3>6. /\ c \in ChunkLike /\ c.author = e /\ c.seq = seq /\ c.text = text /\ ~c.isLast
            BY <3>4, <3>5 DEF ChunkLike
        <3>7. topic' = topic \/ topic' = Append(topic, c)
            BY <3>1, <3>2, <3>3, <3>5 DEF SendStreamChunk, Publish
        <3>8. seq \in 1..(exec'[e].seq - 1) /\ seq <= exec'[e].seq
            BY <3>1, <3>2, <3>4
        <3>9. Genuine(c)'
            BY <3>1, <3>3, <3>4, <3>6, <3>8 DEF Genuine
        <3>10. \A i \in DOMAIN topic : topic[i].author = e /\ topic[i].text # <<>> => topic[i].seq < c.seq
            <4> SUFFICES ASSUME NEW i \in DOMAIN topic, topic[i].author = e, topic[i].text # <<>>
                         PROVE  topic[i].seq < seq
                BY <3>6
            <4>1. topic[i].seq \in 1..(seq - 1)
                BY <2>3, <3>2 DEF Written, Genuine
            <4> QED BY <3>4, <4>1
        <3> QED BY <2>1, <3>6, <3>7, <3>9, <3>10, SilentKeeps, PublishedKeeps
    <2> QED BY <2>2, <2>3
<1> QED BY <1>4, <1>5, <1>6, <1>7 DEF EpisodeStep

LEMMA CountedStep == Counted /\ [Next]_vars => Counted'
<1> SUFFICES ASSUME Counted, [Next]_vars PROVE Counted'
    OBVIOUS
<1>1. faults' \in 0..MaxFaults
    <2>1. UNCHANGED faults \/ (faults < MaxFaults /\ faults' = faults + 1)
        BY DEF Next, Begin, EpisodeStep, ProcessUnit, Continue, Answer, SendCompletion, UnitFails,
               Redeliver, Aggregate, AggregatePartial, AckCompletion, AggregatorCrash,
               SendStreamChunk, Publish, Fault, vars
    <2> QED BY <2>1, SessionStreamAssumption DEF Counted
<1>2. pending' \in Nat
    <2>1. pending' \in {pending, pending + 1} \/ (pending > 0 /\ pending' = pending - 1)
        BY DEF Next, Begin, EpisodeStep, ProcessUnit, Continue, Answer, SendCompletion, UnitFails,
               Redeliver, Aggregate, AggregatePartial, AckCompletion, AggregatorCrash, vars
    <2> QED BY <2>1 DEF Counted
<1>3. events' \in Nat /\ agg' \in {"idle", "sent"} /\ (agg' = "sent" => events' > 0)
    <2>1. \/ events' \in {events, events + 1} /\ (agg' = agg \/ agg' = "idle")
          \/ events' = events /\ events > 0 /\ agg' = "sent"
          \/ events' = events - 1 /\ events > 0 /\ agg' = agg /\ agg = "idle"
          \/ events' = events - 1 /\ agg = "sent" /\ agg' = "idle"
        BY DEF Next, Begin, EpisodeStep, ProcessUnit, Continue, Answer, SendCompletion, UnitFails,
               Redeliver, Aggregate, AggregatePartial, AckCompletion, AggregatorCrash,
               sendFinalResult, vars
    <2> QED BY <2>1 DEF Counted
<1> QED BY <1>1, <1>2, <1>3 DEF Counted

LEMMA WrittenStep == Written /\ [Next]_vars => Written'
<1> SUFFICES ASSUME Written, [Next]_vars PROVE Written'
    OBVIOUS
<1>1. ASSUME UNCHANGED <<topic, exec>> PROVE Written'
    BY <1>1 DEF Written, Typed, EpisodeWell, Genuine, InOrder
<1> QED BY <1>1, EpisodeKeeps
        DEF Next, Aggregate, AggregatePartial, AckCompletion, AggregatorCrash, vars

LEMMA WrittenAtFirst == Init => Written /\ Counted
<1> SUFFICES ASSUME Init PROVE Written /\ Counted
    OBVIOUS
<1>1. Typed
    BY DEF Init, Typed, EpisodeLike, Phases, Texts
<1>2. \A e \in Episodes : EpisodeWell(e)
    BY SessionStreamAssumption DEF Init, EpisodeWell
<1>3. Counted
    BY SessionStreamAssumption DEF Init, Counted
<1> QED BY <1>1, <1>2, <1>3 DEF Init, Written, InOrder

LEMMA WrittenTypes == Written /\ Counted => TypeOK
<1> SUFFICES ASSUME Written, Counted PROVE TypeOK
    OBVIOUS
<1>1. ASSUME NEW e \in Episodes
      PROVE  /\ exec[e].phase \in Phases /\ exec[e].seq \in 1..(MaxPieces + 1)
             /\ exec[e].content \in Texts /\ exec[e].streaming \in BOOLEAN
    <2>1. exec[e] \in EpisodeLike /\ EpisodeWell(e)
        BY DEF Written, Typed
    <2>2. Len(exec[e].content) \in Nat /\ MaxPieces \in Nat
        BY <2>1, SessionStreamAssumption DEF EpisodeLike, Texts
    <2> QED BY <2>1, <2>2 DEF EpisodeLike, EpisodeWell
<1>2. ASSUME NEW i \in DOMAIN topic PROVE topic[i] \in Chunks
    <2>1. topic[i] \in ChunkLike /\ Genuine(topic[i])
        BY <1>2 DEF Written, Typed
    <2>2. PICK c \in ChunkLike : c = topic[i] /\ Genuine(c)
        BY <2>1
    <2>3. c.author \in Episodes /\ c.seq \in Nat
        BY DEF ChunkLike
    <2>4. exec[c.author].seq \in 1..(MaxPieces + 1)
        BY <1>1, <2>3
    <2>5. c.seq \in 0..(MaxPieces + 1)
        BY <2>2, <2>3, <2>4, SessionStreamAssumption DEF Genuine
    <2> QED BY <2>2, <2>5 DEF ChunkLike, Chunks
<1> QED BY <1>1, <1>2 DEF TypeOK, Counted

(* Types: however episodes, retries and faults follow one another, no chunk   *)
(* is numbered beyond the pieces of an episode, and no more completion events *)
(* are acknowledged than were delivered.                                      *)
THEOREM TypesKept == Spec => []TypeOK
<1>1. Written /\ Counted /\ [Next]_vars => Written' /\ Counted'
    BY WrittenStep, CountedStep
<1> QED BY <1>1, WrittenAtFirst, WrittenTypes, PTL DEF Spec

-------------------------------------------------------------------------------
(* Texts put together *)

\* Functions are the same when their values are.
LEMMA SameFunction ==
    ASSUME NEW S, NEW T, NEW f \in [S -> T], NEW g \in [S -> T], \A x \in S : f[x] = g[x]
    PROVE  f = g
    OBVIOUS

\* f[n] is the first n texts of s one after the other.
Joins(f, s) ==
    /\ f[1] = s[1]
    /\ \A n \in 2..Len(s) : f[n] = f[n - 1] \o s[n]

LEMMA JoinsExist ==
    ASSUME NEW S, NEW s \in Seq(Seq(S)), Len(s) # 0
    PROVE  \E f \in [1..Len(s) -> Seq(S)] :
               f = [i \in 1..Len(s) |-> IF i = 1 THEN s[i] ELSE f[i - 1] \o s[i]]
<1> DEFINE Runs(f, n) == f = [i \in 1..n |-> IF i = 1 THEN s[i] ELSE f[i - 1] \o s[i]]
<1> DEFINE Good(n) == \E f \in [1..n -> Seq(S)] : Runs(f, n)
<1> DEFINE Bad == {n \in 1..Len(s) : ~Good(n)}
<1>1. Len(s) \in Nat /\ Len(s) \in 1..Len(s) /\ \A i \in 1..Len(s) : s[i] \in Seq(S)
    OBVIOUS
<1>2. Good(1)
    <2>1. PICK f : f = [i \in 1..1 |-> s[i]]
        OBVIOUS
    <2>2. f \in [1..1 -> Seq(S)] /\ Runs(f, 1)
        BY <1>1, <2>1
    <2> QED BY <2>2
<1>3. ASSUME NEW n \in 2..Len(s), Good(n - 1) PROVE Good(n)
    <2>1. n \in Nat /\ n - 1 \in 1..(n - 1) /\ n - 1 \in Nat /\ n \in 1..Len(s) /\ n # n - 1
        BY <1>1
    <2>2. PICK g \in [1..(n - 1) -> Seq(S)] : Runs(g, n - 1)
        BY <1>3
    <2>3. PICK last : last = g[n - 1] \o s[n]
        OBVIOUS
    <2>4. g[n - 1] \in Seq(S) /\ s[n] \in Seq(S)
        BY <1>1, <2>1, <2>2
    <2>5. last \in Seq(S)
        BY <2>3, <2>4
    <2>6. PICK f : f = [i \in 1..n |-> IF i = n THEN last ELSE g[i]]
        OBVIOUS
    <2>7. \A i \in 1..(n - 1) : i \in 1..n /\ i # n
        BY <2>1
    <2>8. n \in 1..n /\ f[n] = last
        BY <2>1, <2>6
    <2>9. \A i \in 1..(n - 1) : f[i] = g[i] /\ g[i] \in Seq(S)
        BY <2>2, <2>6, <2>7
    <2>10. \A i \in 1..n : i = n \/ i \in 1..(n - 1)
        BY <2>1
    <2>11. f \in [1..n -> Seq(S)]
        BY <2>5, <2>6, <2>9, <2>10
    <2>12. ASSUME NEW i \in 1..n
           PROVE  f[i] = IF i = 1 THEN s[i] ELSE f[i - 1] \o s[i]
        <3>1. CASE i = n
            <4>1. f[n - 1] = g[n - 1] /\ n # 1
                BY <2>1, <2>9
            <4> QED BY <2>3, <2>8, <3>1, <4>1
        <3>2. CASE i \in 1..(n - 1)
            <4>1. g[i] = IF i = 1 THEN s[i] ELSE g[i - 1] \o s[i]
                BY <2>2, <3>2
            <4>2. i # 1 => i - 1 \in 1..(n - 1)
                BY <2>1, <3>2
            <4>3. f[i] = g[i] /\ (i # 1 => f[i - 1] = g[i - 1])
                BY <2>9, <3>2, <4>2
            <4> QED BY <4>1, <4>3
        <3> QED BY <2>10, <3>1, <3>2
    <2>13. Runs(f, n)
        BY <2>6, <2>12
    <2> QED BY <2>11, <2>13
<1> HIDE DEF Good
<1>4. ASSUME Bad # {} PROVE FALSE
    <2>1. Bad \subseteq Nat
        BY <1>1
    <2>2. PICK n \in Bad : \A m \in Bad : n <= m
        <3> HIDE DEF Bad
        <3> QED BY <1>4, <2>1, LeastNatural
    <2>3. n \in 2..Len(s) /\ n - 1 \in 1..Len(s) /\ n - 1 < n
        BY <1>1, <1>2, <2>2
    <2>4. Good(n - 1)
        BY <2>2, <2>3
    <2> QED BY <1>3, <2>2, <2>3, <2>4
<1>5. Good(Len(s))
    BY <1>1, <1>4
<1> QED BY <1>5 DEF Good

\* FlattenSeq joins its sequences from left to right.
LEMMA FlattenJoins ==
    ASSUME NEW S, NEW s \in Seq(Seq(S)), Len(s) # 0
    PROVE  \E f \in [1..Len(s) -> Seq(S)] : Joins(f, s) /\ FlattenSeq(s) = f[Len(s)]
<1>1. Len(s) \in Nat /\ 1 \in 1..Len(s) /\ \A n \in 2..Len(s) : n \in 1..Len(s) /\ n # 1
    OBVIOUS
<1>2. PICK g \in [1..Len(s) -> Seq(S)] :
          g = [i \in 1..Len(s) |-> IF i = 1 THEN s[i] ELSE g[i - 1] \o s[i]]
    BY JoinsExist
<1>3. PICK f : f = CHOOSE h : h = [i \in 1..Len(s) |-> IF i = 1 THEN s[i] ELSE h[i - 1] \o s[i]]
    OBVIOUS
<1>4. f = [i \in 1..Len(s) |-> IF i = 1 THEN s[i] ELSE f[i - 1] \o s[i]]
    BY <1>2, <1>3
<1>5. FlattenSeq(s) = f[Len(s)]
    BY <1>3 DEF FlattenSeq
<1>6. ASSUME NEW h, h = [i \in 1..Len(s) |-> IF i = 1 THEN s[i] ELSE h[i - 1] \o s[i]]
      PROVE  h[1] = s[1] /\ \A n \in 2..Len(s) : h[n] = h[n - 1] \o s[n]
    BY <1>1, <1>6
<1>7. Joins(f, s) /\ Joins(g, s)
    BY <1>2, <1>4, <1>6 DEF Joins
<1>8. f = g
    <2> DEFINE Bad == {n \in 1..Len(s) : f[n] # g[n]}
    <2>1. ASSUME Bad # {} PROVE FALSE
        <3>1. Bad \subseteq Nat
            BY <1>1
        <3>2. PICK n \in Bad : \A m \in Bad : n <= m
            <4> HIDE DEF Bad
            <4> QED BY <2>1, <3>1, LeastNatural
        <3>3. n # 1
            BY <1>7, <3>2 DEF Joins
        <3>4. n \in 2..Len(s) /\ n - 1 \in 1..Len(s) /\ n - 1 < n
            BY <1>1, <3>2, <3>3
        <3>5. f[n - 1] = g[n - 1]
            BY <3>2, <3>4
        <3> QED BY <1>7, <3>2, <3>4, <3>5 DEF Joins
    <2>2. \A n \in 1..Len(s) : f[n] = g[n]
        BY <2>1
    <2> QED BY <1>2, <1>4, <2>2, SMTT(30)
<1> QED BY <1>5, <1>7, <1>8

\* What holds of 1 and is passed on from each number to the next.
LEMMA UpTo ==
    ASSUME NEW n \in Nat, NEW P, 1 \in P, \A i \in 2..n : i - 1 \in P => i \in P
    PROVE  \A i \in 1..n : i \in P
<1> DEFINE Bad == {i \in 1..n : i \notin P}
<1>1. ASSUME Bad # {} PROVE FALSE
    <2>1. Bad \subseteq Nat
        OBVIOUS
    <2>2. PICK i \in Bad : \A j \in Bad : i <= j
        <3> HIDE DEF Bad
        <3> QED BY <1>1, <2>1, LeastNatural
    <2>3. i \in 2..n /\ i - 1 \in 1..n /\ i - 1 < i
        BY <2>2
    <2>4. i - 1 \in P
        BY <2>2, <2>3
    <2> QED BY <2>2, <2>3, <2>4
<1> QED BY <1>1

\* A text put where everything from there on was empty comes at the end.
LEMMA AppendedText ==
    ASSUME NEW S, NEW s \in Seq(Seq(S)), NEW t \in Seq(Seq(S)),
           Len(s) # 0, Len(t) = Len(s), NEW k \in 1..Len(s),
           \A i \in 1..Len(s) : i = k \/ t[i] = s[i],
           \A i \in 1..Len(s) : i >= k => s[i] = <<>>
    PROVE  FlattenSeq(t) = FlattenSeq(s) \o t[k]
<1>1. PICK f \in [1..Len(s) -> Seq(S)] : Joins(f, s) /\ FlattenSeq(s) = f[Len(s)]
    BY FlattenJoins
<1>2. PICK g \in [1..Len(s) -> Seq(S)] : Joins(g, t) /\ FlattenSeq(t) = g[Len(s)]
    BY FlattenJoins, ZenonT(60)
<1>0. Len(s) \in Nat \ {0}
    OBVIOUS
<1>9. k \in Nat /\ Len(s) \in 1..Len(s) /\ Len(s) >= k /\ 1 \in 1..Len(s)
    BY <1>0
<1>10. t[k] \in Seq(S)
    OBVIOUS
<1>11. \A i \in 1..Len(s) : f[i] \in Seq(S)
    BY <1>1
<1>12. \A i \in 1..Len(s) : g[i] \in Seq(S)
    BY <1>2
<1>3. /\ Len(s) \in Nat \ {0} /\ k \in Nat /\ t[k] \in Seq(S) /\ Len(s) \in 1..Len(s)
      /\ \A i \in 1..Len(s) : f[i] \in Seq(S) /\ g[i] \in Seq(S)
    BY <1>0, <1>9, <1>10, <1>11, <1>12
<1>4. \A x \in Seq(S) : x \o <<>> = x /\ <<>> \o x = x
    OBVIOUS
<1> DEFINE P == {i \in 1..Len(s) : (i < k => g[i] = f[i]) /\ (i >= k => g[i] = f[i] \o t[k])}
<1>5. 1 \in P
    <2>0. ASSUME 1 < k => g[1] = f[1], 1 >= k => g[1] = f[1] \o t[k] PROVE 1 \in P
        BY <1>9, <2>0 DEF P
    <2> HIDE DEF P
    <2>1. f[1] = s[1] /\ g[1] = t[1] /\ 1 \in 1..Len(s)
        BY <1>1, <1>2, <1>3 DEF Joins
    <2>2. CASE 1 < k
        <3>1. t[1] = s[1] /\ ~(1 >= k)
            BY <1>3, <2>1, <2>2
        <3> QED BY <2>0, <2>1, <3>1
    <2>3. CASE k = 1
        <3>1. s[1] = <<>> /\ ~(1 < k)
            BY <2>1, <2>3
        <3>2. g[1] = f[1] \o t[k]
            BY <1>3, <1>4, <2>1, <2>3, <3>1
        <3> QED BY <2>0, <3>1, <3>2
    <2>4. 1 < k \/ k = 1
        BY <1>9
    <2> QED BY <2>2, <2>3, <2>4
<1>6. ASSUME NEW i \in 2..Len(s), i - 1 \in P PROVE i \in P
    <2>1. f[i] = f[i - 1] \o s[i] /\ g[i] = g[i - 1] \o t[i]
        BY <1>1, <1>2, <1>6 DEF Joins
    <2>6. i \in 1..Len(s) /\ i - 1 \in 1..Len(s) /\ i \in Nat /\ i - 1 < i
        <3>1. \A j \in 2..Len(s) : j \in 1..Len(s) /\ j - 1 \in 1..Len(s) /\ j \in Nat /\ j - 1 < j
            BY <1>0
        <3> QED BY <1>6, <3>1
    <2>2. /\ i \in 1..Len(s) /\ i - 1 \in 1..Len(s) /\ f[i - 1] \in Seq(S) /\ g[i - 1] \in Seq(S)
          /\ i \in Nat /\ i - 1 < i
        BY <1>11, <1>12, <2>6
    <2>0. /\ i - 1 < k => g[i - 1] = f[i - 1]
          /\ i - 1 >= k => g[i - 1] = f[i - 1] \o t[k]
        BY <1>6
    <2> HIDE DEF P
    <2>7. ASSUME i < k => g[i] = f[i], i >= k => g[i] = f[i] \o t[k] PROVE i \in P
        BY <2>2, <2>7 DEF P
    <2>3. CASE i < k
        <3>1. t[i] = s[i] /\ g[i - 1] = f[i - 1]
            BY <1>3, <2>0, <2>2, <2>3
        <3>2. g[i] = f[i] /\ ~(i >= k)
            BY <1>3, <2>1, <2>2, <2>3, <3>1
        <3> QED BY <2>7, <3>2
    <2>4. CASE i = k
        <3>1. g[i - 1] = f[i - 1] /\ s[i] = <<>>
            BY <1>3, <2>0, <2>2, <2>4
        <3>2. f[i] = f[i - 1]
            BY <1>4, <2>1, <2>2, <3>1
        <3>3. g[i] = f[i] \o t[k] /\ ~(i < k)
            BY <1>3, <2>1, <2>2, <2>4, <3>1, <3>2
        <3> QED BY <2>7, <3>3
    <2>5. CASE i > k
        <3>0. i - 1 >= k /\ i # k /\ i >= k
            <4>1. i \in Nat /\ k \in Nat
                BY <1>9, <2>6
            <4> QED BY <2>5, <4>1
        <3>4. s[i] = <<>>
            BY <2>2, <3>0
        <3>1. g[i - 1] = f[i - 1] \o t[k] /\ s[i] = <<>> /\ t[i] = <<>>
            BY <2>0, <2>2, <3>0, <3>4
        <3>2. f[i] = f[i - 1] /\ g[i] = g[i - 1]
            BY <1>4, <2>1, <2>2, <3>1
        <3>3. g[i] = f[i] \o t[k] /\ ~(i < k)
            BY <1>3, <2>2, <2>5, <3>1, <3>2
        <3> QED BY <2>7, <3>3
    <2> QED BY <1>3, <2>2, <2>3, <2>4, <2>5
<1>7. Len(s) \in P
    <2> HIDE DEF P
    <2> QED BY <1>3, <1>5, <1>6, UpTo
<1> QED BY <1>1, <1>2, <1>7, <1>9

\* Texts that are all empty.
LEMMA EmptyTexts ==
    ASSUME NEW S, NEW s \in Seq(Seq(S)), Len(s) # 0, \A i \in 1..Len(s) : s[i] = <<>>
    PROVE  FlattenSeq(s) = <<>>
<1>1. PICK f \in [1..Len(s) -> Seq(S)] : Joins(f, s) /\ FlattenSeq(s) = f[Len(s)]
    BY FlattenJoins
<1>2. Len(s) \in Nat \ {0} /\ 1 \in 1..Len(s) /\ Len(s) \in 1..Len(s)
    OBVIOUS
<1> DEFINE P == {i \in 1..Len(s) : f[i] = <<>>}
<1>3. 1 \in P
    BY <1>1, <1>2 DEF Joins
<1>4. ASSUME NEW i \in 2..Len(s), i - 1 \in P PROVE i \in P
    <2>1. i \in 1..Len(s)
        BY <1>2, <1>4
    <2>2. f[i] = f[i - 1] \o s[i] /\ f[i - 1] = <<>> /\ s[i] = <<>>
        BY <1>1, <1>4, <2>1 DEF Joins
    <2> QED BY <2>1, <2>2
<1>5. Len(s) \in P
    <2> HIDE DEF P
    <2> QED BY <1>2, <1>3, <1>4, UpTo
<1> QED BY <1>1, <1>5

-------------------------------------------------------------------------------
(* The two readers *)

\* Reading message n changes the chunk of its number, if it has a text.
LEMMA ReadChunk ==
    ASSUME Typed, NEW n \in 1..Len(topic), NEW q
    PROVE  IF topic[n].seq = q /\ topic[n].text # <<>>
             THEN ChunkAt(q, n) = topic[n].text
             ELSE ChunkAt(q, n) = ChunkAt(q, n - 1)
<1>1. PICK W : W = {i \in 1..n : topic[i].seq = q /\ topic[i].text # <<>>}
    OBVIOUS
<1>2. PICK V : V = {i \in 1..(n - 1) : topic[i].seq = q /\ topic[i].text # <<>>}
    OBVIOUS
<1>3. /\ ChunkAt(q, n) = IF W = {} THEN <<>> ELSE topic[CHOOSE i \in W : \A j \in W : i >= j].text
      /\ ChunkAt(q, n - 1) = IF V = {} THEN <<>> ELSE topic[CHOOSE i \in V : \A j \in V : i >= j].text
    BY <1>1, <1>2 DEF ChunkAt
<1>4. n \in Nat /\ n \in 1..n /\ \A i \in 1..n : i <= n /\ (i = n \/ i \in 1..(n - 1))
    BY DEF Typed
<1>5. \A i \in 1..(n - 1) : i \in 1..n /\ i # n
    BY <1>4
<1>6. CASE topic[n].seq = q /\ topic[n].text # <<>>
    <2>1. n \in W /\ \A j \in W : j \in 1..n /\ n >= j
        BY <1>1, <1>4, <1>6
    <2>2. \A i \in W : (\A j \in W : i >= j) => i = n
        BY <1>4, <2>1
    <2>3. (CHOOSE i \in W : \A j \in W : i >= j) = n
        BY <2>1, <2>2
    <2> QED BY <1>3, <1>6, <2>1, <2>3
<1>7. CASE ~(topic[n].seq = q /\ topic[n].text # <<>>)
    <2>1. W = V
        BY <1>1, <1>2, <1>4, <1>5, <1>7
    <2> QED BY <1>3, <1>7, <2>1
<1> QED BY <1>6, <1>7

\* The chunks after the first n messages.
Read(n) == [k \in 1..(MaxPieces + 1) |-> ChunkAt(k - 1, n)]

LEMMA NothingRead == ASSUME Typed PROVE assemble(0) = <<>> /\ \A q : ChunkAt(q, 0) = <<>>
<1>1. \A q : ChunkAt(q, 0) = <<>>
    BY DEF ChunkAt
<1>2. PICK r : r = Read(0)
    OBVIOUS
<1>3. MaxPieces + 1 \in Nat /\ MaxPieces + 1 # 0
    BY SessionStreamAssumption
<1>4. r \in Seq(Texts) /\ Len(r) = MaxPieces + 1 /\ \A i \in 1..Len(r) : r[i] = <<>>
    <2>1. <<>> \in Texts
        BY DEF Texts
    <2>2. r = [k \in 1..(MaxPieces + 1) |-> <<>>]
        <3>1. \A k \in 1..(MaxPieces + 1) : ChunkAt(k - 1, 0) = <<>>
            BY <1>1
        <3> QED BY <1>2, <3>1 DEF Read
    <2> QED BY <1>3, <2>1, <2>2
<1>5. FlattenSeq(r) = <<>>
    BY <1>3, <1>4, EmptyTexts DEF Texts
<1> QED BY <1>1, <1>2, <1>5 DEF assemble, Read

\* A chunk is a text of the topic, or nothing.
LEMMA ChunkTyped ==
    ASSUME Typed, NEW n \in 0..Len(topic), NEW q PROVE ChunkAt(q, n) \in Texts
<1>1. PICK W : W = {i \in 1..n : topic[i].seq = q /\ topic[i].text # <<>>}
    OBVIOUS
<1>2. ChunkAt(q, n) = IF W = {} THEN <<>> ELSE topic[CHOOSE i \in W : \A j \in W : i >= j].text
    BY <1>1 DEF ChunkAt
<1>3. n \in Nat /\ Len(topic) \in Nat /\ W \subseteq 1..n /\ 1..n \subseteq 1..Len(topic)
    BY <1>1 DEF Typed
<1>4. CASE W # {}
    <2>1. \E i \in W : \A j \in W : i >= j
        BY <1>3, <1>4, GreatestNatural
    <2>2. (CHOOSE i \in W : \A j \in W : i >= j) \in 1..Len(topic)
        BY <1>3, <2>1
    <2>3. \A i \in 1..Len(topic) : topic[i].text \in Texts
        <3>1. \A i \in 1..Len(topic) : topic[i] \in ChunkLike
            BY DEF Typed
        <3> QED BY <3>1 DEF ChunkLike
    <2> QED BY <1>2, <1>4, <2>2, <2>3
<1> QED BY <1>2, <1>4 DEF Texts

LEMMA ReadTyped ==
    ASSUME Typed, NEW n \in 0..Len(topic)
    PROVE  /\ Read(n) \in Seq(Texts) /\ Len(Read(n)) = MaxPieces + 1 /\ MaxPieces + 1 # 0
           /\ \A k \in 1..(MaxPieces + 1) : Read(n)[k] = ChunkAt(k - 1, n)
           /\ assemble(n) = FlattenSeq(Read(n)) /\ assemble(n) \in Texts
<1>1. MaxPieces + 1 \in Nat /\ MaxPieces + 1 # 0
    BY SessionStreamAssumption
<1>2. PICK r : r = Read(n)
    OBVIOUS
<1>3. \A k \in 1..(MaxPieces + 1) : ChunkAt(k - 1, n) \in Texts
    BY ChunkTyped
<1>4. r \in [1..(MaxPieces + 1) -> Texts] /\ \A k \in 1..(MaxPieces + 1) : r[k] = ChunkAt(k - 1, n)
    BY <1>2, <1>3 DEF Read
<1>5. r \in Seq(Texts) /\ Len(r) = MaxPieces + 1
    BY <1>1, <1>4
<1>6. FlattenSeq(r) \in Texts
    <2>1. PICK f \in [1..Len(r) -> Texts] : FlattenSeq(r) = f[Len(r)]
        BY <1>1, <1>5, FlattenJoins DEF Texts
    <2>2. Len(r) \in 1..Len(r)
        BY <1>1, <1>5
    <2> QED BY <2>1, <2>2
<1>7. assemble(n) = FlattenSeq(r)
    BY <1>2 DEF assemble, Read
<1> QED BY <1>1, <1>2, <1>4, <1>5, <1>6, <1>7

\* A text has a number the aggregator sorts.
LEMMA TextNumbered ==
    ASSUME Written, NEW n \in DOMAIN topic, topic[n].text # <<>>
    PROVE  topic[n].seq \in 0..MaxPieces
<1>1. topic[n].author \in Episodes /\ topic[n].seq \in Nat
    <2>1. topic[n] \in ChunkLike
        BY DEF Written, Typed
    <2> QED BY <2>1 DEF ChunkLike
<1>2. PICK a \in Episodes : a = topic[n].author
    BY <1>1
<1>3. exec[a].content \in Seq(Pieces) /\ exec[a].streaming \in BOOLEAN /\ MaxPieces \in Nat
    BY <1>2, SessionStreamAssumption DEF Written, Typed, EpisodeLike, Texts
<1>4. Len(exec[a].content) \in Nat /\ Len(exec[a].content) <= MaxPieces
    BY <1>2, <1>3 DEF Written, EpisodeWell
<1>5. CASE exec[a].streaming
    <2>1. topic[n].seq \in 1..(exec[a].seq - 1) /\ exec[a].seq = Len(exec[a].content) + 1
        BY <1>2, <1>5 DEF Written, Genuine, EpisodeWell
    <2> QED BY <1>3, <1>4, <2>1
<1>6. CASE ~exec[a].streaming
    <2>1. topic[n].seq = 0
        BY <1>2, <1>6 DEF Written, Genuine
    <2> QED BY <1>3, <2>1
<1> QED BY <1>5, <1>6

\* While one episode writes, reading one more message appends its text, for the
\* aggregator as for the gateway.
LEMMA ReadOne ==
    ASSUME Written, NEW n \in 1..Len(topic), NEW e, \A i \in 1..n : topic[i].author = e
    PROVE  assemble(n) = assemble(n - 1) \o topic[n].text
<1>1. /\ Typed /\ Len(topic) \in Nat /\ n \in Nat /\ n - 1 \in 0..Len(topic) /\ n \in 0..Len(topic)
      /\ n \in DOMAIN topic
    BY DEF Written, Typed
<1>2. PICK s : s = Read(n - 1)
    OBVIOUS
<1>3. PICK t : t = Read(n)
    OBVIOUS
<1>4. /\ s \in Seq(Texts) /\ Len(s) = MaxPieces + 1 /\ MaxPieces + 1 # 0
      /\ \A k \in 1..(MaxPieces + 1) : s[k] = ChunkAt(k - 1, n - 1)
      /\ assemble(n - 1) = FlattenSeq(s) /\ assemble(n - 1) \in Texts
    BY <1>1, <1>2, ReadTyped
<1>5. /\ t \in Seq(Texts) /\ Len(t) = MaxPieces + 1
      /\ \A k \in 1..(MaxPieces + 1) : t[k] = ChunkAt(k - 1, n)
      /\ assemble(n) = FlattenSeq(t)
    BY <1>1, <1>3, ReadTyped
<1>6. CASE topic[n].text = <<>>
    <2>1. \A q : ChunkAt(q, n) = ChunkAt(q, n - 1)
        BY <1>1, <1>6, ReadChunk
    <2>2. assemble(n) = assemble(n - 1)
        BY <2>1 DEF assemble
    <2>3. assemble(n - 1) \o <<>> = assemble(n - 1)
        BY <1>4 DEF Texts
    <2> QED BY <1>6, <2>2, <2>3
<1>7. CASE topic[n].text # <<>>
    <2>1. PICK k : k = topic[n].seq + 1
        OBVIOUS
    <2>2. topic[n].seq \in 0..MaxPieces
        BY <1>1, <1>7, TextNumbered
    <2>3. k \in 1..Len(s) /\ k \in Nat /\ k - 1 = topic[n].seq /\ MaxPieces \in Nat
        BY <1>4, <2>1, <2>2, SessionStreamAssumption, SMTT(30)
    <2>4. t[k] = topic[n].text
        <3>1. ChunkAt(topic[n].seq, n) = topic[n].text
            BY <1>1, <1>7, ReadChunk
        <3> QED BY <1>4, <1>5, <2>3, <3>1
    <2>5. \A i \in 1..Len(s) : i = k \/ t[i] = s[i]
        <3>1. ASSUME NEW i \in 1..Len(s), i # k PROVE t[i] = s[i]
            <4>1. i - 1 # topic[n].seq /\ i \in 1..(MaxPieces + 1)
                BY <1>4, <2>1, <2>2, <2>3, <3>1
            <4>2. ChunkAt(i - 1, n) = ChunkAt(i - 1, n - 1)
                BY <1>1, <4>1, ReadChunk
            <4> QED BY <1>4, <1>5, <4>1, <4>2
        <3> QED BY <3>1
    <2>6. \A i \in 1..Len(s) : i >= k => s[i] = <<>>
        <3>1. ASSUME NEW i \in 1..Len(s), i >= k PROVE s[i] = <<>>
            <4>1. i - 1 >= topic[n].seq /\ i \in 1..(MaxPieces + 1) /\ i \in Nat
                BY <1>4, <2>1, <2>2, <2>3, <3>1
            <4>2. ASSUME NEW j \in 1..(n - 1), topic[j].seq = i - 1, topic[j].text # <<>>
                  PROVE  FALSE
                <5>1. j \in DOMAIN topic /\ j < n /\ topic[j].author = e /\ topic[n].author = e
                    BY <1>1
                <5>2. topic[j].seq < topic[n].seq
                    BY <1>1, <1>7, <4>2, <5>1 DEF Written, InOrder
                <5> QED BY <2>2, <4>1, <4>2, <5>2
            <4>3. {j \in 1..(n - 1) : topic[j].seq = i - 1 /\ topic[j].text # <<>>} = {}
                BY <4>2
            <4>4. ChunkAt(i - 1, n - 1) = <<>>
                BY <4>3 DEF ChunkAt
            <4> QED BY <1>4, <4>1, <4>4
        <3> QED BY <3>1
    <2>7. FlattenSeq(t) = FlattenSeq(s) \o t[k]
        <3>1. Len(s) # 0 /\ Len(t) = Len(s)
            BY <1>4, <1>5
        <3> QED BY <1>4, <1>5, <2>3, <2>5, <2>6, <3>1, AppendedText DEF Texts
    <2> QED BY <1>4, <1>5, <2>4, <2>7
<1> QED BY <1>6, <1>7

\* So what one episode wrote is the same for both of them.
LEMMA AssembledIsForwarded ==
    ASSUME Written, NEW n \in 1..Len(topic), NEW e, \A i \in 1..n : topic[i].author = e
    PROVE  assemble(n) = Forwarded(n)
<1>1. PICK s : s = [i \in 1..n |-> topic[i].text]
    OBVIOUS
<1>2. Typed /\ n \in Nat /\ n # 0 /\ 1 \in 1..n /\ n \in 1..n /\ \A i \in 1..n : i \in 1..Len(topic)
    BY DEF Written, Typed
<1>3. \A i \in 1..n : topic[i].text \in Texts
    <2>1. \A i \in 1..Len(topic) : topic[i] \in ChunkLike
        BY <1>2 DEF Typed
    <2> QED BY <1>2, <2>1 DEF ChunkLike
<1>4. s \in Seq(Texts) /\ Len(s) = n /\ \A i \in 1..n : s[i] = topic[i].text
    BY <1>1, <1>2, <1>3
<1>5. PICK f \in [1..n -> Texts] : Joins(f, s) /\ FlattenSeq(s) = f[n]
    BY <1>2, <1>4, FlattenJoins DEF Texts
<1>6. f[1] = topic[1].text /\ \A i \in 2..n : f[i] = f[i - 1] \o topic[i].text
    <2>1. \A i \in 2..n : i \in 1..n
        BY <1>2
    <2> QED BY <1>2, <1>4, <1>5, <2>1 DEF Joins
<1>7. ASSUME NEW m \in 1..n PROVE assemble(m) = assemble(m - 1) \o topic[m].text
    <2>1. m \in 1..Len(topic) /\ \A i \in 1..m : i \in 1..n
        BY <1>2
    <2>2. \A i \in 1..m : topic[i].author = e
        BY <2>1
    <2> QED BY <2>1, <2>2, ReadOne
<1> DEFINE P == {i \in 1..n : assemble(i) = f[i]}
<1>8. 1 \in P
    <2>1. assemble(1) = assemble(0) \o topic[1].text
        <3>1. assemble(1) = assemble(1 - 1) \o topic[1].text
            BY <1>2, <1>7
        <3>2. 1 - 1 = 0
            OBVIOUS
        <3> QED BY <3>1, <3>2
    <2>2. assemble(0) = <<>>
        BY <1>2, NothingRead
    <2>3. <<>> \o topic[1].text = topic[1].text
        BY <1>2, <1>3 DEF Texts
    <2> QED BY <1>2, <1>6, <2>1, <2>2, <2>3
<1>9. ASSUME NEW i \in 2..n, i - 1 \in P PROVE i \in P
    <2>1. i \in 1..n
        BY <1>2
    <2>2. assemble(i) = assemble(i - 1) \o topic[i].text
        BY <1>7, <2>1
    <2>3. f[i] = f[i - 1] \o topic[i].text /\ assemble(i - 1) = f[i - 1]
        BY <1>6, <1>9
    <2> QED BY <2>1, <2>2, <2>3
<1>10. n \in P
    <2> HIDE DEF P
    <2> QED BY <1>2, <1>8, <1>9, UpTo
<1>11. Forwarded(n) = FlattenSeq(s)
    BY <1>1 DEF Forwarded
<1> QED BY <1>5, <1>10, <1>11

\* A single author.
LEMMA OneAuthor ==
    ASSUME Written, NEW n \in 1..Len(topic), Cardinality(Authors(n)) = 1
    PROVE  \A i \in 1..n : topic[i].author = topic[n].author
<1>1. n \in Nat /\ n \in 1..n
    BY DEF Written, Typed
<1>2. IsFiniteSet(Authors(n))
    <2>1. IsFiniteSet(Episodes)
        BY SessionStreamAssumption, FS_Interval DEF Episodes
    <2>2. \A i \in 1..Len(topic) : topic[i] \in ChunkLike
        BY DEF Written, Typed
    <2>3. \A i \in 1..n : i \in 1..Len(topic)
        BY DEF Written, Typed
    <2>4. Authors(n) \subseteq Episodes
        BY <2>2, <2>3 DEF Authors, ChunkLike
    <2> QED BY <2>1, <2>4, FS_Subset
<1>3. PICK a : Authors(n) = {a}
    BY <1>2, FS_Singleton
<1>4. \A i \in 1..n : topic[i].author = a
    BY <1>3 DEF Authors
<1> QED BY <1>1, <1>4

\* The gateway, which forwards the topic's texts as they arrive, and the
\* aggregator, which sorts them by number, have the same text up to the first
\* IsLast chunk when one episode wrote it, whatever was lost on the way
\* (aggregateChunks and the gateway's SendRequest): ReadersAgree.
THEOREM ReadersAgreeAlways == Spec => []ReadersAgree
<1>1. Written => ReadersAgree
    <2> SUFFICES ASSUME Written, Markers # {}, Cardinality(Authors(FirstMarker)) = 1
                 PROVE  assemble(FirstMarker) = Forwarded(FirstMarker)
        BY DEF ReadersAgree
    <2>1. PICK m : m = FirstMarker
        OBVIOUS
    <2>2. m \in 1..Len(topic)
        BY <2>1, FirstMarkerIn DEF Written
    <2>3. \A i \in 1..m : topic[i].author = topic[m].author
        BY <2>1, <2>2, OneAuthor
    <2> QED BY <2>1, <2>2, <2>3, AssembledIsForwarded
<1> QED BY <1>1, WrittenAtFirst, WrittenStep, PTL DEF Spec

-------------------------------------------------------------------------------
(* The final result is the answer *)

\* An IsLast chunk of an episode that nothing disturbed ends it: it has the next
\* number of a stream, or the whole text.
Ended(c) ==
    c.isLast => /\ exec[c.author].phase # "running"
                /\ IF exec[c.author].streaming THEN c.seq = exec[c.author].seq
                                               ELSE c.text = exec[c.author].content

\* The first i messages are of one episode, a stream.
StreamAlone(e, i) == exec[e].streaming /\ \A j \in 1..i : topic[j].author = e

\* Without a fault the number of a message is its place, as long as one stream is
\* alone on the topic.
Whole ==
    /\ \A i \in DOMAIN topic : Ended(topic[i])
    /\ \A i \in DOMAIN topic : StreamAlone(topic[i].author, i) => topic[i].seq = i
    /\ \A e \in Episodes : StreamAlone(e, Len(topic)) /\ exec[e].phase = "running"
                             => exec[e].seq = Len(topic) + 1

Unharmed == faults = 0 => Whole

LEMMA EndedStays ==
    ASSUME Written, NEW e \in Episodes, MovesOn(e), NEW c \in ChunkLike, Genuine(c), Ended(c)
    PROVE  Ended(c)'
<1>1. c.author \in Episodes
    BY DEF ChunkLike
<1>2. CASE c.author # e
    <2>1. exec'[c.author] = exec[c.author]
        BY <1>1, <1>2 DEF MovesOn
    <2> QED BY <2>1 DEF Ended
<1>3. CASE c.author = e
    BY <1>3 DEF Ended, Genuine, MovesOn
<1> QED BY <1>2, <1>3

LEMMA SilentWhole ==
    ASSUME Written, Whole, NEW e \in Episodes, MovesOn(e), UNCHANGED topic,
           exec'[e].streaming /\ exec'[e].phase = "running"
               => exec[e].phase = "absent" /\ exec'[e].seq = 1
    PROVE  Whole'
<1>1. /\ Len(topic) \in Nat /\ DOMAIN topic = 1..Len(topic)
      /\ \A i \in DOMAIN topic : topic[i] \in ChunkLike /\ topic[i].author \in Episodes
    <2>1. /\ Len(topic) \in Nat /\ DOMAIN topic = 1..Len(topic)
          /\ \A i \in DOMAIN topic : topic[i] \in ChunkLike
        BY DEF Written, Typed
    <2> QED BY <2>1 DEF ChunkLike
<1>2. \A d \in Episodes : exec'[d].streaming = exec[d].streaming
    BY DEF MovesOn
<1>3. ASSUME NEW i \in DOMAIN topic PROVE Ended(topic[i])'
    <2>1. PICK c \in ChunkLike : c = topic[i]
        BY <1>1
    <2>2. Ended(c)'
        BY <2>1, EndedStays DEF Written, Whole
    <2> QED BY <2>1, <2>2 DEF Ended
<1>4. ASSUME NEW d \in Episodes, StreamAlone(d, Len(topic))', exec'[d].phase = "running"
      PROVE  exec'[d].seq = Len(topic) + 1
    <2>1. StreamAlone(d, Len(topic))
        BY <1>2, <1>4 DEF StreamAlone
    <2>2. CASE d # e
        <3>1. exec'[d] = exec[d]
            BY <2>2 DEF MovesOn
        <3> QED BY <1>4, <2>1, <3>1 DEF Whole
    <2>3. CASE d = e
        <3>1. exec[e].phase = "absent" /\ exec'[e].seq = 1
            BY <1>2, <1>4, <2>1, <2>3 DEF StreamAlone
        <3>2. \A i \in DOMAIN topic : exec[topic[i].author].phase # "absent"
            BY DEF Written, Genuine
        <3>3. \A i \in 1..Len(topic) : FALSE
            BY <1>1, <2>1, <2>3, <3>1, <3>2 DEF StreamAlone
        <3>4. Len(topic) = 0
            BY <1>1, <3>3
        <3> QED BY <2>3, <3>1, <3>4
    <2> QED BY <2>2, <2>3
<1>5. ASSUME NEW i \in DOMAIN topic, StreamAlone(topic[i].author, i)' PROVE topic[i].seq = i
    <2>1. StreamAlone(topic[i].author, i)
        BY <1>1, <1>2, <1>5 DEF StreamAlone
    <2> QED BY <2>1 DEF Whole
<1> QED BY <1>3, <1>4, <1>5 DEF Whole, StreamAlone

LEMMA PublishedWhole ==
    ASSUME Written, Whole, NEW e \in Episodes, MovesOn(e), NEW c \in ChunkLike,
           topic' = Append(topic, c), c.author = e, exec[e].phase = "running", Ended(c)',
           exec[e].streaming => c.seq = exec[e].seq,
           exec[e].streaming /\ exec'[e].phase = "running" => exec'[e].seq = exec[e].seq + 1
    PROVE  Whole'
<1>1. PICK n \in Nat : n = Len(topic)
    BY DEF Written, Typed
<1>2. DOMAIN topic = 1..n /\ DOMAIN topic' = 1..(n + 1) /\ Len(topic') = n + 1
      /\ topic'[n + 1] = c /\ \A i \in 1..n : topic'[i] = topic[i] /\ topic[i] \in ChunkLike
    BY <1>1 DEF Written, Typed
<1>3. \A d \in Episodes : exec'[d].streaming = exec[d].streaming
    BY DEF MovesOn
<1>4. ASSUME NEW i \in 1..n PROVE Ended(topic[i])' /\ topic[i].author \in Episodes
    <2>1. PICK d \in ChunkLike : d = topic[i] /\ d = topic'[i]
        BY <1>2
    <2>2. Genuine(d) /\ Ended(d)
        BY <1>2, <2>1 DEF Written, Whole
    <2>3. Ended(d)'
        BY <2>2, EndedStays
    <2>4. Ended(topic[i])'
        BY <2>1, <2>3 DEF Ended
    <2> QED BY <2>1, <2>4 DEF ChunkLike
<1>5. ASSUME NEW i \in 1..(n + 1) PROVE Ended(topic[i])'
    <2>1. CASE i \in 1..n
        BY <1>4, <2>1 DEF Ended
    <2>2. CASE i = n + 1
        <3>1. topic'[i] = c
            BY <1>2, <2>2
        <3> QED BY <3>1 DEF Ended
    <2>3. i \in 1..n \/ i = n + 1
        OBVIOUS
    <2> QED BY <2>1, <2>2, <2>3
<1>6. ASSUME NEW d \in Episodes, NEW i \in 0..n, StreamAlone(d, i)' PROVE StreamAlone(d, i)
    <2>1. \A j \in 1..i : j \in 1..n
        OBVIOUS
    <2>2. exec[d].streaming
        BY <1>3, <1>6 DEF StreamAlone
    <2>3. \A j \in 1..i : topic[j].author = d
        <3>1. \A j \in 1..i : topic'[j].author = d
            BY <1>6 DEF StreamAlone
        <3> QED BY <1>2, <2>1, <3>1
    <2> QED BY <2>2, <2>3 DEF StreamAlone
<1>7. ASSUME StreamAlone(e, n) PROVE exec[e].streaming /\ exec[e].seq = n + 1
    BY <1>1, <1>7 DEF Whole, StreamAlone
<1>8. ASSUME NEW i \in 1..(n + 1), StreamAlone(topic[i].author, i)'
      PROVE  topic'[i].seq = i
    <2>1. CASE i \in 1..n
        <3>1. StreamAlone(topic[i].author, i)
            <4>1. PICK d : d = topic'[i].author
                OBVIOUS
            <4>2. StreamAlone(d, i)'
                BY <1>8, <4>1 DEF StreamAlone
            <4>3. d = topic[i].author
                BY <1>2, <2>1, <4>1
            <4>4. d \in Episodes /\ i \in 0..n
                BY <1>4, <2>1, <4>3
            <4>5. StreamAlone(d, i)
                BY <1>6, <4>2, <4>4
            <4> QED BY <4>3, <4>5
        <3>2. topic[i].seq = i
            BY <1>2, <2>1, <3>1 DEF Whole
        <3> QED BY <1>2, <2>1, <3>2
    <2>2. CASE i = n + 1
        <3>1. exec'[e].streaming /\ \A j \in 1..(n + 1) : topic'[j].author = e
            BY <1>2, <1>8, <2>2 DEF StreamAlone
        <3>2. \A j \in 1..n : j \in 1..(n + 1)
            OBVIOUS
        <3>3. StreamAlone(e, n)
            BY <1>2, <1>3, <3>1, <3>2 DEF StreamAlone
        <3>4. exec[e].streaming /\ exec[e].seq = n + 1
            BY <1>7, <3>3
        <3>5. topic'[i] = c
            BY <1>2, <2>2
        <3> QED BY <2>2, <3>4, <3>5
    <2>3. i \in 1..n \/ i = n + 1
        OBVIOUS
    <2> QED BY <2>1, <2>2, <2>3
<1>9. ASSUME NEW d \in Episodes, StreamAlone(d, n + 1)', exec'[d].phase = "running"
      PROVE  exec'[d].seq = n + 1 + 1
    <2>1. n + 1 \in 1..(n + 1) /\ \A j \in 1..n : j \in 1..(n + 1)
        OBVIOUS
    <2>2. d = e
        BY <1>2, <1>9, <2>1 DEF StreamAlone
    <2>3. StreamAlone(e, n)
        BY <1>2, <1>3, <1>9, <2>1, <2>2 DEF StreamAlone
    <2> QED BY <1>7, <1>9, <2>2, <2>3
<1>10. \A d \in Episodes : StreamAlone(d, Len(topic))' /\ exec'[d].phase = "running"
                             => exec'[d].seq = Len(topic') + 1
    BY <1>2, <1>9 DEF StreamAlone
<1> QED BY <1>2, <1>5, <1>8, <1>10 DEF Whole

LEMMA WholeStep == Written /\ Counted /\ Unharmed /\ [Next]_vars => Unharmed'
<1> SUFFICES ASSUME Written, Counted, faults = 0 => Whole, [Next]_vars, faults' = 0
             PROVE  Whole'
    BY DEF Unharmed
<1>1. ~Fault /\ Whole
    <2>1. ~Fault
        BY DEF Fault, Counted
    <2>2. UNCHANGED faults \/ Fault
        BY DEF Next, Begin, EpisodeStep, ProcessUnit, Continue, Answer, SendCompletion, UnitFails,
               Redeliver, Aggregate, AggregatePartial, AckCompletion, AggregatorCrash,
               SendStreamChunk, Publish, vars
    <2> QED BY <2>1, <2>2
<1>2. ASSUME UNCHANGED <<topic, exec>> PROVE Whole'
    BY <1>1, <1>2 DEF Whole, Ended, StreamAlone
<1>3. ASSUME NEW e \in Episodes, Begin(e) PROVE Whole'
    <2>1. /\ exec' = [exec EXCEPT ![e].phase = "running"] /\ exec[e].phase = "absent"
          /\ UNCHANGED topic
        BY <1>3 DEF Begin
    <2>2. MovesOn(e) /\ exec'[e].seq = exec[e].seq
        BY <2>1, PhaseMoves DEF Phases
    <2>3. exec'[e].streaming = exec[e].streaming
        BY <2>2 DEF MovesOn
    <2>4. exec[e].streaming => exec[e].seq = 1
        <3>1. exec[e].content = <<>> /\ (exec[e].streaming => exec[e].seq = Len(exec[e].content) + 1)
            BY <2>1 DEF Written, EpisodeWell
        <3> QED BY <3>1
    <2> QED BY <1>1, <2>1, <2>2, <2>3, <2>4, SilentWhole
<1>4. ASSUME NEW e \in Episodes, Continue(e) \/ SendCompletion(e) PROVE Whole'
    <2>1. exec' = [exec EXCEPT ![e].phase = "over"] /\ UNCHANGED topic
        BY <1>4 DEF Continue, SendCompletion
    <2>2. MovesOn(e) /\ exec'[e].phase = "over"
        BY <2>1, PhaseMoves DEF Phases
    <2> QED BY <1>1, <2>1, <2>2, SilentWhole
<1>5. ASSUME NEW e \in Episodes, Answer(e) PROVE Whole'
    <2>1. exec' = [exec EXCEPT ![e].phase = "completing"] /\ exec[e].phase = "running"
        BY <1>5 DEF Answer
    <2>2. /\ MovesOn(e) /\ exec'[e].phase = "completing" /\ exec'[e].content = exec[e].content
          /\ exec'[e].seq = exec[e].seq
        BY <2>1, PhaseMoves DEF Phases
    <2>3. exec'[e].streaming = exec[e].streaming
        BY <2>2 DEF MovesOn
    <2>4. exec[e] \in EpisodeLike /\ exec[e].seq \in Nat /\ exec[e].content \in Texts /\ <<>> \in Texts
        BY DEF Written, Typed, EpisodeLike, Texts
    <2>5. PICK seq : seq = IF exec[e].streaming THEN exec[e].seq ELSE 0
        OBVIOUS
    <2>6. PICK text : text = IF exec[e].streaming THEN <<>> ELSE exec[e].content
        OBVIOUS
    <2>7. PICK c : c = [author |-> e, seq |-> seq, text |-> text, isLast |-> TRUE, error |-> FALSE]
        OBVIOUS
    <2>8. /\ c \in ChunkLike /\ c.author = e /\ c.seq = seq /\ c.text = text /\ c.isLast
        BY <2>4, <2>5, <2>6, <2>7 DEF ChunkLike
    <2>9. topic' = Append(topic, c)
        BY <1>1, <1>5, <2>5, <2>6, <2>7 DEF Answer, SendStreamChunk, Publish
    <2>10. Ended(c)'
        BY <2>2, <2>3, <2>5, <2>6, <2>8 DEF Ended
    <2>11. exec[e].streaming => c.seq = exec[e].seq
        BY <2>5, <2>8
    <2> QED BY <1>1, <2>1, <2>2, <2>8, <2>9, <2>10, <2>11, PublishedWhole
<1>6. ASSUME NEW e \in Episodes, ProcessUnit(e) PROVE Whole'
    <2>1. /\ MovesOn(e) /\ exec'[e].phase = "running" /\ exec[e].phase = "running"
          /\ exec[e].streaming =>
               /\ exec'[e].seq = exec[e].seq + 1 /\ exec[e].seq = Len(exec[e].content) + 1
               /\ SendStreamChunk(e, << <<e, exec[e].seq>> >>, exec[e].seq, FALSE)
          /\ ~exec[e].streaming => UNCHANGED <<topic, faults>>
        BY <1>6, PieceProduced
    <2>2. exec'[e].streaming = exec[e].streaming
        BY <2>1 DEF MovesOn
    <2>3. CASE ~exec[e].streaming
        BY <1>1, <2>1, <2>2, <2>3, SilentWhole
    <2>4. CASE exec[e].streaming
        <3>1. PICK seq : seq = exec[e].seq
            OBVIOUS
        <3>2. PICK text : text = << <<e, seq>> >>
            OBVIOUS
        <3>3. seq \in Nat /\ text \in Texts
            <4>1. exec[e] \in EpisodeLike /\ Len(exec[e].content) < MaxPieces
                BY <1>6 DEF Written, Typed, ProcessUnit
            <4>2. Len(exec[e].content) \in Nat
                BY <4>1 DEF EpisodeLike, Texts
            <4>3. seq \in 1..MaxPieces
                BY <2>1, <2>4, <3>1, <4>1, <4>2, SessionStreamAssumption
            <4> QED BY <3>2, <4>3 DEF Texts, Pieces
        <3>4. PICK c : c = [author |-> e, seq |-> seq, text |-> text, isLast |-> FALSE, error |-> FALSE]
            OBVIOUS
        <3>5. c \in ChunkLike /\ c.author = e /\ c.seq = seq /\ ~c.isLast
            BY <3>3, <3>4 DEF ChunkLike
        <3>6. topic' = Append(topic, c)
            BY <1>1, <2>1, <2>4, <3>1, <3>2, <3>4 DEF SendStreamChunk, Publish
        <3>7. Ended(c)'
            BY <3>5 DEF Ended
        <3> QED BY <1>1, <2>1, <2>4, <3>1, <3>5, <3>6, <3>7, PublishedWhole
    <2> QED BY <2>3, <2>4
<1>7. ASSUME NEW e \in Episodes, UnitFails(e) \/ Redeliver(e) PROVE FALSE
    BY <1>1, <1>7 DEF UnitFails, Redeliver
<1>8. CASE Aggregate \/ AggregatePartial \/ AckCompletion \/ AggregatorCrash
    BY <1>2, <1>8 DEF Aggregate, AggregatePartial, AckCompletion, AggregatorCrash
<1>9. CASE UNCHANGED vars
    BY <1>2, <1>9 DEF vars
<1> QED BY <1>3, <1>4, <1>5, <1>6, <1>7, <1>8, <1>9 DEF Next, EpisodeStep

LEMMA OneMore ==
    ASSUME NEW S, NEW a \in Seq(S), NEW p \in S, NEW b, b = a \o <<p>>
    PROVE  /\ Len(a) \in Nat /\ Len(b) = Len(a) + 1
           /\ DOMAIN a = 1..Len(a) /\ DOMAIN b = 1..(Len(a) + 1)
           /\ b[Len(a) + 1] = p /\ \A k \in 1..Len(a) : b[k] = a[k]
<1>1. b = Append(a, p) /\ Len(a) \in Nat /\ DOMAIN a = 1..Len(a)
    OBVIOUS
<1> QED BY <1>1

\* A text of a stream is the piece of its number.
LEMMA StreamText ==
    ASSUME Written, NEW e, NEW i \in DOMAIN topic, topic[i].author = e, topic[i].text # <<>>,
           exec[e].streaming
    PROVE  /\ e \in Episodes /\ topic[i].seq \in DOMAIN exec[e].content
           /\ topic[i].text = << <<e, topic[i].seq>> >> /\ <<e, topic[i].seq>> \in Pieces
           /\ exec[e].content[topic[i].seq] = <<e, topic[i].seq>> /\ ~topic[i].isLast
<1>1. topic[i] \in ChunkLike /\ Genuine(topic[i])
    BY DEF Written, Typed
<1>2. e \in Episodes
    BY <1>1 DEF ChunkLike
<1>3. exec[e] \in EpisodeLike /\ EpisodeWell(e)
    BY <1>2 DEF Written, Typed
<1>4. exec[e].content \in Seq(Pieces) /\ Len(exec[e].content) \in Nat
      /\ DOMAIN exec[e].content = 1..Len(exec[e].content)
    BY <1>3 DEF EpisodeLike, Texts
<1>5. topic[i].seq \in 1..(exec[e].seq - 1) /\ exec[e].seq = Len(exec[e].content) + 1
    BY <1>1, <1>3 DEF Genuine, EpisodeWell
<1>6. topic[i].seq \in DOMAIN exec[e].content
    BY <1>4, <1>5
<1>7. exec[e].content[topic[i].seq] = <<e, topic[i].seq>>
    BY <1>3, <1>6 DEF EpisodeWell
<1>8. exec[e].content[topic[i].seq] \in Pieces
    BY <1>4, <1>6
<1> QED BY <1>1, <1>2, <1>6, <1>7, <1>8 DEF Genuine

\* The pieces of the first i messages, in order.
Sorted(i) ==
    /\ \A k \in DOMAIN assemble(i) : \E j \in 1..i :
           topic[j].text # <<>> /\ assemble(i)[k] = <<topic[j].author, topic[j].seq>>
    /\ \A k, l \in DOMAIN assemble(i) : k < l => assemble(i)[k][2] < assemble(i)[l][2]

LEMMA SortedStep ==
    ASSUME Written, NEW n \in 1..Len(topic), NEW e, \A i \in 1..n : topic[i].author = e,
           exec[e].streaming, Sorted(n - 1)
    PROVE  Sorted(n)
<1>1. /\ n \in Nat /\ n \in 1..n /\ n \in DOMAIN topic /\ n - 1 \in 0..Len(topic) /\ Typed
      /\ \A j \in 1..(n - 1) : j \in 1..n /\ j < n /\ j \in DOMAIN topic
    BY DEF Written, Typed
<1>2. PICK a : a = assemble(n - 1)
    OBVIOUS
<1>3. PICK b : b = assemble(n)
    OBVIOUS
<1>4. a \in Seq(Pieces) /\ b = a \o topic[n].text
    BY <1>1, <1>2, <1>3, ReadOne, ReadTyped DEF Texts
<1>5. /\ \A k \in DOMAIN a : \E j \in 1..(n - 1) :
             topic[j].text # <<>> /\ a[k] = <<topic[j].author, topic[j].seq>>
      /\ \A k, l \in DOMAIN a : k < l => a[k][2] < a[l][2]
    BY <1>2 DEF Sorted
<1>6. CASE topic[n].text = <<>>
    <2>1. b = a
        BY <1>4, <1>6
    <2> QED BY <1>1, <1>3, <1>5, <2>1 DEF Sorted
<1>7. CASE topic[n].text # <<>>
    <2>1. PICK p \in Pieces : p = <<e, topic[n].seq>> /\ topic[n].text = <<p>>
        BY <1>1, <1>7, StreamText
    <2>2. /\ Len(a) \in Nat /\ Len(b) = Len(a) + 1
          /\ DOMAIN a = 1..Len(a) /\ DOMAIN b = 1..(Len(a) + 1)
          /\ b[Len(a) + 1] = p /\ \A k \in 1..Len(a) : b[k] = a[k]
        BY <1>4, <2>1, OneMore
    <2>3. ASSUME NEW k \in 1..Len(a)
          PROVE  /\ b[k][2] < p[2]
                 /\ \E j \in 1..n : topic[j].text # <<>> /\ b[k] = <<topic[j].author, topic[j].seq>>
        <3>1. PICK j \in 1..(n - 1) : topic[j].text # <<>> /\ a[k] = <<topic[j].author, topic[j].seq>>
            BY <1>5, <2>2
        <3>2. j \in 1..n /\ j < n /\ j \in DOMAIN topic /\ topic[j].author = topic[n].author
            BY <1>1, <3>1
        <3>3. topic[j].seq < topic[n].seq
            BY <1>1, <1>7, <3>1, <3>2 DEF Written, InOrder
        <3>4. b[k] = <<topic[j].author, topic[j].seq>>
            BY <2>2, <3>1
        <3> QED BY <2>1, <3>1, <3>2, <3>3, <3>4
    <2>4. ASSUME NEW k \in DOMAIN b
          PROVE  \E j \in 1..n : topic[j].text # <<>> /\ b[k] = <<topic[j].author, topic[j].seq>>
        <3>1. CASE k \in 1..Len(a)
            BY <2>3, <3>1
        <3>2. CASE k = Len(a) + 1
            BY <1>1, <1>7, <2>1, <2>2, <3>2
        <3>3. k \in 1..Len(a) \/ k = Len(a) + 1
            BY <2>2
        <3> QED BY <3>1, <3>2, <3>3
    <2>5. ASSUME NEW k \in DOMAIN b, NEW l \in DOMAIN b, k < l
          PROVE  b[k][2] < b[l][2]
        <3>1. k \in 1..Len(a) /\ (l \in 1..Len(a) \/ l = Len(a) + 1)
            BY <2>2, <2>5
        <3>2. CASE l \in 1..Len(a)
            BY <1>5, <2>2, <2>5, <3>1, <3>2
        <3>3. CASE l = Len(a) + 1
            BY <2>2, <2>3, <3>1, <3>3
        <3> QED BY <3>1, <3>2, <3>3
    <2> QED BY <1>3, <2>4, <2>5 DEF Sorted
<1> QED BY <1>6, <1>7

\* The first i messages are the first i pieces of the stream.
Filled(e, i) == Len(assemble(i)) = i /\ \A k \in 1..i : assemble(i)[k] = <<e, k>>

LEMMA FilledStep ==
    ASSUME Written, Whole, NEW n \in 1..Len(topic), NEW e, \A i \in 1..n : topic[i].author = e,
           exec[e].streaming, ~topic[n].isLast, Filled(e, n - 1)
    PROVE  Filled(e, n)
<1>1. /\ n \in Nat /\ n \in 1..n /\ n \in DOMAIN topic /\ n - 1 \in 0..Len(topic) /\ Typed
      /\ n - 1 + 1 = n /\ n - 1 \in Nat /\ \A k \in 1..n : k = n \/ k \in 1..(n - 1)
    BY DEF Written, Typed
<1>2. PICK a : a = assemble(n - 1)
    OBVIOUS
<1>3. PICK b : b = assemble(n)
    OBVIOUS
<1>4. a \in Seq(Pieces) /\ b = a \o topic[n].text
    BY <1>1, <1>2, <1>3, ReadOne, ReadTyped DEF Texts
<1>5. topic[n].seq = n
    BY <1>1 DEF Whole, StreamAlone
<1>6. topic[n].text # <<>>
    BY <1>1 DEF Written, Genuine
<1>7. PICK p \in Pieces : p = <<e, n>> /\ topic[n].text = <<p>>
    BY <1>1, <1>5, <1>6, StreamText
<1>8. Len(a) = n - 1 /\ \A k \in 1..(n - 1) : a[k] = <<e, k>>
    BY <1>2 DEF Filled
<1>9. Len(b) = n /\ b[n] = p /\ \A k \in 1..(n - 1) : b[k] = a[k]
    BY <1>1, <1>4, <1>7, <1>8, OneMore
<1>10. \A k \in 1..n : b[k] = <<e, k>>
    BY <1>1, <1>7, <1>8, <1>9
<1> QED BY <1>3, <1>9, <1>10 DEF Filled

\* What the aggregator assembles of a single stream.
LEMMA StreamAssembled ==
    ASSUME Written, NEW m \in 1..Len(topic), topic[m].isLast,
           \A i \in 1..(m - 1) : ~topic[i].isLast,
           NEW e, \A i \in 1..m : topic[i].author = e, exec[e].streaming
    PROVE  /\ IsSubsequence(assemble(m), exec[e].content)
           /\ Whole => assemble(m) = exec[e].content
<1>1. /\ m \in Nat /\ m # 0 /\ m \in 1..m /\ m \in DOMAIN topic /\ Typed /\ m + 1 \in Nat
      /\ m \in 0..Len(topic) /\ m - 1 \in 0..Len(topic) /\ m - 1 \in Nat
    BY DEF Written, Typed
<1>2. \A n \in 1..m : n \in 1..Len(topic) /\ \A i \in 1..n : topic[i].author = e
    BY <1>1
<1>3. Sorted(0) /\ Filled(e, 0)
    <2>1. assemble(0) = <<>>
        BY <1>1, NothingRead
    <2>2. Len(assemble(0)) = 0 /\ DOMAIN assemble(0) = {}
        BY <2>1
    <2> QED BY <2>2 DEF Sorted, Filled
<1>4. Sorted(m)
    <2> DEFINE P == {i \in 1..(m + 1) : Sorted(i - 1)}
    <2>1. 1 \in P
        <3>1. 1 \in 1..(m + 1) /\ 1 - 1 = 0
            BY <1>1
        <3> QED BY <1>3, <3>1
    <2>2. ASSUME NEW i \in 2..(m + 1), i - 1 \in P PROVE i \in P
        <3>1. i - 1 \in 1..m /\ i \in 1..(m + 1)
            BY <1>1
        <3>2. PICK n \in 1..m : n = i - 1
            BY <3>1
        <3>3. Sorted(n - 1)
            BY <2>2, <3>2
        <3>4. Sorted(n)
            BY <1>2, <3>3, SortedStep
        <3> QED BY <3>1, <3>2, <3>4
    <2>3. m + 1 \in P
        <3> HIDE DEF P
        <3>1. m + 1 \in 1..(m + 1)
            BY <1>1
        <3> QED BY <1>1, <2>1, <2>2, <3>1, UpTo
    <2>4. m + 1 - 1 = m
        BY <1>1
    <2> QED BY <2>3, <2>4
<1>5. PICK a : a = assemble(m)
    OBVIOUS
<1>6. a \in Seq(Pieces)
    BY <1>1, <1>5, ReadTyped DEF Texts
<1>7. IsSubsequence(a, exec[e].content)
    <2>1. ASSUME NEW k \in DOMAIN a
          PROVE  a[k][2] \in DOMAIN exec[e].content /\ a[k] = exec[e].content[a[k][2]]
        <3>1. PICK j \in 1..m : topic[j].text # <<>> /\ a[k] = <<topic[j].author, topic[j].seq>>
            BY <1>4, <1>5 DEF Sorted
        <3>2. j \in DOMAIN topic /\ topic[j].author = e
            BY <1>1, <3>1
        <3> QED BY <3>1, <3>2, StreamText
    <2> DEFINE place == [k \in DOMAIN a |-> a[k][2]]
    <2>2. place \in [DOMAIN a -> DOMAIN exec[e].content]
        BY <2>1
    <2>3. \A k \in DOMAIN a : a[k] = exec[e].content[place[k]]
        BY <2>1
    <2>4. \A k, l \in DOMAIN a : k < l => place[k] < place[l]
        BY <1>4, <1>5 DEF Sorted
    <2> HIDE DEF place
    <2> QED BY <2>2, <2>3, <2>4 DEF IsSubsequence
<1>8. ASSUME Whole PROVE a = exec[e].content
    <2> DEFINE P == {i \in 1..m : Filled(e, i - 1)}
    <2>1. 1 \in P
        <3>1. 1 \in 1..m /\ 1 - 1 = 0
            BY <1>1
        <3> QED BY <1>3, <3>1
    <2>2. ASSUME NEW i \in 2..m, i - 1 \in P PROVE i \in P
        <3>1. i - 1 \in 1..m /\ i \in 1..m /\ i - 1 \in 1..(m - 1)
            BY <1>1
        <3>2. PICK n \in 1..m : n = i - 1
            BY <3>1
        <3>3. Filled(e, n - 1) /\ ~topic[n].isLast
            BY <2>2, <3>1, <3>2
        <3>4. Filled(e, n)
            BY <1>2, <1>8, <3>3, FilledStep
        <3> QED BY <3>1, <3>2, <3>4
    <2>3. m \in P
        <3> HIDE DEF P
        <3> QED BY <1>1, <2>1, <2>2, UpTo
    <2>4. topic[m].text = <<>>
        BY <1>1, StreamText
    <2>5. a = assemble(m - 1)
        <3>1. assemble(m) = assemble(m - 1) \o <<>>
            BY <1>2, <2>4, ReadOne
        <3>2. assemble(m - 1) \in Seq(Pieces)
            BY <1>1, ReadTyped DEF Texts
        <3> QED BY <1>5, <3>1, <3>2
    <2>6. Len(a) = m - 1 /\ \A k \in 1..(m - 1) : a[k] = <<e, k>>
        BY <2>3, <2>5 DEF Filled
    <2>7. topic[m].seq = m /\ topic[m].seq = exec[e].seq
        BY <1>1, <1>8 DEF Whole, StreamAlone, Ended
    <2>8. e \in Episodes
        <3>1. topic[m] \in ChunkLike
            BY <1>1 DEF Typed
        <3> QED BY <1>1, <3>1 DEF ChunkLike
    <2>9. exec[e] \in EpisodeLike /\ EpisodeWell(e)
        BY <1>1, <2>8 DEF Typed, Written
    <2>10. /\ exec[e].content \in Seq(Pieces) /\ Len(exec[e].content) \in Nat
           /\ DOMAIN exec[e].content = 1..Len(exec[e].content)
        BY <2>9 DEF EpisodeLike, Texts
    <2>11. Len(exec[e].content) = m - 1
        BY <1>1, <2>7, <2>9, <2>10 DEF EpisodeWell
    <2>12. \A k \in 1..(m - 1) : exec[e].content[k] = <<e, k>>
        BY <2>9, <2>10, <2>11 DEF EpisodeWell
    <2>13. a \in [1..(m - 1) -> Pieces] /\ exec[e].content \in [1..(m - 1) -> Pieces]
        BY <1>6, <2>6, <2>10, <2>11
    <2>14. \A k \in 1..(m - 1) : a[k] = exec[e].content[k]
        BY <2>6, <2>12
    <2> QED BY <2>13, <2>14, SameFunction
<1> QED BY <1>5, <1>7, <1>8

\* And of an answer that was not streamed: its topic has that one message.
LEMMA AnswerAssembled ==
    ASSUME Written, NEW m \in 1..Len(topic), topic[m].isLast,
           \A i \in 1..(m - 1) : ~topic[i].isLast,
           NEW e, \A i \in 1..m : topic[i].author = e, ~exec[e].streaming
    PROVE  /\ IsSubsequence(assemble(m), exec[e].content)
           /\ Whole => assemble(m) = exec[e].content
<1>1. m \in Nat /\ m # 0 /\ 1 \in 1..m /\ 1 \in DOMAIN topic /\ 1 \in 1..Len(topic) /\ Typed
    BY DEF Written, Typed
<1>2. Genuine(topic[1]) /\ topic[1].author = e
    BY <1>1 DEF Written
<1>3. m = 1
    <2>1. topic[1].isLast
        BY <1>2 DEF Genuine
    <2>2. m > 1 => 1 \in 1..(m - 1)
        BY <1>1
    <2> QED BY <1>1, <2>1, <2>2
<1>4. topic[1] \in ChunkLike
    BY <1>1 DEF Typed
<1>5. topic[1].text \in Seq(Pieces) /\ e \in Episodes
    BY <1>2, <1>4 DEF ChunkLike, Texts
<1>6. exec[e].content \in Seq(Pieces)
    BY <1>1, <1>5 DEF Typed, EpisodeLike, Texts
<1>7. assemble(1) = topic[1].text
    <2>1. \A i \in 1..1 : topic[i].author = e
        BY <1>2
    <2>2. assemble(1) = assemble(1 - 1) \o topic[1].text
        BY <1>1, <2>1, ReadOne
    <2>3. assemble(1 - 1) = <<>>
        <3>1. 1 - 1 = 0
            OBVIOUS
        <3> QED BY <1>1, <3>1, NothingRead
    <2>4. <<>> \o topic[1].text = topic[1].text
        BY <1>5
    <2> QED BY <2>2, <2>3, <2>4
<1>8. CASE topic[1].text = <<>>
    <2>1. PICK t : t = assemble(1)
        OBVIOUS
    <2>2. DOMAIN t = {}
        BY <1>7, <1>8, <2>1
    <2> DEFINE place == [k \in DOMAIN t |-> k]
    <2>3. place \in [DOMAIN t -> DOMAIN exec[e].content]
        BY <2>2
    <2> HIDE DEF place
    <2>4. IsSubsequence(t, exec[e].content)
        BY <2>2, <2>3 DEF IsSubsequence
    <2>5. Whole => topic[1].text = exec[e].content
        BY <1>1, <1>2, <1>3 DEF Whole, Ended
    <2> QED BY <1>3, <1>7, <2>1, <2>4, <2>5
<1>9. CASE topic[1].text # <<>>
    <2>1. assemble(1) = exec[e].content
        BY <1>2, <1>7, <1>9 DEF Genuine
    <2>2. PICK t : t = exec[e].content
        OBVIOUS
    <2>3. t \in Seq(Pieces)
        BY <1>6, <2>2
    <2> DEFINE place == [k \in DOMAIN t |-> k]
    <2>4. /\ place \in [DOMAIN t -> DOMAIN t]
          /\ \A k \in DOMAIN t : t[k] = t[place[k]]
          /\ \A k, l \in DOMAIN t : k < l => place[k] < place[l]
        OBVIOUS
    <2> HIDE DEF place
    <2>5. IsSubsequence(t, t)
        BY <2>4 DEF IsSubsequence
    <2> QED BY <1>3, <2>1, <2>2, <2>5
<1> QED BY <1>8, <1>9

\* A final result that the aggregator assembled from the topic of a single episode
\* has nothing the episode did not produce and nothing out of order, whatever was
\* lost; without a fault it is the whole text (handleExec, aggregateChunks):
\* FinalIsTheAnswer.
THEOREM FinalIsTheAnswerAlways == Spec => []FinalIsTheAnswer
<1>1. Init => Unharmed
    BY SessionStreamAssumption DEF Init, Unharmed, Whole, StreamAlone
<1>2. Written /\ FinalsFixed /\ Unharmed => FinalIsTheAnswer
    <2> SUFFICES ASSUME Written, FinalsFixed, Unharmed,
                        NEW f \in finals, ~f.partial, Cardinality(Authors(FirstMarker)) = 1
                 PROVE  /\ IsSubsequence(f.text, exec[topic[FirstMarker].author].content)
                        /\ faults = 0 => f.text = exec[topic[FirstMarker].author].content
        BY DEF FinalIsTheAnswer
    <2>1. Markers # {} /\ f.text = assemble(FirstMarker) /\ Typed
        BY DEF FinalsFixed, Written
    <2>2. PICK m : m = FirstMarker
        OBVIOUS
    <2>3. m \in Markers /\ m \in 1..Len(topic) /\ \A j \in Markers : m <= j
        BY <2>1, <2>2, FirstMarkerIn
    <2>4. topic[m].isLast /\ \A i \in 1..(m - 1) : ~topic[i].isLast
        <3>1. ASSUME NEW i \in 1..(m - 1) PROVE i \in DOMAIN topic /\ ~(m <= i)
            BY <2>1, <2>3 DEF Typed
        <3> QED BY <2>3, <3>1 DEF Markers
    <2>5. PICK e : e = topic[m].author
        OBVIOUS
    <2>6. \A i \in 1..m : topic[i].author = e
        BY <2>2, <2>3, <2>5, OneAuthor
    <2>7. /\ IsSubsequence(assemble(m), exec[e].content)
          /\ Whole => assemble(m) = exec[e].content
        BY <2>3, <2>4, <2>6, StreamAssembled, AnswerAssembled
    <2> QED BY <2>1, <2>2, <2>5, <2>7 DEF Unharmed
<1> QED BY <1>1, <1>2, FinalsAtFirst, FinalsStep, WrittenAtFirst, WrittenStep, CountedStep,
           WholeStep, PTL DEF Spec

===============================================================================
