------------------------------ MODULE DlqHandler ------------------------------
(***************************************************************************)
(* One service's consumer wrapped in common/dlq's Handler.  A message is   *)
(* taken from the subscription's backlog, processFunc runs, HandleMessage  *)
(* acts on the result, and the process may crash between any two of these  *)
(* steps; the broker then delivers the unacknowledged message again.       *)
(* Messages are handled concurrently (rag-worker's runMessageLoop starts a *)
(* goroutine for each), so every step names the message it is about.       *)
(***************************************************************************)
EXTENDS Dlq

CONSTANTS
    Msgs,         \* the messages published to the subscription's topics
    MaxCrashes,   \* bound: crashes of a process in the middle of a message
    MaxReplays,   \* bound: dead letters an operator publishes again
    CountCap      \* bound: the redelivery counters saturate here

ASSUME BoundAssumption ==
    /\ MaxCrashes \in Nat /\ MaxReplays \in Nat
    /\ CountCap \in Nat /\ CountCap > MaxRetries

VARIABLES
    phase,        \* where the message is: see Phases
    result,       \* what the last processFunc returned for it
    redelivered,  \* the broker's RedeliveryCount
    prop,         \* its dlq-retry-count property
    letter,       \* the property of its copy in the dead-letter topic, or NoProp
    nacks,        \* ghost: negative acknowledgements since it was published
    done,         \* messages processed successfully by some delivery
    unsent,       \* messages whose dead-letter publish failed
    crashes, replays

vars == <<phase, result, redelivered, prop, letter, nacks, done, unsent,
          crashes, replays>>

\* backlog: held by the broker; running: processFunc is executing; decided: it
\* has returned; routed: routeToDLQ has returned; acked: acknowledged.
Phases == {"backlog", "running", "decided", "routed", "acked"}

\* The messages that have a copy in the dead-letter topic.
DlqTopic == {m \in Msgs : letter[m] # NoProp}

TypeOK ==
    /\ phase \in [Msgs -> Phases]
    /\ result \in [Msgs -> Results]
    /\ redelivered \in [Msgs -> 0..CountCap]
    /\ prop \in [Msgs -> Nat \cup {NoProp}]
    /\ letter \in [Msgs -> Nat \cup {NoProp}]
    /\ nacks \in [Msgs -> 0..CountCap]
    /\ done \subseteq Msgs /\ unsent \subseteq Msgs
    /\ crashes \in 0..MaxCrashes /\ replays \in 0..MaxReplays

Init ==
    /\ phase = [m \in Msgs |-> "backlog"]
    /\ result = [m \in Msgs |-> "success"]
    /\ redelivered = [m \in Msgs |-> 0]
    /\ prop = [m \in Msgs |-> NoProp]
    /\ letter = [m \in Msgs |-> NoProp]
    /\ nacks = [m \in Msgs |-> 0]
    /\ done = {} /\ unsent = {}
    /\ crashes = 0 /\ replays = 0

-------------------------------------------------------------------------------
Count(n) == IF n < CountCap THEN n + 1 ELSE n

\* consumer.Receive hands the message to a goroutine.
Receive(m) ==
    /\ phase[m] = "backlog"
    /\ phase' = [phase EXCEPT ![m] = "running"]
    /\ UNCHANGED <<result, redelivered, prop, letter, nacks, done, unsent,
                   crashes, replays>>

\* processFunc returns; what it returns is the service's business.
Process(m, r) ==
    /\ phase[m] = "running"
    /\ phase' = [phase EXCEPT ![m] = "decided"]
    /\ result' = [result EXCEPT ![m] = r]
    /\ done' = IF r = "success" THEN done \cup {m} ELSE done
    /\ UNCHANGED <<redelivered, prop, letter, nacks, unsent, crashes, replays>>

Retries(m) == RetryCount(prop[m], redelivered[m])

\* routeToDLQ publishes the message with its retry count as a property; a
\* failing publish is logged and otherwise ignored.
RouteToDLQ(m, sent) ==
    /\ phase[m] = "decided"
    /\ Disposition(result[m], Retries(m)) = "bury"
    /\ phase' = [phase EXCEPT ![m] = "routed"]
    /\ letter' = IF sent THEN [letter EXCEPT ![m] = Retries(m)] ELSE letter
    /\ unsent' = IF sent THEN unsent ELSE unsent \cup {m}
    /\ UNCHANGED <<result, redelivered, prop, nacks, done, crashes, replays>>

\* Mutant: the message is acknowledged before it is routed.
MutAckBeforeRouting(m) ==
    /\ phase[m] = "decided" /\ Disposition(result[m], Retries(m)) # "nack"
    /\ phase' = [phase EXCEPT ![m] = "acked"]
    /\ UNCHANGED <<result, redelivered, prop, letter, nacks, done, unsent,
                   crashes, replays>>

\* consumer.Ack, after a success or after routing.
Ack(m) ==
    /\ \/ phase[m] = "decided" /\ Disposition(result[m], Retries(m)) = "ack"
       \/ phase[m] = "routed"
    /\ phase' = [phase EXCEPT ![m] = "acked"]
    /\ UNCHANGED <<result, redelivered, prop, letter, nacks, done, unsent,
                   crashes, replays>>

\* Mutant: a retry the broker does not count.
MutNackUncounted(m) ==
    /\ phase[m] = "decided" /\ Disposition(result[m], Retries(m)) = "nack"
    /\ phase' = [phase EXCEPT ![m] = "backlog"]
    /\ nacks' = [nacks EXCEPT ![m] = Count(@)]
    /\ UNCHANGED <<result, redelivered, prop, letter, done, unsent, crashes, replays>>

\* consumer.Nack: the broker delivers the message again and counts it.
Nack(m) ==
    /\ phase[m] = "decided" /\ Disposition(result[m], Retries(m)) = "nack"
    /\ phase' = [phase EXCEPT ![m] = "backlog"]
    /\ redelivered' = [redelivered EXCEPT ![m] = Count(@)]
    /\ nacks' = [nacks EXCEPT ![m] = Count(@)]
    /\ UNCHANGED <<result, prop, letter, done, unsent, crashes, replays>>

\* The process dies before it acknowledged the message.  The broker delivers
\* it again; whether it counts that as a redelivery is up to the broker.
Crash(m, counted) ==
    /\ crashes < MaxCrashes
    /\ phase[m] \in {"running", "decided", "routed"}
    /\ phase' = [phase EXCEPT ![m] = "backlog"]
    /\ redelivered' = IF counted THEN [redelivered EXCEPT ![m] = Count(@)]
                                 ELSE redelivered
    /\ crashes' = crashes + 1
    /\ UNCHANGED <<result, prop, letter, nacks, done, unsent, replays>>

\* An operator publishes a dead letter again, with its properties: what
\* DLQMessage is declared for.  It is a new message with the old payload.
Replay(m) ==
    /\ replays < MaxReplays
    /\ phase[m] = "acked" /\ m \in DlqTopic
    /\ phase' = [phase EXCEPT ![m] = "backlog"]
    /\ redelivered' = [redelivered EXCEPT ![m] = 0]
    /\ nacks' = [nacks EXCEPT ![m] = 0]
    /\ prop' = [prop EXCEPT ![m] = letter[m]]
    /\ letter' = [letter EXCEPT ![m] = NoProp]
    /\ done' = done \ {m} /\ unsent' = unsent \ {m}
    /\ replays' = replays + 1
    /\ UNCHANGED <<result, crashes>>

HandlerStep(m) ==
    \/ Receive(m)
    \/ \E r \in Results : Process(m, r)
    \/ \E sent \in BOOLEAN : RouteToDLQ(m, sent)
    \/ Ack(m)
    \/ Nack(m)

Next == \E m \in Msgs :
    \/ HandlerStep(m)
    \/ \E counted \in BOOLEAN : Crash(m, counted)
    \/ Replay(m)

Spec == Init /\ [][Next]_vars

\* A goroutine runs to its end unless the process crashes, and the broker
\* delivers what it holds: every handler step is weakly fair.
FairSpec == Spec /\ \A m \in Msgs : WF_vars(HandlerStep(m))

-------------------------------------------------------------------------------
\* A message the broker has forgotten was processed, or is in the dead-letter
\* topic, or its dead-letter publish failed: HandleMessage acknowledges only
\* after one of the three, whatever crashes and redeliveries came before.
NoSilentLoss ==
    \A m \in Msgs : phase[m] = "acked" => m \in done \cup DlqTopic \cup unsent

\* A message that was never replayed is nacked at most maxRetries times, also
\* when crashes of the process used up some of the broker's count.
RetriesBounded ==
    \A m \in Msgs : prop[m] = NoProp => nacks[m] <= MaxRetries

\* The subscription behaves as Delivery says, with the unacknowledged messages
\* pending and the failed dead-letter publishes as its leak.
Promise == INSTANCE Delivery WITH
    pending <- {m \in Msgs : phase[m] # "acked"},
    processed <- done, buried <- DlqTopic, leaked <- unsent
ImplementsDelivery == Promise!DSpec

\* With finitely many crashes retrying stops: every message is acknowledged in
\* the end, unless it is a replayed letter, whose count never grows.
EventuallySettled ==
    \A m \in Msgs : <>[](phase[m] = "acked" \/ prop[m] # NoProp)

===============================================================================
