--------------------------- MODULE DlqHandlerProofs ---------------------------
(***************************************************************************)
(* For any set of messages, any retry limit and any number of crashes and  *)
(* replays: the types, the two safety invariants of DlqHandler, and that   *)
(* the handler implements Delivery.                                        *)
(***************************************************************************)
EXTENDS DlqHandler, TLAPS

\* What the result of a Process step decides: an "ack" means success.
LEMMA AckIsSuccess ==
    ASSUME NEW r \in Results, NEW n \in Nat, Disposition(r, n) = "ack"
    PROVE  r = "success"
  BY DEF Disposition, Results

\* A "nack" is given only below the retry limit.
LEMMA NackBelowLimit ==
    ASSUME NEW r \in Results, NEW n \in Nat, Disposition(r, n) = "nack"
    PROVE  n < MaxRetries
  BY RetryAssumption DEF Disposition, Results

\* Every state of the handler is well typed: in particular the redelivery
\* counters never leave their range and a dead letter's property is a count.
THEOREM TypeCorrect == Spec => []TypeOK
<1>1. Init => TypeOK
  BY BoundAssumption DEF Init, TypeOK, Phases, Results, NoProp
<1>2. TypeOK /\ [Next]_vars => TypeOK'
  <2> SUFFICES ASSUME TypeOK, [Next]_vars PROVE TypeOK'
    OBVIOUS
  <2> USE BoundAssumption DEF TypeOK, Phases
  <2>1. ASSUME NEW m \in Msgs, Receive(m) PROVE TypeOK'
    BY <2>1 DEF Receive
  <2>2. ASSUME NEW m \in Msgs, NEW r \in Results, Process(m, r) PROVE TypeOK'
    BY <2>2 DEF Process
  <2>3. ASSUME NEW m \in Msgs, NEW sent \in BOOLEAN, RouteToDLQ(m, sent) PROVE TypeOK'
    BY <2>3 DEF RouteToDLQ, Retries, RetryCount
  <2>4. ASSUME NEW m \in Msgs, Ack(m) PROVE TypeOK'
    BY <2>4 DEF Ack
  <2>5. ASSUME NEW m \in Msgs, Nack(m) PROVE TypeOK'
    BY <2>5 DEF Nack, Count
  <2>6. ASSUME NEW m \in Msgs, NEW counted \in BOOLEAN, Crash(m, counted) PROVE TypeOK'
    BY <2>6 DEF Crash, Count
  <2>7. ASSUME NEW m \in Msgs, Replay(m) PROVE TypeOK'
    BY <2>7 DEF Replay, DlqTopic
  <2>8. CASE UNCHANGED vars
    BY <2>8 DEF vars
  <2> QED BY <2>1, <2>2, <2>3, <2>4, <2>5, <2>6, <2>7, <2>8 DEF Next, HandlerStep
<1> QED BY <1>1, <1>2, PTL DEF Spec

-------------------------------------------------------------------------------
\* The inductive form of NoSilentLoss: a message whose processing succeeded is
\* in done, and a message that has been routed left a trace.
FateKnown ==
    \A m \in Msgs :
        /\ phase[m] = "decided" /\ result[m] = "success" => m \in done
        /\ phase[m] = "routed" => m \in DlqTopic \cup unsent
        /\ phase[m] = "acked" => m \in done \cup DlqTopic \cup unsent

\* FateKnown is inductive, given the types.
LEMMA FateKnownStep == TypeOK /\ FateKnown /\ [Next]_vars => FateKnown'
<1> SUFFICES ASSUME TypeOK, FateKnown, [Next]_vars PROVE FateKnown'
  OBVIOUS
<1> USE DEF TypeOK, FateKnown, DlqTopic
<1>1. ASSUME NEW m \in Msgs, Receive(m) PROVE FateKnown'
  BY <1>1 DEF Receive
<1>2. ASSUME NEW m \in Msgs, NEW r \in Results, Process(m, r) PROVE FateKnown'
  BY <1>2 DEF Process
<1>3. ASSUME NEW m \in Msgs, NEW sent \in BOOLEAN, RouteToDLQ(m, sent) PROVE FateKnown'
  BY <1>3 DEF RouteToDLQ, Retries, RetryCount, NoProp
<1>4. ASSUME NEW m \in Msgs, Ack(m) PROVE FateKnown'
  <2>1. Retries(m) \in Nat
    BY BoundAssumption DEF Retries, RetryCount, NoProp
  <2>2. phase[m] = "decided" => result[m] = "success" \/ phase[m] = "routed"
    BY <1>4, <2>1, AckIsSuccess DEF Ack
  <2> QED BY <1>4, <2>2 DEF Ack
<1>5. ASSUME NEW m \in Msgs, Nack(m) PROVE FateKnown'
  BY <1>5 DEF Nack
<1>6. ASSUME NEW m \in Msgs, NEW counted \in BOOLEAN, Crash(m, counted) PROVE FateKnown'
  BY <1>6 DEF Crash
<1>7. ASSUME NEW m \in Msgs, Replay(m) PROVE FateKnown'
  BY <1>7 DEF Replay
<1>8. CASE UNCHANGED vars
  BY <1>8 DEF vars
<1> QED BY <1>1, <1>2, <1>3, <1>4, <1>5, <1>6, <1>7, <1>8 DEF Next, HandlerStep

\* A fate, once known, stays known: the invariant behind NoSilentLossAlways.
LEMMA FateKnownAlways == Spec => []FateKnown
<1>1. Init => FateKnown
  BY DEF Init, FateKnown
<1> QED BY <1>1, FateKnownStep, TypeCorrect, PTL DEF Spec

\* HandleMessage forgets no message whose fate is unknown: an acknowledged
\* message was processed, is in the DLQ, or its DLQ publish failed.
THEOREM NoSilentLossAlways == Spec => []NoSilentLoss
<1>1. FateKnown => NoSilentLoss
  BY DEF FateKnown, NoSilentLoss
<1> QED BY <1>1, FateKnownAlways, PTL

-------------------------------------------------------------------------------
\* The inductive form of RetriesBounded: the broker counts every nack, so the
\* count of an unreplayed message is at least the number of its nacks.
NacksCounted ==
    \A m \in Msgs : prop[m] = NoProp =>
        nacks[m] <= redelivered[m] /\ nacks[m] <= MaxRetries

\* A message that was never replayed is nacked at most MaxRetries times.
THEOREM RetriesBoundedAlways == Spec => []RetriesBounded
<1>1. Init => NacksCounted
  BY RetryAssumption DEF Init, NacksCounted
<1>2. TypeOK /\ NacksCounted /\ [Next]_vars => NacksCounted'
  <2> SUFFICES ASSUME TypeOK, NacksCounted, [Next]_vars PROVE NacksCounted'
    OBVIOUS
  <2> USE RetryAssumption, BoundAssumption DEF TypeOK, NacksCounted
  <2>1. ASSUME NEW m \in Msgs, Receive(m) PROVE NacksCounted'
    BY <2>1 DEF Receive
  <2>2. ASSUME NEW m \in Msgs, NEW r \in Results, Process(m, r) PROVE NacksCounted'
    BY <2>2 DEF Process
  <2>3. ASSUME NEW m \in Msgs, NEW sent \in BOOLEAN, RouteToDLQ(m, sent) PROVE NacksCounted'
    BY <2>3 DEF RouteToDLQ
  <2>4. ASSUME NEW m \in Msgs, Ack(m) PROVE NacksCounted'
    BY <2>4 DEF Ack
  <2>5. ASSUME NEW m \in Msgs, Nack(m) PROVE NacksCounted'
    <3>1. Retries(m) \in Nat
      BY DEF Retries, RetryCount, NoProp
    <3>2. Retries(m) < MaxRetries
      BY <2>5, <3>1, NackBelowLimit DEF Nack
    <3>3. prop[m] = NoProp => redelivered[m] < MaxRetries
      BY <3>2 DEF Retries, RetryCount
    <3> QED BY <2>5, <3>3 DEF Nack, Count
  <2>6. ASSUME NEW m \in Msgs, NEW counted \in BOOLEAN, Crash(m, counted) PROVE NacksCounted'
    BY <2>6 DEF Crash, Count
  <2>7. ASSUME NEW m \in Msgs, Replay(m) PROVE NacksCounted'
    BY <2>7 DEF Replay
  <2>8. CASE UNCHANGED vars
    BY <2>8 DEF vars
  <2> QED BY <2>1, <2>2, <2>3, <2>4, <2>5, <2>6, <2>7, <2>8 DEF Next, HandlerStep
<1>3. NacksCounted => RetriesBounded
  BY DEF NacksCounted, RetriesBounded
<1> QED BY <1>1, <1>2, <1>3, TypeCorrect, PTL DEF Spec
-------------------------------------------------------------------------------
\* The handler implements Delivery: a crash, a nack and a receive stutter, and
\* every other step is the step of the promise it should be.
THEOREM HandlerImplementsDelivery == Spec => ImplementsDelivery
<1>1. Init => Promise!DInit
  BY DEF Init, Promise!DInit, DlqTopic
<1>2. TypeOK /\ FateKnown /\ [Next]_vars => [Promise!DNext]_(Promise!dVars)
  <2> SUFFICES ASSUME TypeOK, FateKnown, [Next]_vars
               PROVE  [Promise!DNext]_(Promise!dVars)
    OBVIOUS
  <2> USE DEF TypeOK, DlqTopic, Promise!dVars
  <2>1. ASSUME NEW m \in Msgs, Receive(m) PROVE UNCHANGED Promise!dVars
    BY <2>1 DEF Receive
  <2>2. ASSUME NEW m \in Msgs, NEW r \in Results, Process(m, r)
        PROVE  Promise!Process(m) \/ UNCHANGED Promise!dVars
    BY <2>2 DEF Process, Promise!Process
  <2>3. ASSUME NEW m \in Msgs, NEW sent \in BOOLEAN, RouteToDLQ(m, sent)
        PROVE  Promise!Bury(m) \/ Promise!Leak(m)
    <3>1. Retries(m) \in Nat
      BY BoundAssumption DEF Retries, RetryCount, NoProp
    <3> QED BY <2>3, <3>1 DEF RouteToDLQ, NoProp, Promise!Bury, Promise!Leak
  <2>4. ASSUME NEW m \in Msgs, Ack(m) PROVE Promise!Forget(m)
    <3>1. Retries(m) \in Nat
      BY BoundAssumption DEF Retries, RetryCount, NoProp
    <3>2. m \in done \cup DlqTopic \cup unsent
      BY <2>4, <3>1, AckIsSuccess DEF Ack, FateKnown
    <3> QED BY <2>4, <3>2 DEF Ack, Promise!Forget
  <2>5. ASSUME NEW m \in Msgs, Nack(m) PROVE UNCHANGED Promise!dVars
    BY <2>5 DEF Nack
  <2>6. ASSUME NEW m \in Msgs, NEW counted \in BOOLEAN, Crash(m, counted)
        PROVE  UNCHANGED Promise!dVars
    BY <2>6 DEF Crash
  <2>7. ASSUME NEW m \in Msgs, Replay(m) PROVE Promise!Resubmit(m)
    BY <2>7 DEF Replay, NoProp, Promise!Resubmit
  <2>8. CASE UNCHANGED vars
    BY <2>8 DEF vars
  <2> QED
    BY <2>1, <2>2, <2>3, <2>4, <2>5, <2>6, <2>7, <2>8
       DEF Next, HandlerStep, Promise!DNext
<1> QED
  BY <1>1, <1>2, TypeCorrect, FateKnownAlways, PTL
     DEF Spec, ImplementsDelivery, Promise!DSpec
===============================================================================
