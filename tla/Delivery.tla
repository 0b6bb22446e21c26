------------------------------- MODULE Delivery -------------------------------
(***************************************************************************)
(* What a consumer behind dlq.Handler promises about the messages of its   *)
(* subscription: a message leaves the subscription only after it has been  *)
(* processed, stored in the dead-letter topic, or -- the one leak -- after *)
(* the attempt to store it there failed.                                   *)
(***************************************************************************)
CONSTANT Msgs

VARIABLES
    pending,    \* messages the broker still holds for the subscription
    processed,  \* messages some delivery of which was processed
    buried,     \* messages stored in the dead-letter topic
    leaked      \* messages whose dead-letter publish failed

dVars == <<pending, processed, buried, leaked>>

DInit ==
    /\ pending = Msgs
    /\ processed = {} /\ buried = {} /\ leaked = {}

Process(m) ==
    /\ m \in pending
    /\ processed' = processed \cup {m}
    /\ UNCHANGED <<pending, buried, leaked>>

Bury(m) ==
    /\ m \in pending
    /\ buried' = buried \cup {m}
    /\ UNCHANGED <<pending, processed, leaked>>

Leak(m) ==
    /\ m \in pending
    /\ leaked' = leaked \cup {m}
    /\ UNCHANGED <<pending, processed, buried>>

\* The broker forgets a message: only one whose fate is known.
Forget(m) ==
    /\ m \in pending
    /\ m \in processed \cup buried \cup leaked
    /\ pending' = pending \ {m}
    /\ UNCHANGED <<processed, buried, leaked>>

\* An operator publishes a dead letter again: it is pending, and its fate is
\* open, as if it had never been delivered.
Resubmit(m) ==
    /\ m \in buried \ pending
    /\ pending' = pending \cup {m}
    /\ processed' = processed \ {m}
    /\ buried' = buried \ {m}
    /\ leaked' = leaked \ {m}

DNext == \E m \in Msgs : Process(m) \/ Bury(m) \/ Leak(m) \/ Forget(m) \/ Resubmit(m)

DSpec == DInit /\ [][DNext]_dVars
===============================================================================
