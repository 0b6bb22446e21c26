--------------------------------- MODULE Dlq ---------------------------------
(***************************************************************************)
(* The retry decision of common/dlq (Handler.HandleMessage), shared by     *)
(* every service that wraps its Pulsar consumer in a dlq.Handler: the      *)
(* rag-worker, the db-adapter and the qdrant-adapter.                      *)
(***************************************************************************)
EXTENDS Integers

CONSTANT MaxRetries  \* Handler.maxRetries: DLQ_MAX_RETRIES, default 3

\* NewHandler ignores a configured value <= 0.
ASSUME RetryAssumption == MaxRetries \in Nat \ {0}

\* dlq.ProcessResult
Results == {"success", "transient", "permanent"}

\* The message carries no dlq-retry-count property.
NoProp == -1

\* Mutant: the retries that are left, instead of those that were made.
MutRetriesLeft(prop, redelivered) == MaxRetries - redelivered

\* getRetryCount: the property written by routeToDLQ wins over the broker's
\* redelivery counter.
RetryCount(prop, redelivered) == IF prop # NoProp THEN prop ELSE redelivered

\* Mutant: an off-by-one in the comparison with maxRetries.
MutOneRetryTooMany(result, retries) ==
    CASE result = "success"   -> "ack"
      [] result = "permanent" -> "bury"
      [] OTHER                -> IF retries > MaxRetries THEN "bury" ELSE "nack"

\* The branch HandleMessage takes once processFunc has returned.
Disposition(result, retries) ==
    CASE result = "success"   -> "ack"
      [] result = "permanent" -> "bury"
      [] OTHER                -> IF retries >= MaxRetries THEN "bury" ELSE "nack"
===============================================================================
