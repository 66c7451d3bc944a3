------------------------------ MODULE MCEngine ------------------------------
(* Engine for TLC: one message of a single-handler type, two of a batch type. *)
EXTENDS EngineRefinement

CONSTANTS s1, b1, b2

OneSingle == {s1}
TwoBatched == {b1, b2}
Three == OneSingle \cup TwoBatched

\* A worker as narrow as it can be behind an acknowledgement channel that is soon full.
Narrow == [poolSize |-> 1, maxInflight |-> 1, maxBatch |-> 0, ackCap |-> 1,
           due |-> Three, maxAttempts |-> 1]
\* Two handlers at a time.
Wide == [poolSize |-> 2, maxInflight |-> 1, maxBatch |-> 0, ackCap |-> 1,
         due |-> {s1, b1}, maxAttempts |-> 1]
\* No limit per type, split batches, acknowledgements one by one, and retries.
Direct == [poolSize |-> 2, maxInflight |-> 0, maxBatch |-> 1, ackCap |-> 0,
           due |-> TwoBatched, maxAttempts |-> 2]
Deployments == {Narrow, Wide, Direct}

=============================================================================
