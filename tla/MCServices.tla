----------------------------- MODULE MCServices -----------------------------
(***************************************************************************)
(* The services that meet nowhere but in the process: small instances of   *)
(* their modules in one specification.  A behaviour is a behaviour of one  *)
(* part; the others stay as they began, each in one initial state.         *)
(***************************************************************************)
EXTENDS MCRagOpsConfig, MCWorkerWiring, LlmCalls, EmbeddingCalls, RateLimiter, RagMetrics,
        SemanticCollection, CollectionMigration

\* Metrics: two samples for every stage.
Slow == [latency |-> 3, fallback |-> TRUE]
Quick == [latency |-> 1, fallback |-> FALSE]
Graded == [latency |-> 2, decision |-> "correct", fallback |-> FALSE, abstain |-> FALSE,
           web_used |-> FALSE]
Corrected == [Graded EXCEPT !.latency = 3, !.decision = "incorrect", !.web_used = TRUE]
Accepted == [latency |-> 1, action |-> "accept", fallback |-> FALSE, iterations |-> 1,
             retrievals |-> 0]
Revised == [Accepted EXCEPT !.latency = 3, !.iterations = 2, !.retrievals = 1]

Observed == [rerank |-> {Slow, Quick}, hyde |-> {Slow, Quick}, crag |-> {Graded, Corrected},
             crag_shadow |-> {Graded, Corrected}, reflection |-> {Accepted, Revised},
             reflection_shadow |-> {Accepted, Revised}]

\* The semantic collection: two threads of one worker, and one of another.
Placed == [c1 |-> "A", c2 |-> "A", c3 |-> "B"]

VARIABLE part   \* the part that moves

ServicesInit ==
    /\ part \in {"config", "wiring", "llm", "embedding", "limiter", "metrics", "collection",
                 "migration"}
    /\ Init /\ LlmInit /\ EmbedInit /\ LimiterInit /\ MetricsInit
    /\ WiringInit /\ (part = "wiring" \/ asks["request"] = "chat_controller")
    /\ CollectionInit /\ (part = "collection" \/ ~exists)
    /\ MigrationInit /\ (part = "migration" \/ DOMAIN collections = {})

services_vars == <<vars, wiring_vars, llm_vars, embed_vars, limiter_vars, metrics_vars,
                   collection_vars, migration_vars>>

Moving(name) == part = name /\ UNCHANGED part

ConfigMoves == /\ Moving("config") /\ Next
               /\ UNCHANGED <<wiring_vars, llm_vars, embed_vars, limiter_vars, metrics_vars,
                              collection_vars, migration_vars>>
WiringMoves == /\ Moving("wiring") /\ WiringNext
               /\ UNCHANGED <<vars, llm_vars, embed_vars, limiter_vars, metrics_vars,
                              collection_vars, migration_vars>>
LlmMoves == /\ Moving("llm") /\ LlmNext
            /\ UNCHANGED <<vars, wiring_vars, embed_vars, limiter_vars, metrics_vars,
                           collection_vars, migration_vars>>
EmbedMoves == /\ Moving("embedding") /\ EmbedNext
              /\ UNCHANGED <<vars, wiring_vars, llm_vars, limiter_vars, metrics_vars,
                             collection_vars, migration_vars>>
LimiterMoves == /\ Moving("limiter") /\ LimiterNext
                /\ UNCHANGED <<vars, wiring_vars, llm_vars, embed_vars, metrics_vars,
                               collection_vars, migration_vars>>
MetricsMoves == /\ Moving("metrics") /\ MetricsNext
                /\ UNCHANGED <<vars, wiring_vars, llm_vars, embed_vars, limiter_vars,
                               collection_vars, migration_vars>>
CollectionMoves == /\ Moving("collection") /\ CollectionNext
                   /\ UNCHANGED <<vars, wiring_vars, llm_vars, embed_vars, limiter_vars,
                                  metrics_vars, migration_vars>>
MigrationMoves == /\ Moving("migration") /\ MigrationNext
                  /\ UNCHANGED <<vars, wiring_vars, llm_vars, embed_vars, limiter_vars,
                                 metrics_vars, collection_vars>>

ServicesNext ==
    \/ ConfigMoves \/ WiringMoves \/ LlmMoves \/ EmbedMoves \/ LimiterMoves \/ MetricsMoves
    \/ CollectionMoves \/ MigrationMoves

ServicesSpec == ServicesInit /\ [][ServicesNext]_<<part, services_vars>>

=============================================================================
