---------------------------- MODULE WorkerWiring ----------------------------
(***************************************************************************)
(* The getters of app.api.deps and what each of them calls, in the order   *)
(* of its arguments; settings, which startup has read, are left out.       *)
(***************************************************************************)
EXTENDS LazySingletons

\* Clients and repositories.
StoreGetters ==
    [db_pool |-> <<>>, rag_ops_repository |-> <<"db_pool">>,
     security_events_repository |-> <<"db_pool">>, rag_metrics_service |-> <<>>,
     redis_client |-> <<>>]

ModelGetters ==
    [openai_client |-> <<>>, llm_client |-> <<"openai_client">>]

EmbeddingGetters ==
    [embedding_client |-> <<"openai_client", "query_cache_service">>,
     qdrant_client |-> <<>>, vector_repository |-> <<"qdrant_client">>,
     sparse_embedding_client |-> <<>>,
     retrieval_strategies |-> <<"vector_repository", "sparse_embedding_client">>]

\* The stages around retrieval and generation.
HydeGetters ==
    [hyde_transformer |-> <<"llm_client">>, dynamic_hyde_transformer |-> <<"hyde_transformer">>,
     eval_hyde_transformer |-> <<"hyde_transformer">>]

CragGradingGetters ==
    [crag_grader |-> <<"llm_client">>, crag_refiner |-> <<"llm_client">>]

CragWebGetters ==
    [regulatory_web_retriever |-> <<>>, web_query_formulator |-> <<"llm_client">>]

CragGetters ==
    [crag_delegate |-> <<"crag_grader", "crag_refiner", "regulatory_web_retriever",
                         "web_query_formulator">>,
     dynamic_crag |-> <<"crag_delegate">>, eval_crag |-> <<"crag_delegate">>]

ReflectionGetters ==
    [reflection_critic |-> <<"llm_client">>, reflection_decision_policy |-> <<>>,
     answer_reviser |-> <<"llm_client">>,
     self_reflection_delegate |-> <<"reflection_critic", "reflection_decision_policy",
                                    "answer_reviser">>,
     dynamic_self_reflection |-> <<"self_reflection_delegate">>,
     eval_self_reflection |-> <<"self_reflection_delegate">>]

RerankerGetters ==
    [dynamic_reranker |-> <<"rag_metrics_service">>, reranker |-> <<>>]

\* Mutant: the cache embeds its keys itself, with the client that reads the cache.
CacheGettersCyclic ==
    [semantic_query_cache |-> <<"qdrant_client">>,
     query_cache_service |-> <<"redis_client", "embedding_client">>]

CacheGetters ==
    [semantic_query_cache |-> <<"qdrant_client">>, query_cache_service |-> <<"redis_client">>]

ConfigStoreGetter == [rag_runtime_config_store |-> <<"rag_ops_repository">>]

GuardGetters ==
    [llm_guard_input_scanner |-> <<>>, llm_guard_output_scanner |-> <<>>,
     guardrail_policy |-> <<>>,
     input_guard_pipeline |-> <<"llm_guard_input_scanner", "guardrail_policy",
                                "security_events_repository">>,
     context_guard_pipeline |-> <<"llm_guard_input_scanner", "guardrail_policy",
                                  "security_events_repository">>,
     output_guard_pipeline |-> <<"llm_guard_output_scanner", "guardrail_policy",
                                 "security_events_repository">>,
     tool_guardrail |-> <<"security_events_repository">>]

RagGetters ==
    [rag_service |-> <<"embedding_client", "retrieval_strategies", "llm_client",
                       "query_cache_service", "dynamic_reranker", "semantic_query_cache",
                       "rag_metrics_service", "dynamic_hyde_transformer", "dynamic_crag",
                       "rag_runtime_config_store", "dynamic_self_reflection",
                       "context_guard_pipeline", "output_guard_pipeline">>]

\* The SQL route and the orchestrator in front of both.
SqlPartGetters ==
    [sql_pool |-> <<>>, sql_catalog |-> <<"db_pool">>,
     sql_generator |-> <<"qdrant_client", "openai_client">>, sql_policy |-> <<>>,
     sql_executor |-> <<"sql_pool">>, sql_result_policy |-> <<>>,
     sql_answerer |-> <<"llm_client">>, sql_proposal_repository |-> <<"db_pool">>,
     sql_example_repository |-> <<"db_pool">>]

OrchestrationGetters ==
    [sql_service |-> <<"sql_catalog", "sql_generator", "sql_policy", "sql_executor",
                       "sql_result_policy", "sql_answerer", "sql_proposal_repository",
                       "sql_example_repository", "rag_runtime_config_store">>,
     intent_router |-> <<"llm_client">>,
     query_orchestrator |-> <<"rag_service", "intent_router", "sql_service",
                              "rag_runtime_config_store", "input_guard_pipeline",
                              "tool_guardrail">>]

IngestionGetters ==
    [document_processor |-> <<>>,
     policy_ingestion_service |-> <<"document_processor", "embedding_client",
                                    "sparse_embedding_client", "vector_repository">>,
     document_security_repository |-> <<"db_pool">>,
     ingestion_security_scanner |-> <<"llm_guard_input_scanner", "guardrail_policy",
                                      "security_events_repository">>,
     policy_ingestion_security_service |-> <<"policy_ingestion_service",
                                             "document_security_repository",
                                             "ingestion_security_scanner",
                                             "vector_repository",
                                             "rag_runtime_config_store">>]

\* Registration and login; only the limiter and the hasher are kept.
AuthGetters ==
    [auth_controller |-> <<"auth_service">>,
     auth_service |-> <<"user_repository", "password_hasher", "rate_limiter">>,
     user_repository |-> <<"db_pool">>, password_hasher |-> <<>>,
     rate_limiter |-> <<"redis_client">>]

\* Built for every request, out of what is kept.
PerRequestGetters ==
    [chat_controller |-> <<"query_orchestrator", "chat_history_repository",
                           "conversation_repository">>,
     chat_history_repository |-> <<"db_pool">>, conversation_repository |-> <<"db_pool">>,
     sql_controller |-> <<"sql_service">>,
     health_checks |-> <<"db_pool", "redis_client">>,
     admin_controller |-> <<"health_checks", "query_cache_service",
                            "policy_ingestion_security_service", "semantic_query_cache",
                            "rag_ops_repository", "security_events_repository">>,
     rag_ops_controller |-> <<"rag_ops_repository", "rag_runtime_config_store",
                              "dynamic_reranker", "rag_metrics_service",
                              "regulatory_web_retriever">>]

\* RagOpsConfigPoller: the repository it reads, the store it writes.
PollerParts == [rag_ops_config_poller |-> <<"rag_ops_repository", "rag_runtime_config_store">>]

Groups ==
    {StoreGetters, ModelGetters, EmbeddingGetters, HydeGetters, CragGradingGetters,
     CragWebGetters, CragGetters, ReflectionGetters, RerankerGetters, CacheGetters,
     ConfigStoreGetter, GuardGetters, RagGetters, SqlPartGetters, OrchestrationGetters,
     IngestionGetters, AuthGetters, PerRequestGetters, PollerParts}

AllGetters == UNION {DOMAIN group : group \in Groups}

Graph == [g \in AllGetters |-> (CHOOSE group \in Groups : g \in DOMAIN group)[g]]

\* Mutant: get_rag_metrics_service without its decorator.
NotKeptForgotten ==
    DOMAIN PerRequestGetters \union DOMAIN PollerParts \union {"auth_controller",
        "auth_service", "user_repository", "rag_metrics_service"}

NotKept ==
    DOMAIN PerRequestGetters \union DOMAIN PollerParts \union {"auth_controller",
        "auth_service", "user_repository"}

Cached == AllGetters \ NotKept

\* What holds state of the process: connections, counters, the flags and locks of the
\* caches, the configuration.
Stateful == {"db_pool", "sql_pool", "redis_client", "openai_client", "qdrant_client",
             "rag_metrics_service", "query_cache_service", "semantic_query_cache",
             "sql_generator", "dynamic_reranker", "rag_runtime_config_store"}

\* Constructors that connect to PostgreSQL or Qdrant.
Connecting == {"db_pool", "sql_pool", "vector_repository", "sql_generator",
               "rag_runtime_config_store"}

\* lifespan.
Warmed == {"llm_guard_input_scanner", "llm_guard_output_scanner"}

\* The docstring of get_rag_runtime_config_store: "the single shared source", so that
\* a change of the configuration reaches every collaborator.
OneConfiguration ==
    \A o \in objects : singleton[o.of] = o.by =>
        \A i \in DOMAIN o.parts :
            Needs[o.of][i] = "rag_runtime_config_store" =>
                o.parts[i] = singleton["rag_runtime_config_store"]

=============================================================================
