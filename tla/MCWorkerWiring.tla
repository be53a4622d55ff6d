--------------------------- MODULE MCWorkerWiring ---------------------------
\* A request and the poller, both the first of their worker.
EXTENDS WorkerWiring

FirstCalls == [request |-> {"chat_controller", "sql_controller", "rag_ops_controller",
                            "admin_controller", "auth_controller"},
               poller |-> {"rag_ops_config_poller"}]

=============================================================================
