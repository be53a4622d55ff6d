------------------------------ MODULE ChatTurns ------------------------------
(***************************************************************************)
(* One turn of a chat, from the route to the saved history: the            *)
(* conversation is resolved, the orchestrator guards and routes the        *)
(* question, the answer is saved.  Every database call takes a connection  *)
(* of the pool, which raises when it is empty instead of waiting.          *)
(***************************************************************************)
EXTENDS Naturals, Sequences, FiniteSets

CONSTANTS Requests,   \* threads that serve POST /chat
          Users,
          Admins,     \* the users whose token says is_admin
          Configs,    \* the configurations an administrator may set
          PoolSize    \* maxconn of the application pool

Modes == {"monitor", "enforce"}

Config == [sql : BOOLEAN, emergency : BOOLEAN, lockdown : BOOLEAN, mode : Modes]

ASSUME ChatAssumption ==
    /\ Users # {} /\ Admins \subseteq Users
    /\ Configs \subseteq Config
    /\ PoolSize \in Nat \ {0}

VARIABLES config,         \* the worker's configuration snapshot
          conversations,  \* the owner of every conversation, in the order of their ids
          recent,         \* conversation ids in the order of updated_at, the newest last
          history,        \* the rows of chat_history
          proposals,      \* the stored proposals
          events,         \* the rows of security_events by the guards of the question and of SQL
          req,            \* what each request knows
          conn            \* the requests that hold a connection

store == <<conversations, recent, history, proposals, events>>
chat_vars == <<config, store, req, conn>>

NewConversation == 0                  \* no conversation_id in the request: start a conversation

Verdicts == {"clean", "pii", "hostile"}
Routes == {"none", "rag", "sql", "hybrid", "reject"}
Statuses == {"none", "blocked", "answered", "rejected", "approval_required"}

Guards == {"input", "tool"}

DatabaseSteps == {"resolve", "audit", "deny", "audit_context", "audit_output", "read_catalog",
                  "store", "save", "touch"}
Steps == DatabaseSteps \union {"guard", "route", "ask_router", "rag", "draft", "generate"}
Over == {"replied", "failed"}

NoConfig == [sql |-> FALSE, emergency |-> FALSE, lockdown |-> FALSE, mode |-> "monitor"]
NoTurn == [pc |-> "idle", user |-> CHOOSE u \in Users : TRUE, conv |-> NewConversation, scan |-> "clean",
           plan |-> NoConfig, route |-> "none", rag |-> FALSE, status |-> "none"]

Turn == [pc : Steps \union Over \union {"idle"}, user : Users, conv : Nat, scan : Verdicts,
         plan : Config, route : Routes, rag : BOOLEAN, status : Statuses]

ChatInit ==
    /\ config \in Configs
    /\ conversations = <<>>
    /\ recent = <<>>
    /\ history = <<>>
    /\ proposals = {}
    /\ events = {}
    /\ req = [r \in Requests |-> NoTurn]
    /\ conn = {}

-----------------------------------------------------------------------------
\* Moving on: the request has its next step and gives its connection back.
Goes(r, changed) == /\ req' = [req EXCEPT ![r] = changed]
                    /\ conn' = conn \ {r}

At(r, step) == [req[r] EXCEPT !.pc = step]
Answers(r, status) == [req[r] EXCEPT !.pc = "save", !.status = status]

\* Mutant: the second write is outside of the try.
SaveOnly == {"save"}

\* Saving the turn is best effort: whatever goes wrong there, the answer is returned.
BestEffort == {"save", "touch"}
Raised(r) == At(r, IF req[r].pc \in BestEffort THEN "replied" ELSE "failed")

\* Whether the answer of the database to a commit arrives.
Committed(r, arrives, changed) == Goes(r, IF arrives THEN changed ELSE Raised(r))

\* PostgresConnectionPool.connection.
InUse == Cardinality(conn)

Take(r) == /\ req[r].pc \in DatabaseSteps /\ r \notin conn
           /\ InUse < PoolSize
           /\ conn' = conn \union {r}
           /\ UNCHANGED <<config, store, req>>

Exhausted(r) == /\ req[r].pc \in DatabaseSteps /\ r \notin conn
                /\ InUse >= PoolSize
                /\ Goes(r, Raised(r))
                /\ UNCHANGED <<config, store>>

\* A statement, a scanner, a model or the retrieval raises; a transaction is rolled back.
Raises(r) == /\ req[r].pc \in Steps \ {"route"}
             /\ req[r].pc \in DatabaseSteps => r \in conn
             /\ Goes(r, Raised(r))
             /\ UNCHANGED <<config, store>>

Holds(r, step) == req[r].pc = step /\ r \in conn

-----------------------------------------------------------------------------
\* A request arrives, with the user of its token and maybe a conversation.
Ask(r, u, c, scan) ==
    /\ req[r].pc = "idle"
    /\ c \in {NewConversation} \union DOMAIN conversations
    /\ req' = [req EXCEPT ![r] = [NoTurn EXCEPT !.pc = "resolve", !.user = u, !.conv = c,
                                              !.scan = scan]]
    /\ UNCHANGED <<config, store, conn>>

Create(r, arrives) ==
    /\ Holds(r, "resolve") /\ req[r].conv = NewConversation
    /\ conversations' = Append(conversations, req[r].user)
    /\ recent' = Append(recent, Len(conversations) + 1)
    /\ Committed(r, arrives, [req[r] EXCEPT !.pc = "guard", !.conv = Len(conversations) + 1])
    /\ UNCHANGED <<config, history, proposals, events>>

\* Mutant: the conversation is looked up by its id alone.
Anyones(c, u) == TRUE

Owned(c, u) == conversations[c] = u

Lookup(r) ==
    /\ Holds(r, "resolve") /\ req[r].conv # NewConversation
    /\ Goes(r, IF Owned(req[r].conv, req[r].user) THEN At(r, "guard") ELSE Raised(r))
    /\ UNCHANGED <<config, store>>

-----------------------------------------------------------------------------
\* GuardrailPolicy.decide: monitor mode applies nothing.
Action(scan, mode) ==
    CASE mode = "monitor" -> "allow"
      [] mode = "enforce" /\ scan = "hostile" -> "block"
      [] mode = "enforce" /\ scan = "pii" -> "redact"
      [] OTHER -> "allow"

\* Mutant: only what is acted upon is recorded.
RecordedIfApplied(scan, mode) == Action(scan, mode) # "allow"

\* What is recorded: a finding worth a block, in either mode, and a redaction.
Recorded(scan, mode) == scan = "hostile" \/ Action(scan, mode) = "redact"

\* Mutant: the mode is read again after the audit.
BlockedNow(r) == Action(req[r].scan, config.mode) = "block"

Blocked(r) == Action(req[r].scan, req[r].plan.mode) = "block"

\* QueryOrchestrator.answer reads the configuration once and guards the question.
Guard(r) ==
    /\ req[r].pc = "guard"
    /\ Goes(r, [req[r] EXCEPT !.plan = config,
                              !.pc = IF Recorded(req[r].scan, config.mode) THEN "audit"
                                     ELSE "route"])
    /\ UNCHANGED <<config, store>>

Audit(r, arrives) ==
    /\ Holds(r, "audit")
    /\ events' = events \union {<<r, "input">>}
    /\ Committed(r, arrives, IF Blocked(r) THEN Answers(r, "blocked") ELSE At(r, "route"))
    /\ UNCHANGED <<config, conversations, recent, history, proposals>>

\* SQL is reachable: enabled, not in an emergency, and the question sampled in.
SqlOpen(plan) == plan.sql /\ ~plan.emergency

Route(r, sampled) ==
    /\ req[r].pc = "route"
    /\ Goes(r, IF SqlOpen(req[r].plan) /\ sampled THEN At(r, "ask_router")
               ELSE [At(r, "rag") EXCEPT !.route = "rag"])
    /\ UNCHANGED <<config, store>>

\* Mutant: the lockdown is not asked about.
AdminSuffices(u, plan) == u \in Admins

\* ToolGuardrail.authorize_sql.
Authorised(u, plan) == ~plan.lockdown /\ u \in Admins

\* StructuredIntentRouter.route: an SQL route it is unsure of is a rejection.
AskRouter(r, route) ==
    /\ req[r].pc = "ask_router"
    /\ LET routed == [req[r] EXCEPT !.route = route]
           may == Authorised(req[r].user, req[r].plan)
           next == CASE route = "reject" -> "save"
                     [] route \in {"sql", "hybrid"} /\ ~may -> "deny"
                     [] route = "sql" /\ may -> "read_catalog"
                     [] route = "rag" \/ (route = "hybrid" /\ may) -> "rag"
       IN  Goes(r, [routed EXCEPT !.pc = next,
                                  !.status = IF next = "save" THEN "rejected" ELSE @])
    /\ UNCHANGED <<config, store>>

Deny(r, arrives) ==
    /\ Holds(r, "deny")
    /\ events' = events \union {<<r, "tool">>}
    /\ Committed(r, arrives, Answers(r, "rejected"))
    /\ UNCHANGED <<config, conversations, recent, history, proposals>>

-----------------------------------------------------------------------------
\* RAGService.answer, whose stages are in RagPipeline; here are its calls of the database.
\* It reads the configuration again.  An enforced context guard records what it drops, in a
\* row no property speaks of.
Rag(r, dropped) ==
    /\ req[r].pc = "rag"
    /\ dropped => config.mode = "enforce"
    /\ Goes(r, At(r, IF dropped THEN "audit_context" ELSE "draft"))
    /\ UNCHANGED <<config, store>>

AuditContext(r, arrives) ==
    /\ Holds(r, "audit_context")
    /\ Committed(r, arrives, At(r, "draft"))
    /\ UNCHANGED <<config, store>>

\* The answer of the documents is there: the whole of it, or the first half of a hybrid one.
WithAnswer(r) == IF req[r].route = "hybrid" THEN At(r, "read_catalog")
                 ELSE Answers(r, "answered")

\* The answer is made, or taken from a cache; the output guard records what it redacts,
\* blocks or, in monitor mode, would block.
Draft(r, flagged) ==
    /\ req[r].pc = "draft"
    /\ LET next == IF flagged THEN At(r, "audit_output") ELSE WithAnswer(r)
       IN  Goes(r, [next EXCEPT !.rag = TRUE])
    /\ UNCHANGED <<config, store>>

AuditOutput(r, arrives) ==
    /\ Holds(r, "audit_output")
    /\ Committed(r, arrives, WithAnswer(r))
    /\ UNCHANGED <<config, store>>

\* SQLService.propose: the catalog and the examples, the generation, the stored proposal.
ReadCatalog(r) ==
    /\ Holds(r, "read_catalog")
    /\ Goes(r, At(r, "generate"))
    /\ UNCHANGED <<config, store>>

\* Mutant: a hybrid answer without its SQL half still asks for an approval.
ApprovalAnyway(r) == IF req[r].route = "hybrid" THEN Answers(r, "approval_required")
                     ELSE Answers(r, "rejected")

\* SQLGenerationFailedError: a rejection, or the document half of a hybrid answer.
WithoutSql(r) == IF req[r].route = "hybrid" THEN Answers(r, "answered")
                 ELSE Answers(r, "rejected")

Generate(r, valid) ==
    /\ req[r].pc = "generate"
    /\ Goes(r, IF valid THEN At(r, "store") ELSE WithoutSql(r))
    /\ UNCHANGED <<config, store>>

\* Mutant: the halves of a hybrid answer are swapped, and the documents asked last.
ProposalFirst(r, arrives) ==
    /\ Holds(r, "store")
    /\ proposals' = proposals \union {[by |-> r, user |-> req[r].user, conv |-> req[r].conv]}
    /\ Committed(r, arrives, IF req[r].route = "hybrid" THEN At(r, "draft")
                             ELSE Answers(r, "approval_required"))
    /\ UNCHANGED <<config, conversations, recent, history, events>>

StoreProposal(r, arrives) ==
    /\ Holds(r, "store")
    /\ proposals' = proposals \union {[by |-> r, user |-> req[r].user, conv |-> req[r].conv]}
    /\ Committed(r, arrives, Answers(r, "approval_required"))
    /\ UNCHANGED <<config, conversations, recent, history, events>>

-----------------------------------------------------------------------------
\* ChatController._save_history: two transactions.
Save(r, arrives) ==
    /\ Holds(r, "save")
    /\ history' = Append(history, [by |-> r, user |-> req[r].user, conv |-> req[r].conv])
    /\ Committed(r, arrives, At(r, "touch"))
    /\ UNCHANGED <<config, conversations, recent, proposals, events>>

MovedLast(ids, c) ==
    LET at == CHOOSE i \in DOMAIN ids : ids[i] = c
    IN  [i \in DOMAIN ids |-> IF i < at THEN ids[i]
                             ELSE IF i < Len(ids) THEN ids[i + 1] ELSE c]

Touch(r) ==
    /\ Holds(r, "touch")
    /\ recent' = MovedLast(recent, req[r].conv)
    /\ Goes(r, At(r, "replied"))
    /\ UNCHANGED <<config, conversations, history, proposals, events>>

-----------------------------------------------------------------------------
\* The rest of the worker.
SetConfig(c) == /\ c # config
                /\ config' = c
                /\ UNCHANGED <<store, req, conn>>

\* The process dies: PostgreSQL rolls its open transactions back.
Crash == /\ \E r \in Requests : req[r].pc \in Steps
         /\ req' = [r \in Requests |-> IF req[r].pc \in Steps THEN At(r, "failed") ELSE req[r]]
         /\ conn' = {}
         /\ UNCHANGED <<config, store>>

\* The steps of a request that has arrived.
Serve(r) ==
    \/ Take(r) \/ Exhausted(r) \/ Raises(r)
    \/ Lookup(r) \/ Guard(r) \/ ReadCatalog(r) \/ Touch(r)
    \/ \E arrives \in BOOLEAN : \/ Create(r, arrives) \/ Audit(r, arrives) \/ Deny(r, arrives)
                                \/ AuditContext(r, arrives) \/ AuditOutput(r, arrives)
                                \/ StoreProposal(r, arrives) \/ Save(r, arrives)
    \/ \E found \in BOOLEAN : Rag(r, found) \/ Draft(r, found)
    \/ \E sampled \in BOOLEAN : Route(r, sampled)
    \/ \E route \in Routes \ {"none"} : AskRouter(r, route)
    \/ \E valid \in BOOLEAN : Generate(r, valid)

ChatNext ==
    \/ \E r \in Requests :
          \/ Serve(r)
          \/ \E u \in Users, c \in {NewConversation} \union DOMAIN conversations, scan \in Verdicts :
                Ask(r, u, c, scan)
    \/ \E c \in Configs : SetConfig(c)
    \/ Crash

ChatSpec == ChatInit /\ [][ChatNext]_chat_vars
ChatFairSpec == ChatSpec /\ \A r \in Requests : WF_chat_vars(Serve(r))

-----------------------------------------------------------------------------
ChatTypeOK ==
    /\ config \in Config
    /\ conversations \in Seq(Users)
    /\ recent \in Seq(Nat)
    /\ history \in Seq([by : Requests, user : Users, conv : Nat])
    /\ proposals \subseteq [by : Requests, user : Users, conv : Nat]
    /\ events \subseteq Requests \X Guards
    /\ req \in [Requests -> Turn]
    /\ conn \subseteq Requests

\* A turn and a proposal belong to a conversation of their own user: the check of
\* _resolve_conversation, made long before and in another transaction, still holds when
\* the answer is saved.
OwnTurns ==
    /\ \A i \in DOMAIN history :
          /\ history[i].conv \in DOMAIN conversations
          /\ conversations[history[i].conv] = history[i].user
    /\ \A p \in proposals : /\ p.conv \in DOMAIN conversations
                           /\ conversations[p.conv] = p.user

\* A proposal is stored only for an administrator, for a question that was not blocked,
\* under a configuration that opened SQL and not under lockdown, on both routes to it;
\* that is the configuration the request captured, whatever was set since.
ProposalsAuthorised ==
    \A p \in proposals :
        LET by == req[p.by]
        IN  /\ p.user \in Admins
            /\ by.plan.sql /\ ~by.plan.emergency /\ ~by.plan.lockdown
            /\ ~(by.scan = "hostile" /\ by.plan.mode = "enforce")

\* What a response says happened has happened: it announces a proposal exactly when one
\* was stored for its conversation, and an answer from the documents only if they were
\* asked, on the hybrid route too, whichever half failed.
ResponseIsTrue ==
    \A r \in Requests : req[r].pc = "replied" =>
        /\ req[r].status # "none"
        /\ req[r].status = "approval_required" <=>
              [by |-> r, user |-> req[r].user, conv |-> req[r].conv] \in proposals
        /\ req[r].status = "answered" => req[r].rag
        /\ req[r].status = "approval_required" /\ req[r].route = "hybrid" => req[r].rag

\* Nothing is answered before the audit trail has it: a finding worth a block, in
\* either mode, and a denied SQL route have their row before anything is returned.
AuditedFirst ==
    \A r \in Requests : req[r].status # "none" =>
        /\ req[r].scan = "hostile" => <<r, "input">> \in events
        /\ req[r].route \in {"sql", "hybrid"}
              /\ (req[r].plan.lockdown \/ req[r].user \notin Admins) => <<r, "tool">> \in events

\* A blocked question reaches neither the router, nor the documents, nor SQL.
BlockedStopsThere ==
    \A r \in Requests :
        req[r].scan = "hostile" /\ req[r].plan.mode = "enforce" =>
            /\ req[r].route = "none" /\ ~req[r].rag
            /\ \A p \in proposals : p.by # r

\* The guard comes first, and what it finds holds, whatever the configuration becomes.
GuardComesFirst == AuditedFirst /\ BlockedStopsThere

\* The pool is never overdrawn, and a connection is held only inside a database call:
\* an exception on the way gives it back.
ConnectionsComeBack ==
    /\ InUse <= PoolSize
    /\ \A r \in conn : req[r].pc \in DatabaseSteps

\* A request does not fail after it has stored something, unless the process dies: once
\* its proposal or its turn is known to be in the database, the caller is told.  The
\* proposal is the last of what may fail, on the hybrid route too, and the turn is saved on
\* a best effort.  (A commit whose answer is lost fails in the step that stores, so that a
\* proposal may be left behind nobody was told of.)
StoredIsTold ==
    [][\A r \in Requests :
          /\ \/ \E p \in proposals : p.by = r
             \/ \E i \in DOMAIN history : history[i].by = r
          /\ req[r].pc # "failed" /\ req'[r].pc = "failed"
          => Crash]_chat_vars

\* "an answer that already cost an LLM call shouldn't 500": once the documents have been
\* asked and the answer is made, the request does not fail.
AnswerOutlivesFailures ==
    [][\A r \in Requests :
          req[r].rag /\ req[r].pc # "failed" /\ req'[r].pc = "failed" => Crash]_chat_vars

\* Nobody waits for ever: every request ends, since the pool raises when it is empty
\* and each call returns or raises.
EveryTurnEnds == \A r \in Requests : req[r].pc \in Steps ~> req[r].pc \in Over

\* The audit is meant to change nothing in monitor mode: a request that fails at it
\* does so only under enforce.
MonitorOnlyObserves ==
    [][\A r \in Requests :
          req[r].pc = "audit" /\ (Exhausted(r) \/ Raises(r)) =>
              req[r].plan.mode = "enforce"]_chat_vars

\* The list of conversations starts with the one that has the latest turn, once
\* nothing is in flight and nothing failed.
MostRecentFirst ==
    /\ history # <<>>
    /\ \A r \in Requests : req[r].pc \in {"idle", "replied"}
    => recent[Len(recent)] = history[Len(history)].conv

=============================================================================
