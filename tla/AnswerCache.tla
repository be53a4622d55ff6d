----------------------------- MODULE AnswerCache -----------------------------
(***************************************************************************)
(* Answers and their caches across a corpus change: RAGService.answer's    *)
(* cache-aside path over the exact-match cache (Redis) and the semantic    *)
(* cache (pointers in Qdrant), publications (approve_policy with           *)
(* invalidate_corpus_caches, or a replacing upload), cache_clear, and the  *)
(* workers' RagRuntimeConfigStore.                                         *)
(*                                                                         *)
(* The searchable corpus is a generation number that every change of it    *)
(* increments; an answer is known by the oldest generation its evidence is *)
(* from and the guardrail mode it was produced under.                      *)
(***************************************************************************)
EXTENDS Naturals, Sequences, FiniteSets

CONSTANTS
    Workers,
    Requests,        \* questions in flight
    Admins,          \* admin requests in flight
    Questions,       \* all paraphrases of each other
    MaxGeneration,   \* bound: changes of the corpus
    MaxConfigs,      \* bound: versions of the configuration row
    Replacing,       \* uploads replace documents that are searchable
    Failures,        \* admin requests may fail between two steps
    ModeSwitches     \* guardrail_mode is switched

Modes == {"enforce", "monitor"}

ASSUME CacheAssumption ==
    /\ Questions # {}
    /\ MaxGeneration \in Nat \ {0}
    /\ MaxConfigs \in Nat \ {0}
    /\ Replacing \in BOOLEAN
    /\ Failures \in BOOLEAN
    /\ ModeSwitches \in BOOLEAN

VARIABLES
    generation,  \* of the searchable chunks
    configs,     \* versions of the row: [corpus, mode, since]; since is the
                 \* generation when this corpus version was committed
    store,       \* store[w]: the version of the row w's store holds
    exact,       \* the exact-match cache: a partial function from keys to answers
    pointers,    \* the semantic cache: the keys it points to
    request,     \* request[r]: what question r is doing
    publication, \* publication[a]: what admin request a is doing
    orderly      \* history: every change of the corpus so far was an approval
                 \* that bumped the version or is still about to

vars == <<generation, configs, store, exact, pointers, request, publication, orderly>>

Generations == 1..MaxGeneration
Config == [corpus : 1..MaxConfigs, mode : Modes, since : Generations]
\* _cache_key: the question and the namespace, of which only the corpus version
\* matters here; the cohorts' part of it is the same for everybody.
Key == [corpus : 1..MaxConfigs, question : Questions]
Answer == [generation : Generations, mode : Modes]

\* config: the snapshot; generation: of its first retrieval, 0 before it;
\* keys: the semantic candidates that are still to be tried.
Request == [phase : {"idle", "exact", "semantic", "retrieving", "writing", "pointing"},
            question : Questions, config : 0..MaxConfigs,
            generation : 0..MaxGeneration, keys : SUBSET Key]
Publication == [phase : {"idle", "bumping", "listing", "deleting", "semantic"},
                keys : SUBSET Key]

AnyQuestion == CHOOSE q \in Questions : TRUE
Idle == [phase |-> "idle", question |-> AnyQuestion, config |-> 0, generation |-> 0, keys |-> {}]
NoPublication == [phase |-> "idle", keys |-> {}]

Latest == configs[Len(configs)]
Put(cache, key, answer) == [k \in DOMAIN cache \union {key} |-> IF k = key THEN answer ELSE cache[k]]
Without(cache, keys) == [k \in DOMAIN cache \ keys |-> cache[k]]

----------------------------------------------------------------------------
Init ==
    /\ generation = 1
    /\ \E mode \in Modes : configs = <<[corpus |-> 1, mode |-> mode, since |-> 1]>>
    /\ store = [w \in Workers |-> 1]
    /\ exact = [k \in {} |-> [generation |-> 1, mode |-> "enforce"]]
    /\ pointers = {}
    /\ request = [r \in Requests |-> Idle]
    /\ publication = [a \in Admins |-> NoPublication]
    /\ orderly = TRUE

----------------------------------------------------------------------------
(* RAGService.answer                                                       *)

\* The one read of the store; everything later in the request derives from it.
Capture(r, w, q) ==
    /\ request[r].phase = "idle"
    /\ request' = [request EXCEPT ![r] = [phase |-> "exact", question |-> q,
                                          config |-> store[w], generation |-> 0, keys |-> {}]]
    /\ UNCHANGED <<orderly, generation, configs, store, exact, pointers, publication>>

KeyOf(r) == [corpus |-> configs[request[r].config].corpus, question |-> request[r].question]

\* A hit ends the request.
ExactHit(r) ==
    /\ request[r].phase = "exact"
    /\ KeyOf(r) \in DOMAIN exact
    /\ request' = [request EXCEPT ![r] = Idle]
    /\ UNCHANGED <<orderly, generation, configs, store, exact, pointers, publication>>

\* Mutant: candidates are not filtered by namespace.
ExactMissUnpartitioned(r) ==
    /\ request[r].phase = "exact"
    /\ \/ request' = [request EXCEPT ![r].phase = "retrieving"]
       \/ request' = [request EXCEPT ![r].phase = "semantic", ![r].keys = pointers]
    /\ UNCHANGED <<orderly, generation, configs, store, exact, pointers, publication>>

\* A miss, or a read that failed; the semantic cache is asked for candidates of
\* the same namespace if it is enabled and answers.
ExactMiss(r) ==
    /\ request[r].phase = "exact"
    /\ \/ request' = [request EXCEPT ![r].phase = "retrieving"]
       \/ request' = [request EXCEPT ![r].phase = "semantic",
                                     ![r].keys = {k \in pointers : k.corpus = KeyOf(r).corpus}]
    /\ UNCHANGED <<orderly, generation, configs, store, exact, pointers, publication>>

\* Candidates are tried until one is still in the exact-match cache.
SemanticHit(r, k) ==
    /\ request[r].phase = "semantic"
    /\ k \in request[r].keys
    /\ k \in DOMAIN exact
    /\ request' = [request EXCEPT ![r] = Idle]
    /\ UNCHANGED <<orderly, generation, configs, store, exact, pointers, publication>>

SemanticStale(r, k) ==
    /\ request[r].phase = "semantic"
    /\ k \in request[r].keys
    /\ k \notin DOMAIN exact
    /\ request' = [request EXCEPT ![r].keys = @ \ {k}]
    /\ UNCHANGED <<orderly, generation, configs, store, exact, pointers, publication>>

SemanticMiss(r) ==
    /\ request[r].phase = "semantic"
    /\ request[r].keys = {}
    /\ request' = [request EXCEPT ![r].phase = "retrieving"]
    /\ UNCHANGED <<orderly, generation, configs, store, exact, pointers, publication>>

\* The first search; whatever is retrieved later in the request is newer.
Retrieve(r) ==
    /\ request[r].phase = "retrieving"
    /\ request' = [request EXCEPT ![r].phase = "writing", ![r].generation = generation]
    /\ UNCHANGED <<orderly, generation, configs, store, exact, pointers, publication>>

\* Mutant: the namespace is computed from the store when the answer is written.
StoreAnswerRereading(r) ==
    /\ request[r].phase = "writing"
    /\ exact' = Put(exact, [corpus |-> Latest.corpus, question |-> request[r].question],
                    [generation |-> request[r].generation,
                     mode |-> configs[request[r].config].mode])
    /\ request' = [request EXCEPT ![r].phase = "pointing"]
    /\ UNCHANGED <<orderly, generation, configs, store, pointers, publication>>

\* Generated, checked and written under the key computed at the start.
StoreAnswer(r) ==
    /\ request[r].phase = "writing"
    /\ exact' = Put(exact, KeyOf(r), [generation |-> request[r].generation,
                                      mode |-> configs[request[r].config].mode])
    /\ request' = [request EXCEPT ![r].phase = "pointing"]
    /\ UNCHANGED <<orderly, generation, configs, store, pointers, publication>>

\* A fallback, an abstention, a blocked answer or a failed write: nothing is cached.
AnswerUncached(r) ==
    /\ request[r].phase = "writing"
    /\ request' = [request EXCEPT ![r] = Idle]
    /\ UNCHANGED <<orderly, generation, configs, store, exact, pointers, publication>>

\* The pointer is recorded after a confirmed write, and that may fail too.
Point(r) ==
    /\ request[r].phase = "pointing"
    /\ pointers' \in {pointers, pointers \union {KeyOf(r)}}
    /\ request' = [request EXCEPT ![r] = Idle]
    /\ UNCHANGED <<orderly, generation, configs, store, exact, publication>>

----------------------------------------------------------------------------
(* Publications and clears.                                                *)

\* approve_policy makes the chunks searchable, and then invalidates.
Activate(a) ==
    /\ publication[a].phase = "idle"
    /\ generation < MaxGeneration
    /\ generation' = generation + 1
    /\ publication' = [publication EXCEPT ![a].phase = "bumping"]
    /\ UNCHANGED <<orderly, configs, store, exact, pointers, request>>

\* upload_policy of a source that is searchable deletes its chunks, and returns.
ReplaceUpload ==
    /\ Replacing
    /\ generation < MaxGeneration
    /\ generation' = generation + 1
    /\ orderly' = FALSE
    /\ UNCHANGED <<configs, store, exact, pointers, request, publication>>

\* Mutant: the caches are cleared, but the version stays.
BumpNothing(a) ==
    /\ publication[a].phase = "bumping"
    /\ publication' = [publication EXCEPT ![a].phase = "listing"]
    /\ UNCHANGED <<orderly, generation, configs, store, exact, pointers, request>>

\* bump_corpus_version commits; the config it returns goes nowhere.
Bump(a) ==
    /\ publication[a].phase = "bumping"
    /\ Len(configs) < MaxConfigs
    /\ configs' = Append(configs, [corpus |-> Latest.corpus + 1, mode |-> Latest.mode,
                                   since |-> generation])
    /\ publication' = [publication EXCEPT ![a].phase = "listing"]
    /\ UNCHANGED <<orderly, generation, store, exact, pointers, request>>

\* cache_clear clears the same tiers (and others), without a bump.
StartClear(a) ==
    /\ publication[a].phase = "idle"
    /\ publication' = [publication EXCEPT ![a].phase = "listing"]
    /\ UNCHANGED <<orderly, generation, configs, store, exact, pointers, request>>

\* delete_prefix lists the keys and deletes what it listed.
ListKeys(a) ==
    /\ publication[a].phase = "listing"
    /\ publication' = [publication EXCEPT ![a].phase = "deleting", ![a].keys = DOMAIN exact]
    /\ UNCHANGED <<orderly, generation, configs, store, exact, pointers, request>>

DeleteKeys(a) ==
    /\ publication[a].phase = "deleting"
    /\ exact' = Without(exact, publication[a].keys)
    /\ publication' = [publication EXCEPT ![a] = [phase |-> "semantic", keys |-> {}]]
    /\ UNCHANGED <<orderly, generation, configs, store, pointers, request>>

ClearSemantic(a) ==
    /\ publication[a].phase = "semantic"
    /\ pointers' = {}
    /\ publication' = [publication EXCEPT ![a] = NoPublication]
    /\ UNCHANGED <<orderly, generation, configs, store, exact, request>>

\* The request fails; the admin cannot repeat an approval that was recorded.
Fail(a) ==
    /\ Failures
    /\ publication[a].phase # "idle"
    /\ publication' = [publication EXCEPT ![a] = NoPublication]
    /\ orderly' = (orderly /\ publication[a].phase # "bumping")
    /\ UNCHANGED <<generation, configs, store, exact, pointers, request>>

----------------------------------------------------------------------------
\* update_config with a guardrail_mode.
SwitchMode(mode) ==
    /\ ModeSwitches
    /\ mode # Latest.mode
    /\ Len(configs) < MaxConfigs
    /\ configs' = Append(configs, [Latest EXCEPT !.mode = mode])
    /\ UNCHANGED <<orderly, generation, store, exact, pointers, request, publication>>

\* A poll or an apply brings some version of the row; RagOpsConfig shows why it
\* need not be a newer one.
Sync(w) ==
    /\ \E i \in DOMAIN configs : store' = [store EXCEPT ![w] = i]
    /\ UNCHANGED <<orderly, generation, configs, exact, pointers, request, publication>>

\* An answer reaches the end of its time to live.
Expire(k) ==
    /\ k \in DOMAIN exact
    /\ exact' = Without(exact, {k})
    /\ UNCHANGED <<orderly, generation, configs, store, pointers, request, publication>>

AnswerStep(r) ==
    \/ \E w \in Workers, q \in Questions : Capture(r, w, q)
    \/ ExactHit(r)
    \/ ExactMiss(r)
    \/ \E k \in Key : SemanticHit(r, k) \/ SemanticStale(r, k)
    \/ SemanticMiss(r)
    \/ Retrieve(r)
    \/ StoreAnswer(r)
    \/ AnswerUncached(r)
    \/ Point(r)

AdminStep(a) ==
    \/ Activate(a)
    \/ Bump(a)
    \/ StartClear(a)
    \/ ListKeys(a)
    \/ DeleteKeys(a)
    \/ ClearSemantic(a)
    \/ Fail(a)

Next ==
    \/ \E r \in Requests : AnswerStep(r)
    \/ \E a \in Admins : AdminStep(a)
    \/ ReplaceUpload
    \/ \E mode \in Modes : SwitchMode(mode)
    \/ \E w \in Workers : Sync(w)
    \/ \E k \in Key : Expire(k)

Spec == Init /\ [][Next]_vars

----------------------------------------------------------------------------
(* What the caches promise.                                                *)

\* Keys, answers, requests and publications keep their shapes.
TypeOK ==
    /\ generation \in Generations
    /\ configs \in Seq(Config) \ {<<>>}
    /\ Len(configs) <= MaxConfigs
    /\ \A i \in DOMAIN configs : configs[i].corpus <= i
    /\ store \in [Workers -> DOMAIN configs]
    /\ DOMAIN exact \subseteq Key
    /\ \A k \in DOMAIN exact : exact[k] \in Answer
    /\ pointers \subseteq Key
    /\ request \in [Requests -> Request]
    /\ \A r \in Requests :
         request[r].phase # "idle" => request[r].config \in DOMAIN configs
    /\ \A r \in Requests :
         request[r].phase = "writing" => request[r].generation # 0
    /\ publication \in [Admins -> Publication]
    /\ orderly \in BOOLEAN

\* Why the promises below hold: versions of the corpus never decrease along the
\* configurations, and one version has one generation, that has been reached; no
\* key is ahead of the latest version; what a request has retrieved is at least
\* as new as what it captured, and its candidates are of the version it captured.
Versions ==
    /\ \A i \in DOMAIN configs : configs[i].since <= generation
    /\ \A i, j \in DOMAIN configs : i <= j => configs[i].corpus <= configs[j].corpus
    /\ \A i, j \in DOMAIN configs :
         configs[i].corpus = configs[j].corpus => configs[i].since = configs[j].since

KeysKnown == \A k \in DOMAIN exact : k.corpus <= Latest.corpus

EvidenceFresh ==
    \A r \in Requests :
        request[r].phase = "writing" =>
            request[r].generation >= configs[request[r].config].since

CandidatesMatch ==
    \A r \in Requests :
        request[r].phase # "idle" =>
            \A k \in request[r].keys : k.corpus = configs[request[r].config].corpus

\* A corpus version makes every answer about an older corpus unreachable, "even
\* if the explicit clear calls fail or are skipped": what is cached under a
\* version was retrieved from a corpus at least as new as the version announces.
FreshNamespaces ==
    \A k \in DOMAIN exact : \A i \in DOMAIN configs :
        configs[i].corpus = k.corpus => exact[k].generation >= configs[i].since

Freshness == Versions /\ KeysKnown /\ EvidenceFresh /\ CandidatesMatch /\ FreshNamespaces

\* Question r is answered with what the cache holds under k.
Served(r, k) == (ExactHit(r) /\ k = KeyOf(r)) \/ SemanticHit(r, k)

\* A request is only ever answered from the cache with an answer at least as new
\* as the configuration it captured announces, even through a semantic pointer.
ServedFresh ==
    [][\A r \in Requests, k \in Key :
         Served(r, k) => exact[k].generation >= configs[request[r].config].since]_vars

\* invalidate_corpus_caches: when no admin request is under way, a worker that has
\* the current configuration finds no answer in its namespace that a change of the
\* corpus has outdated.
UpToDate ==
    (\A a \in Admins : publication[a].phase = "idle") =>
        \A k \in DOMAIN exact : k.corpus = Latest.corpus => exact[k].generation = generation

\* And it is so as long as the corpus only changed by approvals that bumped the
\* version: that clearing the caches fails, or misses an answer that is being
\* written, leaves nothing outdated behind.
BumpsSuffice == orderly => UpToDate

\* migration 013 on "enforce": a request that captured it is never answered
\* with an answer produced when findings were only recorded.
EnforcedAnswersOnly ==
    [][\A r \in Requests, k \in Key :
         Served(r, k) /\ configs[request[r].config].mode = "enforce" =>
             exact[k].mode = "enforce"]_vars
=============================================================================
