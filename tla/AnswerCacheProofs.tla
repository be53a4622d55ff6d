-------------------------- MODULE AnswerCacheProofs --------------------------
(***************************************************************************)
(* Proofs about AnswerCache, for any number of workers, requests, admins   *)
(* and questions: its types, the freshness of the cache namespaces and of  *)
(* what is served from them, and, when every change of the corpus is a     *)
(* publication that completes, that nothing outdated is reachable.         *)
(***************************************************************************)
EXTENDS AnswerCache, TLAPS

\* The last configuration of a well-formed history is one of its elements.
LEMMA LatestType ==
    ASSUME TypeOK
    PROVE  /\ Len(configs) \in 1..MaxConfigs
           /\ DOMAIN configs = 1..Len(configs)
           /\ \A i \in DOMAIN configs : configs[i] \in Config /\ configs[i].corpus \in 1..i
           /\ Latest \in Config
           /\ Latest.corpus \in 1..Len(configs)
<1>1. /\ configs \in Seq(Config)
      /\ configs # <<>>
      /\ Len(configs) <= MaxConfigs
      /\ \A i \in DOMAIN configs : configs[i].corpus <= i
  BY DEF TypeOK
<1>2. Len(configs) \in Nat /\ Len(configs) # 0 /\ DOMAIN configs = 1..Len(configs)
  BY <1>1
<1>3. Len(configs) \in 1..MaxConfigs
  BY <1>1, <1>2, CacheAssumption
<1>4. \A i \in DOMAIN configs : configs[i] \in Config
  BY <1>1, <1>2
<1>5. \A c \in Config : c.corpus \in 1..MaxConfigs
  BY DEF Config
<1>6. \A i \in DOMAIN configs : configs[i].corpus \in 1..i
  BY <1>1, <1>2, <1>4, <1>5, CacheAssumption
<1>7. Len(configs) \in DOMAIN configs
  BY <1>2
<1> QED
  BY <1>2, <1>3, <1>4, <1>6, <1>7 DEF Latest

\* Appending a configuration keeps the old ones where they are.
LEMMA AppendConfig ==
    ASSUME TypeOK, NEW c \in Config, configs' = Append(configs, c)
    PROVE  /\ configs' \in Seq(Config) \ {<<>>}
           /\ Len(configs') = Len(configs) + 1
           /\ DOMAIN configs' = 1..(Len(configs) + 1)
           /\ \A i \in DOMAIN configs : i \in DOMAIN configs' /\ configs'[i] = configs[i]
           /\ configs'[Len(configs) + 1] = c
           /\ Latest' = c
<1>1. configs \in Seq(Config)
  BY DEF TypeOK
<1>2. /\ configs' \in Seq(Config)
      /\ Len(configs') = Len(configs) + 1
      /\ configs'[Len(configs) + 1] = c
      /\ \A i \in 1..Len(configs) : configs'[i] = configs[i]
  BY <1>1
<1>3. Len(configs) \in Nat /\ DOMAIN configs = 1..Len(configs)
  BY <1>1
<1>4. DOMAIN configs' = 1..(Len(configs) + 1) /\ configs' # <<>>
  BY <1>2, <1>3
<1> QED
  BY <1>2, <1>3, <1>4 DEF Latest

\* The key of a request under way is a key of the version it captured.
LEMMA KeyType ==
    ASSUME TypeOK, NEW r \in Requests, request[r].phase # "idle"
    PROVE  /\ request[r].config \in DOMAIN configs
           /\ configs[request[r].config] \in Config
           /\ KeyOf(r) \in Key
           /\ KeyOf(r).corpus = configs[request[r].config].corpus
<1>1. request[r] \in Request /\ request[r].config \in DOMAIN configs
  BY DEF TypeOK
<1>2. request[r].question \in Questions
  BY <1>1 DEF Request
<1>3. configs[request[r].config] \in Config
  BY <1>1, LatestType
<1>4. configs[request[r].config].corpus \in 1..MaxConfigs
  BY <1>3 DEF Config
<1> QED
  BY <1>1, <1>2, <1>3, <1>4 DEF KeyOf, Key

\* Before it captures anything, a request is of the right shape.
LEMMA IdleType == Idle \in Request /\ Idle.phase = "idle"
<1>1. AnyQuestion \in Questions
  BY CacheAssumption DEF AnyQuestion
<1> QED
  BY <1>1, CacheAssumption DEF Idle, Request

LEMMA InitType == Init => TypeOK
<1> SUFFICES ASSUME Init PROVE TypeOK
  OBVIOUS
<1>1. /\ configs \in Seq(Config) \ {<<>>}
      /\ Len(configs) = 1
      /\ DOMAIN configs = {1}
      /\ configs[1].corpus = 1
  <2>1. PICK mode \in Modes : configs = <<[corpus |-> 1, mode |-> mode, since |-> 1]>>
    BY DEF Init
  <2>2. [corpus |-> 1, mode |-> mode, since |-> 1] \in Config
    BY CacheAssumption DEF Config, Generations
  <2> QED
    BY <2>1, <2>2
<1>2. request \in [Requests -> Request] /\ \A r \in Requests : request[r].phase = "idle"
  BY IdleType DEF Init
<1>3. publication \in [Admins -> Publication]
  BY DEF Init, Publication, NoPublication
<1>4. store \in [Workers -> DOMAIN configs]
  BY <1>1 DEF Init
<1>5. DOMAIN exact = {}
  BY DEF Init
<1> QED
  BY <1>1, <1>2, <1>3, <1>4, <1>5, CacheAssumption DEF TypeOK, Init, Generations

\* A request that moves on with its question and snapshot keeps the types.
LEMMA RequestType ==
    ASSUME TypeOK, NEW r \in Requests, NEW q \in Request,
           q.phase # "idle" => q.config \in DOMAIN configs,
           q.phase = "writing" => q.generation # 0,
           request' = [request EXCEPT ![r] = q],
           UNCHANGED <<orderly, generation, configs, store, publication>>,
           DOMAIN exact' \subseteq Key,
           \A k \in DOMAIN exact' : exact'[k] \in Answer,
           pointers' \subseteq Key
    PROVE  TypeOK'
  BY DEF TypeOK

\* A new configuration of the corpus version of its place, or an older one.
LEMMA ConfigType ==
    ASSUME TypeOK, NEW c \in Config, c.corpus <= Len(configs) + 1,
           Len(configs) < MaxConfigs,
           configs' = Append(configs, c),
           UNCHANGED <<orderly, generation, store, exact, pointers, request>>,
           publication' \in [Admins -> Publication]
    PROVE  TypeOK'
<1>1. /\ configs' \in Seq(Config) \ {<<>>}
      /\ Len(configs') = Len(configs) + 1
      /\ DOMAIN configs' = 1..(Len(configs) + 1)
      /\ \A i \in DOMAIN configs : i \in DOMAIN configs' /\ configs'[i] = configs[i]
      /\ configs'[Len(configs) + 1] = c
  BY AppendConfig
<1>2. Len(configs) \in Nat /\ DOMAIN configs = 1..Len(configs)
  BY LatestType
<1>3. Len(configs') <= MaxConfigs
  BY <1>1, <1>2, CacheAssumption
<1>4. \A i \in DOMAIN configs' : configs'[i].corpus <= i
  <2> SUFFICES ASSUME NEW i \in DOMAIN configs' PROVE configs'[i].corpus <= i
    OBVIOUS
  <2>1. CASE i = Len(configs) + 1
    BY <2>1, <1>1
  <2>2. CASE i # Len(configs) + 1
    <3>1. i \in DOMAIN configs
      BY <2>2, <1>1, <1>2
    <3> QED
      BY <3>1, <1>1 DEF TypeOK
  <2> QED
    BY <2>1, <2>2
<1>5. DOMAIN configs \subseteq DOMAIN configs'
  BY <1>1
<1>6. store' \in [Workers -> DOMAIN configs']
  BY <1>5 DEF TypeOK
<1>7. \A r \in Requests : request'[r].phase # "idle" => request'[r].config \in DOMAIN configs'
  BY <1>5 DEF TypeOK
<1> QED
  BY <1>1, <1>3, <1>4, <1>6, <1>7 DEF TypeOK

\* Every step of the system keeps the types.
LEMMA TypeStep == TypeOK /\ [Next]_vars => TypeOK'
<1> SUFFICES ASSUME TypeOK, [Next]_vars PROVE TypeOK'
  OBVIOUS
<1>0. /\ request \in [Requests -> Request]
      /\ publication \in [Admins -> Publication]
      /\ DOMAIN exact \subseteq Key
      /\ \A k \in DOMAIN exact : exact[k] \in Answer
      /\ pointers \subseteq Key
      /\ generation \in Generations
  BY DEF TypeOK
<1>1. ASSUME NEW r \in Requests, AnswerStep(r) PROVE TypeOK'
  <2>1. ASSUME NEW w \in Workers, NEW q \in Questions, Capture(r, w, q) PROVE TypeOK'
    <3> DEFINE new == [phase |-> "exact", question |-> q, config |-> store[w],
                       generation |-> 0, keys |-> {}]
    <3>1. store[w] \in DOMAIN configs
      BY DEF TypeOK
    <3>2. store[w] \in 0..MaxConfigs
      BY <3>1, LatestType, CacheAssumption
    <3>3. new \in Request
      BY <3>2, CacheAssumption DEF Request
    <3>4. new.phase = "exact" /\ new.config \in DOMAIN configs
      BY <3>1
    <3>5. request' = [request EXCEPT ![r] = new]
      BY <2>1 DEF Capture
    <3> HIDE DEF new
    <3> QED
      BY <2>1, <3>3, <3>4, <3>5, <1>0, RequestType DEF Capture
  <2>2. CASE ExactHit(r)
    BY <2>2, <1>0, IdleType DEF ExactHit, TypeOK
  <2>3. CASE ExactMiss(r)
    <3>1. request[r].phase = "exact" /\ request[r] \in Request
      BY <2>3, <1>0 DEF ExactMiss
    <3>2. {k \in pointers : k.corpus = KeyOf(r).corpus} \subseteq Key
      BY <1>0
    <3>3. \E q \in Request :
            /\ q.phase \in {"retrieving", "semantic"} /\ q.config = request[r].config
            /\ request' = [request EXCEPT ![r] = q]
      <4>1. CASE request' = [request EXCEPT ![r].phase = "retrieving"]
        <5> DEFINE new == [request[r] EXCEPT !.phase = "retrieving"]
        <5>1. new \in Request /\ new.phase = "retrieving" /\ new.config = request[r].config
          BY <3>1 DEF Request
        <5>2. request' = [request EXCEPT ![r] = new]
          BY <4>1, <1>0
        <5> QED
          BY <5>1, <5>2
      <4>2. CASE request' = [request EXCEPT ![r].phase = "semantic",
                               ![r].keys = {k \in pointers : k.corpus = KeyOf(r).corpus}]
        <5> DEFINE keys == {k \in pointers : k.corpus = KeyOf(r).corpus}
        <5> DEFINE new == [request[r] EXCEPT !.phase = "semantic", !.keys = keys]
        <5>1. keys \in SUBSET Key
          BY <3>2
        <5>2. request' = [request EXCEPT ![r] = new]
          BY <4>2, <1>0
        <5> HIDE DEF keys
        <5>3. new \in Request /\ new.phase = "semantic" /\ new.config = request[r].config
          BY <5>1, <3>1 DEF Request
        <5> QED
          BY <5>2, <5>3
      <4> QED
        BY <2>3, <4>1, <4>2 DEF ExactMiss
    <3>4. PICK q \in Request :
            /\ q.phase \in {"retrieving", "semantic"} /\ q.config = request[r].config
            /\ request' = [request EXCEPT ![r] = q]
      BY <3>3
    <3>5. q.config \in DOMAIN configs
      BY <3>1, <3>4 DEF TypeOK
    <3> QED
      BY <2>3, <3>4, <3>5, <1>0, RequestType DEF ExactMiss
  <2>4. ASSUME NEW k \in Key, SemanticHit(r, k) PROVE TypeOK'
    BY <2>4, <1>0, IdleType DEF SemanticHit, TypeOK
  <2>5. ASSUME NEW k \in Key, SemanticStale(r, k) PROVE TypeOK'
    BY <2>5, <1>0 DEF SemanticStale, TypeOK, Request
  <2>6. CASE SemanticMiss(r)
    BY <2>6, <1>0 DEF SemanticMiss, TypeOK, Request
  <2>7. CASE Retrieve(r)
    <3>1. generation \in 0..MaxGeneration /\ generation # 0
      BY <1>0, CacheAssumption DEF Generations
    <3> QED
      BY <2>7, <3>1, <1>0 DEF Retrieve, TypeOK, Request
  <2>8. CASE StoreAnswer(r)
    <3> DEFINE new == [request[r] EXCEPT !.phase = "pointing"]
    <3> DEFINE answer == [generation |-> request[r].generation,
                          mode |-> configs[request[r].config].mode]
    <3>1. request[r].phase = "writing" /\ request[r] \in Request
      BY <2>8, <1>0 DEF StoreAnswer
    <3>2. new \in Request /\ new.phase = "pointing" /\ new.config = request[r].config
      BY <3>1 DEF Request
    <3>3. request' = [request EXCEPT ![r] = new]
      BY <2>8, <1>0 DEF StoreAnswer
    <3>4. request[r].generation \in Generations
      BY <3>1, CacheAssumption DEF TypeOK, Request, Generations
    <3>5. answer \in Answer
      BY <3>1, <3>4, KeyType DEF Answer, Config
    <3>6. exact' = Put(exact, KeyOf(r), answer) /\ KeyOf(r) \in Key
      BY <2>8, <3>1, KeyType DEF StoreAnswer
    <3> HIDE DEF new, answer
    <3>7. DOMAIN exact' \subseteq Key /\ \A k \in DOMAIN exact' : exact'[k] \in Answer
      BY <3>5, <3>6, <1>0 DEF Put
    <3>8. new.config \in DOMAIN configs
      BY <3>1, <3>2, KeyType
    <3> QED
      BY <2>8, <3>2, <3>3, <3>7, <3>8, <1>0, RequestType DEF StoreAnswer
  <2>9. CASE AnswerUncached(r)
    BY <2>9, <1>0, IdleType DEF AnswerUncached, TypeOK
  <2>10. CASE Point(r)
    <3>1. KeyOf(r) \in Key
      BY <2>10, KeyType DEF Point
    <3> QED
      BY <2>10, <3>1, <1>0, IdleType DEF Point, TypeOK
  <2> QED
    BY <1>1, <2>1, <2>2, <2>3, <2>4, <2>5, <2>6, <2>7, <2>8, <2>9, <2>10 DEF AnswerStep
<1>2. ASSUME NEW a \in Admins, AdminStep(a) PROVE TypeOK'
  <2>1. CASE Activate(a)
    <3>1. generation' \in Generations
      BY <2>1, <1>0, CacheAssumption DEF Activate, Generations
    <3> QED
      BY <2>1, <3>1, <1>0 DEF Activate, TypeOK, Publication
  <2>2. CASE Bump(a)
    <3> DEFINE new == [corpus |-> Latest.corpus + 1, mode |-> Latest.mode, since |-> generation]
    <3>1. Latest.corpus + 1 \in 1..MaxConfigs /\ new.corpus <= Len(configs) + 1
      BY <2>2, LatestType, CacheAssumption DEF Bump
    <3>2. new \in Config
      BY <3>1, <1>0, LatestType DEF Config
    <3>3. publication' \in [Admins -> Publication]
      BY <2>2, <1>0 DEF Bump, Publication
    <3>4. configs' = Append(configs, new)
      BY <2>2 DEF Bump
    <3> HIDE DEF new
    <3> QED
      BY <2>2, <3>1, <3>2, <3>3, <3>4, ConfigType DEF Bump
  <2>3. CASE StartClear(a)
    BY <2>3, <1>0 DEF StartClear, TypeOK, Publication
  <2>4. CASE ListKeys(a)
    BY <2>4, <1>0 DEF ListKeys, TypeOK, Publication
  <2>5. CASE DeleteKeys(a)
    BY <2>5, <1>0 DEF DeleteKeys, Without, TypeOK, Publication
  <2>6. CASE ClearSemantic(a)
    BY <2>6, <1>0 DEF ClearSemantic, TypeOK, Publication, NoPublication
  <2>7. CASE Fail(a)
    BY <2>7, <1>0 DEF Fail, TypeOK, Publication, NoPublication
  <2> QED
    BY <1>2, <2>1, <2>2, <2>3, <2>4, <2>5, <2>6, <2>7 DEF AdminStep
<1>3. CASE ReplaceUpload
  <2>1. generation' \in Generations
    BY <1>3, <1>0, CacheAssumption DEF ReplaceUpload, Generations
  <2> QED
    BY <1>3, <2>1 DEF ReplaceUpload, TypeOK
<1>4. ASSUME NEW mode \in Modes, SwitchMode(mode) PROVE TypeOK'
  <2> DEFINE new == [Latest EXCEPT !.mode = mode]
  <2>1. new \in Config /\ new.corpus = Latest.corpus
    BY LatestType DEF Config
  <2>2. configs' = Append(configs, new)
    BY <1>4 DEF SwitchMode
  <2>3. new.corpus <= Len(configs) + 1
    BY <2>1, LatestType
  <2> HIDE DEF new
  <2> QED
    BY <1>0, <1>4, <2>1, <2>2, <2>3, ConfigType DEF SwitchMode
<1>5. ASSUME NEW w \in Workers, Sync(w) PROVE TypeOK'
  BY <1>5 DEF Sync, TypeOK
<1>6. ASSUME NEW k \in Key, Expire(k) PROVE TypeOK'
  BY <1>6, <1>0 DEF Expire, Without, TypeOK
<1>7. CASE UNCHANGED vars
  BY <1>7 DEF vars, TypeOK
<1> QED
  BY <1>1, <1>2, <1>3, <1>4, <1>5, <1>6, <1>7 DEF Next

\* TypeOK: the caches, requests and publications keep their shapes.
THEOREM TypeCorrect == Spec => []TypeOK
<1> QED
  BY InitType, TypeStep, PTL DEF Spec

----------------------------------------------------------------------------
(* Freshness.                                                              *)

LEMMA InitFresh == Init => Freshness
<1> SUFFICES ASSUME Init PROVE Freshness
  OBVIOUS
<1>1. PICK mode \in Modes : configs = <<[corpus |-> 1, mode |-> mode, since |-> 1]>>
  BY DEF Init
<1>2. DOMAIN configs = {1} /\ configs[1].since = 1 /\ configs[1].corpus = 1 /\ generation = 1
  BY <1>1 DEF Init
<1>3. \A r \in Requests : request[r].phase = "idle"
  BY IdleType DEF Init
<1>4. DOMAIN exact = {}
  BY DEF Init
<1> QED
  BY <1>2, <1>3, <1>4
     DEF Freshness, Versions, KeysKnown, EvidenceFresh, CandidatesMatch, FreshNamespaces

\* A request moves on, and the configurations, the corpus and the answers stay.
LEMMA RequestFresh ==
    ASSUME TypeOK, Freshness, NEW r \in Requests, NEW q,
           q.phase = "writing" => q.generation >= configs[q.config].since,
           q.phase # "idle" => \A k \in q.keys : k.corpus = configs[q.config].corpus,
           request' = [request EXCEPT ![r] = q],
           UNCHANGED <<generation, configs, exact>>
    PROVE  Freshness'
<1>1. request' = [s \in Requests |-> IF s = r THEN q ELSE request[s]]
  BY DEF TypeOK
<1>2. Versions' /\ KeysKnown' /\ FreshNamespaces'
  BY DEF Freshness, Versions, KeysKnown, FreshNamespaces, Latest
<1>3. EvidenceFresh'
  BY <1>1 DEF Freshness, EvidenceFresh
<1>4. CandidatesMatch'
  BY <1>1 DEF Freshness, CandidatesMatch
<1> QED
  BY <1>2, <1>3, <1>4 DEF Freshness

\* Answers are dropped from the cache.
LEMMA DropFresh ==
    ASSUME Freshness, NEW S, exact' = Without(exact, S),
           UNCHANGED <<generation, configs, request>>
    PROVE  Freshness'
  BY DEF Freshness, Versions, KeysKnown, EvidenceFresh, CandidatesMatch, FreshNamespaces, Latest,
         Without

\* The corpus changes.
LEMMA CorpusFresh ==
    ASSUME TypeOK, Freshness, generation' = generation + 1,
           UNCHANGED <<configs, exact, request>>
    PROVE  Freshness'
<1>1. Versions'
  <2>1. \A i \in DOMAIN configs : configs[i].since \in Nat
    BY LatestType DEF Config, Generations
  <2>2. generation \in Nat
    BY CacheAssumption DEF TypeOK, Generations
  <2> QED
    BY <2>1, <2>2 DEF Freshness, Versions
<1> QED
  BY <1>1 DEF Freshness, KeysKnown, EvidenceFresh, CandidatesMatch, FreshNamespaces, Latest

\* A configuration is added: the next version of the corpus, since now, or the
\* latest version as it is.
LEMMA ConfigFresh ==
    ASSUME TypeOK, Freshness, NEW c \in Config, configs' = Append(configs, c),
           \/ c.corpus = Latest.corpus + 1 /\ c.since = generation
           \/ c.corpus = Latest.corpus /\ c.since = Latest.since,
           UNCHANGED <<generation, exact, request>>
    PROVE  Freshness'
<1> DEFINE n == Len(configs)
<1>1. /\ DOMAIN configs' = 1..(n + 1)
      /\ \A i \in DOMAIN configs : i \in DOMAIN configs' /\ configs'[i] = configs[i]
      /\ configs'[n + 1] = c
      /\ Latest' = c
  BY AppendConfig
<1>2. n \in Nat /\ n \in DOMAIN configs /\ DOMAIN configs = 1..n /\ Latest = configs[n]
  BY LatestType DEF Latest
<1>3. /\ \A i \in DOMAIN configs : configs[i].corpus \in Nat /\ configs[i].since \in Nat
      /\ generation \in Nat
      /\ Latest.corpus \in Nat /\ c.corpus \in Nat
  BY SMTT(30), <1>2, LatestType, CacheAssumption DEF TypeOK, Config, Generations
<1> HIDE DEF n
<1>4. \A i \in DOMAIN configs' : i \in DOMAIN configs \/ i = n + 1
  BY <1>1, <1>2
<1>5. \A i \in DOMAIN configs : configs[i].corpus <= Latest.corpus
  BY <1>2 DEF Freshness, Versions
<1>6. Versions'
  <2>1. \A i \in DOMAIN configs' : configs'[i].since <= generation
    BY <1>1, <1>2, <1>3, <1>4 DEF Freshness, Versions
  <2>2. \A i, j \in DOMAIN configs' : i <= j => configs'[i].corpus <= configs'[j].corpus
    <3> SUFFICES ASSUME NEW i \in DOMAIN configs', NEW j \in DOMAIN configs', i <= j
                 PROVE  configs'[i].corpus <= configs'[j].corpus
      OBVIOUS
    <3>1. CASE j = n + 1
      <4>1. CASE i = n + 1
        BY <3>1, <4>1, <1>1, <1>3
      <4>2. CASE i \in DOMAIN configs
        BY <3>1, <4>2, <1>1, <1>3, <1>5
      <4> QED
        BY <4>1, <4>2, <1>4
    <3>2. CASE j \in DOMAIN configs
      <4>1. i \in DOMAIN configs
        BY <3>2, <1>2, <1>4
      <4> QED
        BY <3>2, <4>1, <1>1 DEF Freshness, Versions
    <3> QED
      BY <3>1, <3>2, <1>4
  <2>3. \A i \in DOMAIN configs : configs[i].corpus = c.corpus => configs[i].since = c.since
    BY <1>2, <1>3, <1>5 DEF Freshness, Versions
  <2>4. \A i, j \in DOMAIN configs' :
          configs'[i].corpus = configs'[j].corpus => configs'[i].since = configs'[j].since
    BY <2>3, <1>1, <1>4 DEF Freshness, Versions
  <2> QED
    BY <2>1, <2>2, <2>4 DEF Versions
<1>7. KeysKnown'
  <2>1. \A k \in DOMAIN exact : k.corpus \in Nat
    BY DEF TypeOK, Key
  <2> QED
    BY <2>1, <1>1, <1>3 DEF Freshness, KeysKnown
<1>8. \A r \in Requests : request[r].phase # "idle" =>
        configs'[request[r].config] = configs[request[r].config]
  BY <1>1 DEF TypeOK
<1>9. EvidenceFresh' /\ CandidatesMatch'
  BY <1>8 DEF Freshness, EvidenceFresh, CandidatesMatch
<1>10. FreshNamespaces'
  <2> SUFFICES ASSUME NEW k \in DOMAIN exact, NEW i \in DOMAIN configs',
                      configs'[i].corpus = k.corpus
               PROVE  exact[k].generation >= configs'[i].since
    BY DEF FreshNamespaces
  <2>1. CASE i \in DOMAIN configs
    BY <2>1, <1>1 DEF Freshness, FreshNamespaces
  <2>2. CASE i = n + 1
    <3>1. k.corpus = c.corpus /\ k.corpus <= Latest.corpus /\ k.corpus \in Nat
      BY <2>2, <1>1 DEF Freshness, KeysKnown, TypeOK, Key
    <3>2. c.corpus = Latest.corpus /\ c.since = Latest.since
      BY <3>1, <1>3
    <3> QED
      BY <2>2, <3>1, <3>2, <1>1, <1>2 DEF Freshness, FreshNamespaces
  <2> QED
    BY <2>1, <2>2, <1>4
<1> QED
  BY <1>6, <1>7, <1>9, <1>10 DEF Freshness

\* An answer is written under the key of the version its request captured.
LEMMA StoreFresh ==
    ASSUME TypeOK, Freshness, NEW r \in Requests, StoreAnswer(r)
    PROVE  Freshness'
<1> DEFINE version == configs[request[r].config]
<1> DEFINE answer == [generation |-> request[r].generation, mode |-> version.mode]
<1> DEFINE key == KeyOf(r)
<1>1. /\ request[r].phase = "writing"
      /\ request[r].config \in DOMAIN configs
      /\ key.corpus = version.corpus
  BY KeyType DEF StoreAnswer
<1>2. answer.generation >= version.since
  BY <1>1 DEF Freshness, EvidenceFresh
<1>3. exact' = Put(exact, key, answer) /\ UNCHANGED <<generation, configs>>
  BY DEF StoreAnswer
<1>4. /\ \A s \in Requests : s # r => request'[s] = request[s]
      /\ request'[r].phase = "pointing" /\ request'[r].config = request[r].config
      /\ request'[r].keys = request[r].keys
  BY DEF StoreAnswer, TypeOK, Request
<1> HIDE DEF answer, key
<1>5. DOMAIN exact' = DOMAIN exact \union {key}
  BY <1>3 DEF Put
<1>6. exact'[key] = answer /\ \A k \in DOMAIN exact : k # key => exact'[k] = exact[k]
  BY <1>3 DEF Put
<1>7. Versions' /\ Latest' = Latest
  BY <1>3 DEF Freshness, Versions, Latest
<1>8. KeysKnown'
  <2>1. key.corpus <= Latest.corpus
    BY <1>1, LatestType DEF Freshness, Versions, Latest
  <2> QED
    BY <2>1, <1>5, <1>7 DEF Freshness, KeysKnown
<1>9. EvidenceFresh' /\ CandidatesMatch'
  <2> SUFFICES ASSUME NEW s \in Requests
               PROVE  /\ request'[s].phase = "writing" =>
                           request'[s].generation >= configs[request'[s].config].since
                      /\ request'[s].phase # "idle" =>
                           \A k \in request'[s].keys :
                             k.corpus = configs[request'[s].config].corpus
    BY <1>3 DEF EvidenceFresh, CandidatesMatch
  <2>1. CASE s = r
    BY <2>1, <1>1, <1>4 DEF Freshness, CandidatesMatch
  <2>2. CASE s # r
    BY <2>2, <1>4 DEF Freshness, EvidenceFresh, CandidatesMatch
  <2> QED
    BY <2>1, <2>2
<1>10. FreshNamespaces'
  <2> SUFFICES ASSUME NEW k \in DOMAIN exact', NEW i \in DOMAIN configs,
                      configs[i].corpus = k.corpus
               PROVE  exact'[k].generation >= configs[i].since
    BY <1>3 DEF FreshNamespaces
  <2>1. CASE k = key
    BY <2>1, <1>1, <1>2, <1>6 DEF Freshness, Versions
  <2>2. CASE k # key
    BY <2>2, <1>5, <1>6 DEF Freshness, FreshNamespaces
  <2> QED
    BY <2>1, <2>2
<1> QED
  BY <1>7, <1>8, <1>9, <1>10 DEF Freshness

\* Every step of the system keeps the namespaces fresh.
LEMMA FreshStep == TypeOK /\ Freshness /\ [Next]_vars => Freshness'
<1> SUFFICES ASSUME TypeOK, Freshness, [Next]_vars PROVE Freshness'
  OBVIOUS
<1>0. request \in [Requests -> Request]
  BY DEF TypeOK
<1>1. ASSUME NEW r \in Requests, AnswerStep(r) PROVE Freshness'
  <2>0. /\ request[r] \in Request
        /\ request[r].phase # "idle" =>
             \A k \in request[r].keys : k.corpus = configs[request[r].config].corpus
    BY <1>0 DEF Freshness, CandidatesMatch
  <2>1. ASSUME NEW w \in Workers, NEW q \in Questions, Capture(r, w, q) PROVE Freshness'
    BY <2>1, RequestFresh DEF Capture
  <2>2. CASE ExactHit(r)
    BY <2>2, IdleType, RequestFresh DEF ExactHit
  <2>3. CASE ExactMiss(r)
    <3>1. CASE request' = [request EXCEPT ![r].phase = "retrieving"]
      <4> DEFINE new == [request[r] EXCEPT !.phase = "retrieving"]
      <4>1. request' = [request EXCEPT ![r] = new]
        BY <3>1, <1>0
      <4>2. new.phase = "retrieving" /\ new.config = request[r].config
              /\ new.keys = request[r].keys
        BY <2>0 DEF Request
      <4>3. \A k \in new.keys : k.corpus = configs[new.config].corpus
        BY <2>0, <2>3, <4>2 DEF ExactMiss
      <4> HIDE DEF new
      <4> QED
        BY <2>3, <4>1, <4>2, <4>3, RequestFresh DEF ExactMiss
    <3>2. CASE request' = [request EXCEPT ![r].phase = "semantic",
                             ![r].keys = {k \in pointers : k.corpus = KeyOf(r).corpus}]
      <4> DEFINE keys == {k \in pointers : k.corpus = KeyOf(r).corpus}
      <4> DEFINE new == [request[r] EXCEPT !.phase = "semantic", !.keys = keys]
      <4>1. \A k \in keys : k.corpus = configs[request[r].config].corpus
        BY <2>3, KeyType DEF ExactMiss
      <4>2. request' = [request EXCEPT ![r] = new]
        BY <3>2, <1>0
      <4> HIDE DEF keys
      <4>3. new.phase = "semantic" /\ new.config = request[r].config /\ new.keys = keys
        BY <2>0 DEF Request
      <4> HIDE DEF new
      <4> QED
        BY <2>3, <4>1, <4>2, <4>3, RequestFresh DEF ExactMiss
    <3> QED
      BY <2>3, <3>1, <3>2 DEF ExactMiss
  <2>4. ASSUME NEW k \in Key, SemanticHit(r, k) PROVE Freshness'
    BY <2>4, IdleType, RequestFresh DEF SemanticHit
  <2>5. ASSUME NEW k \in Key, SemanticStale(r, k) PROVE Freshness'
    <3> DEFINE new == [request[r] EXCEPT !.keys = @ \ {k}]
    <3>1. request' = [request EXCEPT ![r] = new]
      BY <2>5, <1>0 DEF SemanticStale
    <3>2. new.phase = "semantic" /\ new.config = request[r].config
            /\ new.keys \subseteq request[r].keys
      BY <2>5, <2>0 DEF SemanticStale, Request
    <3> HIDE DEF new
    <3> QED
      BY ZenonT(60), <2>0, <2>5, <3>1, <3>2, RequestFresh DEF SemanticStale
  <2>6. CASE SemanticMiss(r)
    <3> DEFINE new == [request[r] EXCEPT !.phase = "retrieving"]
    <3>1. request' = [request EXCEPT ![r] = new]
      BY <2>6, <1>0 DEF SemanticMiss
    <3>2. new.phase = "retrieving" /\ new.keys = {}
      BY <2>6, <2>0 DEF SemanticMiss, Request
    <3> HIDE DEF new
    <3> QED
      BY <2>6, <3>1, <3>2, RequestFresh DEF SemanticMiss
  <2>7. CASE Retrieve(r)
    <3> DEFINE new == [request[r] EXCEPT !.phase = "writing", !.generation = generation]
    <3>1. request' = [request EXCEPT ![r] = new]
      BY <2>7, <1>0 DEF Retrieve
    <3>2. /\ new.phase = "writing" /\ new.generation = generation
          /\ new.config = request[r].config /\ new.keys = request[r].keys
      BY <2>0 DEF Request
    <3>3. request[r].config \in DOMAIN configs
      BY <2>7, KeyType DEF Retrieve
    <3>4. generation >= configs[request[r].config].since
      BY <3>3 DEF Freshness, Versions
    <3>5. new.generation >= configs[new.config].since
      BY <3>2, <3>4
    <3>6. \A k \in new.keys : k.corpus = configs[new.config].corpus
      BY <2>0, <2>7, <3>2 DEF Retrieve
    <3> HIDE DEF new
    <3> QED
      BY <2>7, <3>1, <3>5, <3>6, RequestFresh DEF Retrieve
  <2>8. CASE StoreAnswer(r)
    BY <2>8, StoreFresh
  <2>9. CASE AnswerUncached(r)
    BY <2>9, IdleType, RequestFresh DEF AnswerUncached
  <2>10. CASE Point(r)
    BY <2>10, IdleType, RequestFresh DEF Point
  <2> QED
    BY <1>1, <2>1, <2>2, <2>3, <2>4, <2>5, <2>6, <2>7, <2>8, <2>9, <2>10 DEF AnswerStep
<1>2. ASSUME UNCHANGED <<generation, configs, exact, request>> PROVE Freshness'
  BY <1>2 DEF Freshness, Versions, KeysKnown, EvidenceFresh, CandidatesMatch, FreshNamespaces,
              Latest
<1>3. ASSUME NEW a \in Admins, AdminStep(a) PROVE Freshness'
  <2>1. CASE Activate(a)
    BY <2>1, CorpusFresh DEF Activate
  <2>2. CASE Bump(a)
    <3> DEFINE new == [corpus |-> Latest.corpus + 1, mode |-> Latest.mode, since |-> generation]
    <3>1. new \in Config
      <4>1. Latest.corpus + 1 \in 1..MaxConfigs
        BY <2>2, LatestType, CacheAssumption DEF Bump
      <4> QED
        BY <4>1, LatestType DEF Config, TypeOK
    <3>2. configs' = Append(configs, new)
      BY <2>2 DEF Bump
    <3>3. new.corpus = Latest.corpus + 1 /\ new.since = generation
      OBVIOUS
    <3> HIDE DEF new
    <3> QED
      BY <2>2, <3>1, <3>2, <3>3, ConfigFresh DEF Bump
  <2>3. CASE DeleteKeys(a)
    BY <2>3, DropFresh DEF DeleteKeys
  <2>4. CASE StartClear(a) \/ ListKeys(a) \/ ClearSemantic(a) \/ Fail(a)
    BY <2>4, <1>2 DEF StartClear, ListKeys, ClearSemantic, Fail
  <2> QED
    BY <1>3, <2>1, <2>2, <2>3, <2>4 DEF AdminStep
<1>4. CASE ReplaceUpload
  BY <1>4, CorpusFresh DEF ReplaceUpload
<1>5. ASSUME NEW mode \in Modes, SwitchMode(mode) PROVE Freshness'
  <2> DEFINE new == [Latest EXCEPT !.mode = mode]
  <2>1. new \in Config /\ new.corpus = Latest.corpus /\ new.since = Latest.since
    BY LatestType DEF Config
  <2>2. configs' = Append(configs, new)
    BY <1>5 DEF SwitchMode
  <2> HIDE DEF new
  <2> QED
    BY <1>5, <2>1, <2>2, ConfigFresh DEF SwitchMode
<1>6. ASSUME NEW w \in Workers, Sync(w) PROVE Freshness'
  BY <1>6, <1>2 DEF Sync
<1>7. ASSUME NEW k \in Key, Expire(k) PROVE Freshness'
  BY <1>7, DropFresh DEF Expire
<1>8. CASE UNCHANGED vars
  BY <1>8, <1>2 DEF vars
<1> QED
  BY <1>1, <1>3, <1>4, <1>5, <1>6, <1>7, <1>8 DEF Next

\* Freshness: versions, keys, evidence and candidates fit together, always.
THEOREM FreshAlways == Spec => [](TypeOK /\ Freshness)
<1>1. Init => TypeOK /\ Freshness
  BY InitType, InitFresh
<1>2. TypeOK /\ Freshness /\ [Next]_vars => (TypeOK /\ Freshness)'
  BY TypeStep, FreshStep
<1> QED
  BY <1>1, <1>2, PTL DEF Spec

\* FreshNamespaces: what RAGService writes under a corpus version was retrieved
\* from a corpus at least as new, whatever overlaps, fails or is skipped.
THEOREM NamespacesAreFresh == Spec => []FreshNamespaces
<1>1. Freshness => FreshNamespaces
  BY DEF Freshness
<1> QED
  BY <1>1, FreshAlways, PTL

\* ServedFresh: no hit, exact or semantic, is older than the configuration its
\* request captured.
THEOREM HitsAreFresh == Spec => ServedFresh
<1>1. ASSUME TypeOK, Freshness, NEW r \in Requests, NEW k \in Key, Served(r, k)
      PROVE  exact[k].generation >= configs[request[r].config].since
  <2>1. CASE ExactHit(r) /\ k = KeyOf(r)
    BY <1>1, <2>1, KeyType DEF ExactHit, Freshness, FreshNamespaces
  <2>2. CASE SemanticHit(r, k)
    <3>1. request[r].config \in DOMAIN configs
      BY <1>1, <2>2, KeyType DEF SemanticHit
    <3>2. k.corpus = configs[request[r].config].corpus
      BY <1>1, <2>2 DEF SemanticHit, Freshness, CandidatesMatch
    <3> QED
      BY <1>1, <2>2, <3>1, <3>2 DEF SemanticHit, Freshness, FreshNamespaces
  <2> QED
    BY <1>1, <2>1, <2>2 DEF Served
<1>2. TypeOK /\ Freshness =>
        \A r \in Requests, k \in Key :
          Served(r, k) => exact[k].generation >= configs[request[r].config].since
  BY <1>1
<1>3. TypeOK /\ Freshness /\ [Next]_vars =>
        [\A r \in Requests, k \in Key :
           Served(r, k) => exact[k].generation >= configs[request[r].config].since]_vars
  BY <1>2
<1> QED
  BY <1>3, FreshAlways, PTL DEF Spec, ServedFresh

----------------------------------------------------------------------------
(* Completed publications.                                                 *)

\* The latest configuration announces the corpus, or a publication is about to.
Announced ==
    Latest.since = generation \/ \E a \in Admins : publication[a].phase = "bumping"

\* Nothing was retrieved from a corpus that does not exist yet.
Past ==
    /\ \A r \in Requests : request[r].generation <= generation
    /\ \A k \in DOMAIN exact : exact[k].generation <= generation

LEMMA InitAnnounced == Init => Announced /\ Past
<1> SUFFICES ASSUME Init PROVE Announced /\ Past
  OBVIOUS
<1>1. Latest.since = generation
  BY DEF Init, Latest
<1>2. Past
  BY DEF Init, Past, Idle
<1> QED
  BY <1>1, <1>2 DEF Announced

\* Where an administrator's request is, when another's moves on.
LEMMA PublicationFrame ==
    ASSUME TypeOK, NEW a \in Admins, NEW p \in Publication,
           publication' = [publication EXCEPT ![a] = p]
    PROVE  publication'[a] = p /\ \A b \in Admins : b # a => publication'[b] = publication[b]
  BY DEF TypeOK

\* What was not orderly does not become so.
LEMMA OrderlyStep == TypeOK /\ [Next]_vars /\ orderly' => orderly
<1> SUFFICES ASSUME TypeOK, [Next]_vars, orderly' PROVE orderly
  OBVIOUS
<1>1. ASSUME NEW r \in Requests, AnswerStep(r) PROVE orderly
  BY <1>1 DEF AnswerStep, Capture, ExactHit, ExactMiss, SemanticHit, SemanticStale,
              SemanticMiss, Retrieve, StoreAnswer, AnswerUncached, Point
<1>2. ASSUME NEW a \in Admins, AdminStep(a) PROVE orderly
  BY <1>2 DEF AdminStep, Activate, Bump, StartClear, ListKeys, DeleteKeys, ClearSemantic, Fail
<1>3. CASE ReplaceUpload
  BY <1>3 DEF ReplaceUpload
<1>4. ASSUME NEW mode \in Modes, SwitchMode(mode) PROVE orderly
  BY <1>4 DEF SwitchMode
<1>5. ASSUME NEW w \in Workers, Sync(w) PROVE orderly
  BY <1>5 DEF Sync
<1>6. ASSUME NEW k \in Key, Expire(k) PROVE orderly
  BY <1>6 DEF Expire
<1>7. CASE UNCHANGED vars
  BY <1>7 DEF vars
<1> QED
  BY <1>1, <1>2, <1>3, <1>4, <1>5, <1>6, <1>7 DEF Next

\* While changes are orderly, one that is not announced is about to be.
LEMMA AnnouncedStep ==
    TypeOK /\ (orderly => Announced) /\ [Next]_vars => (orderly' => Announced')
<1> SUFFICES ASSUME TypeOK, orderly => Announced, [Next]_vars, orderly' PROVE Announced'
  OBVIOUS
<1>a. Announced
  BY OrderlyStep
<1>0. publication \in [Admins -> Publication]
  BY DEF TypeOK
<1>1. ASSUME UNCHANGED <<generation, configs, publication>> PROVE Announced'
  BY <1>1, <1>a DEF Announced, Latest
<1>2. ASSUME NEW r \in Requests, AnswerStep(r) PROVE Announced'
  BY <1>1, <1>2 DEF AnswerStep, Capture, ExactHit, ExactMiss, SemanticHit, SemanticStale,
                    SemanticMiss, Retrieve, StoreAnswer, AnswerUncached, Point
<1>3. ASSUME NEW a \in Admins, AdminStep(a) PROVE Announced'
  <2>1. CASE Activate(a)
    <3>1. publication'[a].phase = "bumping"
      BY <2>1, <1>0 DEF Activate, Publication
    <3> QED
      BY <3>1 DEF Announced
  <2>2. CASE Bump(a)
    <3> DEFINE new == [corpus |-> Latest.corpus + 1, mode |-> Latest.mode, since |-> generation]
    <3>1. configs' = Append(configs, new) /\ configs \in Seq(Config) /\ Len(configs) \in Nat
      BY <2>2, LatestType DEF Bump, TypeOK
    <3>2. Latest' = new /\ new.since = generation
      BY <3>1 DEF Latest
    <3> QED
      BY <2>2, <3>2 DEF Bump, Announced
  <2>3. ASSUME publication[a].phase # "bumping", UNCHANGED <<generation, configs>>,
               NEW p \in Publication, publication' = [publication EXCEPT ![a] = p]
        PROVE  Announced'
    <3>1. \A b \in Admins : publication[b].phase = "bumping" =>
            publication'[b].phase = "bumping"
      BY <2>3, PublicationFrame
    <3> QED
      BY <2>3, <3>1, <1>a DEF Announced, Latest
  <2>4. CASE StartClear(a)
    <3> DEFINE p == [publication[a] EXCEPT !.phase = "listing"]
    <3>1. p \in Publication /\ publication' = [publication EXCEPT ![a] = p]
      BY <2>4, <1>0 DEF StartClear, Publication
    <3> HIDE DEF p
    <3> QED
      BY <2>3, <2>4, <3>1 DEF StartClear
  <2>5. CASE ListKeys(a)
    <3> DEFINE p == [publication[a] EXCEPT !.phase = "deleting", !.keys = DOMAIN exact]
    <3>1. p \in Publication /\ publication' = [publication EXCEPT ![a] = p]
      BY <2>5, <1>0 DEF ListKeys, Publication, TypeOK
    <3> HIDE DEF p
    <3> QED
      BY <2>3, <2>5, <3>1 DEF ListKeys
  <2>6. CASE DeleteKeys(a)
    <3>1. [phase |-> "semantic", keys |-> {}] \in Publication
      BY DEF Publication
    <3> QED
      BY <2>3, <2>6, <3>1 DEF DeleteKeys
  <2>7. CASE ClearSemantic(a)
    <3>1. NoPublication \in Publication
      BY DEF Publication, NoPublication
    <3> QED
      BY <2>3, <2>7, <3>1 DEF ClearSemantic
  <2>8. CASE Fail(a)
    <3>1. NoPublication \in Publication
      BY DEF Publication, NoPublication
    <3> QED
      BY <2>3, <2>8, <3>1 DEF Fail
  <2> QED
    BY <1>3, <2>1, <2>2, <2>4, <2>5, <2>6, <2>7, <2>8 DEF AdminStep
<1>4. CASE ReplaceUpload
  BY <1>4 DEF ReplaceUpload
<1>5. ASSUME NEW mode \in Modes, SwitchMode(mode) PROVE Announced'
  <2> DEFINE new == [Latest EXCEPT !.mode = mode]
  <2>1. new \in Config /\ new.since = Latest.since
    BY LatestType DEF Config
  <2>2. configs' = Append(configs, new)
    BY <1>5 DEF SwitchMode
  <2> HIDE DEF new
  <2>3. Latest' = new
    BY <2>1, <2>2, AppendConfig
  <2> QED
    BY <1>5, <2>1, <2>3 DEF SwitchMode, Announced
<1>6. ASSUME NEW w \in Workers, Sync(w) PROVE Announced'
  BY <1>1, <1>6 DEF Sync
<1>7. ASSUME NEW k \in Key, Expire(k) PROVE Announced'
  BY <1>1, <1>7 DEF Expire
<1>8. CASE UNCHANGED vars
  BY <1>1, <1>8 DEF vars
<1> QED
  BY <1>2, <1>3, <1>4, <1>5, <1>6, <1>7, <1>8 DEF Next

LEMMA PastStep == TypeOK /\ Past /\ [Next]_vars => Past'
<1> SUFFICES ASSUME TypeOK, Past, [Next]_vars PROVE Past'
  OBVIOUS
<1>0. /\ request \in [Requests -> Request]
      /\ generation \in Nat
      /\ \A r \in Requests : request[r].generation \in Nat
      /\ \A k \in DOMAIN exact : exact[k].generation \in Nat
  BY CacheAssumption DEF TypeOK, Request, Answer, Generations
<1>1. ASSUME NEW r \in Requests, NEW q, q.generation <= generation,
             request' = [request EXCEPT ![r] = q], UNCHANGED <<generation, exact>>
      PROVE  Past'
  BY <1>1, <1>0 DEF Past
<1>2. ASSUME NEW r \in Requests, AnswerStep(r) PROVE Past'
  <2>0. request[r] \in Request /\ request[r].generation <= generation /\ Idle.generation = 0
    BY <1>0 DEF Past, Idle
  <2>1. ASSUME NEW w \in Workers, NEW q \in Questions, Capture(r, w, q) PROVE Past'
    <3> DEFINE new == [phase |-> "exact", question |-> q, config |-> store[w],
                       generation |-> 0, keys |-> {}]
    <3>1. /\ request' = [request EXCEPT ![r] = new]
          /\ UNCHANGED <<generation, exact>>
      BY <2>1 DEF Capture
    <3>2. new.generation <= generation
      BY <1>0
    <3> HIDE DEF new
    <3> QED
      BY <1>1, <3>1, <3>2
  <2>a. Idle.generation <= generation
    BY <2>0, <1>0
  <2>2. CASE ExactHit(r)
    BY <2>2, <2>a, <1>1 DEF ExactHit
  <2>3. CASE ExactMiss(r)
    <3>1. \A s \in Requests : request'[s].generation = request[s].generation
      <4>1. CASE request' = [request EXCEPT ![r].phase = "retrieving"]
        BY <4>1, <2>0, <1>0 DEF Request
      <4>2. CASE request' = [request EXCEPT ![r].phase = "semantic",
                               ![r].keys = {k \in pointers : k.corpus = KeyOf(r).corpus}]
        <5> DEFINE keys == {k \in pointers : k.corpus = KeyOf(r).corpus}
        <5> DEFINE new == [request[r] EXCEPT !.phase = "semantic", !.keys = keys]
        <5>1. request' = [request EXCEPT ![r] = new]
          BY <4>2, <1>0
        <5> HIDE DEF keys
        <5>2. new.generation = request[r].generation
          BY <2>0 DEF Request
        <5> HIDE DEF new
        <5> QED
          BY <5>1, <5>2, <1>0
      <4> QED
        BY <2>3, <4>1, <4>2 DEF ExactMiss
    <3> QED
      BY <2>3, <3>1 DEF ExactMiss, Past
  <2>4. ASSUME NEW k \in Key, SemanticHit(r, k) PROVE Past'
    BY <2>4, <2>a, <1>1 DEF SemanticHit
  <2>5. ASSUME NEW k \in Key, SemanticStale(r, k) PROVE Past'
    <3> DEFINE new == [request[r] EXCEPT !.keys = @ \ {k}]
    <3>1. request' = [request EXCEPT ![r] = new]
      BY <2>5, <1>0 DEF SemanticStale
    <3>2. new.generation = request[r].generation
      BY <2>0 DEF Request
    <3> HIDE DEF new
    <3> QED
      BY <2>5, <2>0, <1>0, <1>1, <3>1, <3>2 DEF SemanticStale
  <2>6. CASE SemanticMiss(r)
    <3> DEFINE new == [request[r] EXCEPT !.phase = "retrieving"]
    <3>1. request' = [request EXCEPT ![r] = new]
      BY <2>6, <1>0 DEF SemanticMiss
    <3>2. new.generation = request[r].generation
      BY <2>0 DEF Request
    <3> HIDE DEF new
    <3> QED
      BY <2>6, <2>0, <1>0, <1>1, <3>1, <3>2 DEF SemanticMiss
  <2>7. CASE Retrieve(r)
    <3> DEFINE new == [request[r] EXCEPT !.phase = "writing", !.generation = generation]
    <3>1. request' = [request EXCEPT ![r] = new]
      BY <2>7, <1>0 DEF Retrieve
    <3>2. new.generation = generation
      BY <2>0 DEF Request
    <3> HIDE DEF new
    <3>3. new.generation <= generation
      BY <3>2, <1>0
    <3>4. UNCHANGED <<generation, exact>>
      BY <2>7 DEF Retrieve
    <3> QED
      BY <1>1, <3>1, <3>3, <3>4
  <2>8. CASE StoreAnswer(r)
    <3> DEFINE answer == [generation |-> request[r].generation,
                          mode |-> configs[request[r].config].mode]
    <3>1. answer.generation <= generation
      BY <2>0
    <3>2. exact' = Put(exact, KeyOf(r), answer) /\ generation' = generation
      BY <2>8 DEF StoreAnswer
    <3> HIDE DEF answer
    <3>3. \A k \in DOMAIN exact' : exact'[k] = answer \/ (k \in DOMAIN exact /\ exact'[k] = exact[k])
      <4> DEFINE key == KeyOf(r)
      <4>1. exact' = Put(exact, key, answer)
        BY <3>2
      <4> HIDE DEF key
      <4>2. \A k \in DOMAIN exact' : k = key \/ k \in DOMAIN exact
        BY <4>1 DEF Put
      <4>3. \A k \in DOMAIN exact' : exact'[k] = IF k = key THEN answer ELSE exact[k]
        BY <4>1 DEF Put
      <4> QED
        BY <4>2, <4>3
    <3>4. \A k \in DOMAIN exact' : exact'[k].generation <= generation'
      BY <3>1, <3>2, <3>3 DEF Past
    <3> DEFINE new == [request[r] EXCEPT !.phase = "pointing"]
    <3>5. request' = [request EXCEPT ![r] = new] /\ new.generation = request[r].generation
      BY <2>8, <2>0, <1>0 DEF StoreAnswer, Request
    <3> HIDE DEF new
    <3>6. \A s \in Requests : request'[s].generation = request[s].generation
      BY <3>5, <1>0
    <3> QED
      BY <2>0, <3>2, <3>4, <3>6 DEF Past
  <2>9. CASE AnswerUncached(r)
    BY <2>9, <2>a, <1>1 DEF AnswerUncached
  <2>10. CASE Point(r)
    BY <2>10, <2>a, <1>1 DEF Point
  <2> QED
    BY <1>2, <2>1, <2>2, <2>3, <2>4, <2>5, <2>6, <2>7, <2>8, <2>9, <2>10 DEF AnswerStep
<1>3. ASSUME generation' \in {generation, generation + 1}, UNCHANGED request,
             exact' = exact \/ \E S : exact' = Without(exact, S)
      PROVE  Past'
  <2>1. generation <= generation' /\ generation' \in Nat
    BY <1>3, <1>0
  <2>2. \A k \in DOMAIN exact' : k \in DOMAIN exact /\ exact'[k] = exact[k]
    BY <1>3 DEF Without
  <2>3. \A r \in Requests : request'[r].generation <= generation'
    BY <1>3, <1>0, <2>1 DEF Past
  <2>4. \A k \in DOMAIN exact' : exact'[k].generation <= generation'
    BY <1>0, <2>1, <2>2 DEF Past
  <2> QED
    BY <2>3, <2>4 DEF Past
<1>4. ASSUME NEW a \in Admins, AdminStep(a) PROVE Past'
  BY <1>3, <1>4 DEF AdminStep, Activate, Bump, StartClear, ListKeys, DeleteKeys, ClearSemantic, Fail
<1>5. CASE ReplaceUpload
  BY <1>3, <1>5 DEF ReplaceUpload
<1>6. ASSUME NEW mode \in Modes, SwitchMode(mode) PROVE Past'
  BY <1>3, <1>6 DEF SwitchMode
<1>7. ASSUME NEW w \in Workers, Sync(w) PROVE Past'
  BY <1>3, <1>7 DEF Sync
<1>8. ASSUME NEW k \in Key, Expire(k) PROVE Past'
  BY <1>3, <1>8 DEF Expire
<1>9. CASE UNCHANGED vars
  BY <1>3, <1>9 DEF vars
<1> QED
  BY <1>2, <1>4, <1>5, <1>6, <1>7, <1>8, <1>9 DEF Next

\* BumpsSuffice: while the corpus only changes by approvals that bump its version,
\* no worker with the current configuration finds an outdated answer, whatever is
\* in flight, and whatever the clearing of the caches misses.
THEOREM CompletedPublicationsAreSeen == Spec => []BumpsSuffice
<1> DEFINE IInv == TypeOK /\ Freshness /\ (orderly => Announced) /\ Past
<1>1. Init => IInv
  BY InitType, InitFresh, InitAnnounced
<1>2. IInv /\ [Next]_vars => IInv'
  BY TypeStep, FreshStep, AnnouncedStep, PastStep
<1>3. IInv => BumpsSuffice
  <2> SUFFICES ASSUME TypeOK, Freshness, orderly, Announced, Past,
                      \A a \in Admins : publication[a].phase = "idle",
                      NEW k \in DOMAIN exact, k.corpus = Latest.corpus
               PROVE  exact[k].generation = generation
    BY DEF BumpsSuffice, UpToDate
  <2>1. Latest.since = generation
    BY DEF Announced
  <2>2. Len(configs) \in DOMAIN configs /\ Latest = configs[Len(configs)]
    BY LatestType DEF Latest
  <2>3. exact[k].generation >= generation
    BY <2>1, <2>2 DEF Freshness, FreshNamespaces
  <2>4. exact[k].generation \in Nat /\ generation \in Nat
    BY CacheAssumption DEF TypeOK, Answer, Generations
  <2> QED
    BY <2>3, <2>4 DEF Past
<1> QED
  BY <1>1, <1>2, <1>3, PTL DEF Spec
=============================================================================
