--------------------------- MODULE EmbeddingCalls ---------------------------
(***************************************************************************)
(* OpenAIEmbeddingClient.embed_texts: several callers, each with a model   *)
(* and a list of texts, over one cache.  The texts that are not cached go  *)
(* to the API in one call; its items say which input they are of, in any   *)
(* order, and may leave some out.  A vector is what made it: the model and *)
(* the text.                                                               *)
(***************************************************************************)
EXTENDS Naturals, Sequences

CONSTANTS EmbedCallers,
          EmbedTexts,
          EmbedModels,
          MaxTexts,      \* bound: the texts of one call
          EmbedAttempts  \* _MAX_ATTEMPTS

ASSUME EmbedAssumption == MaxTexts \in Nat /\ EmbedAttempts \in Nat \ {0}

VARIABLES embedded,  \* the embedding tier of the cache: a vector for each key in it
          embed      \* what each caller is doing

embed_vars == <<embedded, embed>>

Vector == EmbedModels \X EmbedTexts
NoVector == <<>>
Inputs == UNION {[1..n -> EmbedTexts] : n \in 1..MaxTexts}

NotAsked == [pc |-> "idle", model |-> CHOOSE m \in EmbedModels : TRUE, texts |-> <<>>,
             results |-> <<>>, misses |-> <<>>, pending |-> {}, attempt |-> 1, cause |-> "none"]

EmbedInit == embedded = [key \in {} |-> NoVector] /\ embed = [c \in EmbedCallers |-> NotAsked]

-----------------------------------------------------------------------------
\* _cache_key.
CacheKey(model, text) == <<model, text>>

EmbedTextsOf(c, model, texts) ==
    /\ embed[c].pc = "idle"
    /\ embed' = [embed EXCEPT ![c] = [NotAsked EXCEPT !.pc = "reading", !.model = model,
                                                      !.texts = texts]]
    /\ UNCHANGED embedded

\* Mutant: every miss is asked for, twice if it is there twice.
Noted(misses, text) == Append(misses, text)

\* The distinct misses, in the order of their first place.
WithMiss(misses, text) ==
    IF \E i \in DOMAIN misses : misses[i] = text THEN misses ELSE Append(misses, text)

Reached(e) == Len(e.results) + 1

\* Mutant: a cache that cannot be read fails the call.
ReadOneOrRaise(c, works) ==
    LET e == embed[c]
        text == e.texts[Reached(e)]
        key == CacheKey(e.model, text)
        hit == key \in DOMAIN embedded
    IN  /\ e.pc = "reading" /\ Reached(e) <= Len(e.texts)
        /\ embed' = IF ~works THEN [embed EXCEPT ![c].pc = "raised", ![c].cause = "cache"]
                    ELSE [embed EXCEPT
                            ![c].results = Append(@, IF hit THEN embedded[key] ELSE NoVector),
                            ![c].misses = IF hit THEN @ ELSE WithMiss(@, text)]
        /\ UNCHANGED embedded

\* _get_cached: a cache that cannot be read is a miss.
ReadOne(c, works) ==
    LET e == embed[c]
        text == e.texts[Reached(e)]
        key == CacheKey(e.model, text)
        hit == works /\ key \in DOMAIN embedded
    IN  /\ e.pc = "reading" /\ Reached(e) <= Len(e.texts)
        /\ embed' = [embed EXCEPT
                       ![c].results = Append(@, IF hit THEN embedded[key] ELSE NoVector),
                       ![c].misses = IF hit THEN @ ELSE WithMiss(@, text)]
        /\ UNCHANGED embedded

AllRead(c) ==
    /\ embed[c].pc = "reading" /\ Reached(embed[c]) > Len(embed[c].texts)
    /\ embed' = [embed EXCEPT ![c].pc = IF embed[c].misses = <<>> THEN "checking" ELSE "asking"]
    /\ UNCHANGED embedded

\* _create_with_retries: any error is tried again.
AskFails(c) ==
    /\ embed[c].pc = "asking"
    /\ embed' = [embed EXCEPT ![c].attempt = @ + 1,
                              ![c].pc = IF embed[c].attempt = EmbedAttempts THEN "raised" ELSE @,
                              ![c].cause = IF embed[c].attempt = EmbedAttempts THEN "api" ELSE @]
    /\ UNCHANGED embedded

\* The response has items for some of the inputs.
Responds(c, items) ==
    /\ embed[c].pc = "asking"
    /\ items \subseteq DOMAIN embed[c].misses
    /\ embed' = [embed EXCEPT ![c].pc = "storing", ![c].pending = items]
    /\ UNCHANGED embedded

\* Mutant: the items are taken to come in the order of the inputs.
AsTheyCome(e, index) == e.misses[1 + Len(e.misses) - index]

\* The input an item is of.
InputOf(e, index) == e.misses[index]

\* One item, in whatever order: cached if the cache can be written, and put in every place
\* of its text.
StoreItem(c, index, works) ==
    LET e == embed[c]
        text == InputOf(e, index)
        vector == <<e.model, e.misses[index]>>
        key == CacheKey(e.model, text)
    IN  /\ e.pc = "storing" /\ index \in e.pending
        /\ embedded' = IF works
                       THEN [k \in DOMAIN embedded \union {key} |->
                               IF k = key THEN vector ELSE embedded[k]]
                       ELSE embedded
        /\ embed' = [embed EXCEPT
                       ![c].pending = @ \ {index},
                       ![c].results = [i \in DOMAIN @ |->
                                         IF @[i] = NoVector /\ e.texts[i] = text THEN vector
                                         ELSE @[i]]]

AllStored(c) ==
    /\ embed[c].pc = "storing" /\ embed[c].pending = {}
    /\ embed' = [embed EXCEPT ![c].pc = "checking"]
    /\ UNCHANGED embedded

Complete(results) == \A i \in DOMAIN results : results[i] # NoVector

Return(c) ==
    /\ embed[c].pc = "checking"
    /\ embed' = [embed EXCEPT
                   ![c].pc = IF Complete(embed[c].results) THEN "returned" ELSE "raised",
                   ![c].cause = IF Complete(embed[c].results) THEN "none" ELSE "gap"]
    /\ UNCHANGED embedded

\* An entry of the cache expires or is cleared.
Forget(key) ==
    /\ embedded' = [k \in DOMAIN embedded \ {key} |-> embedded[k]]
    /\ UNCHANGED embed

EmbedNext ==
    \/ \E c \in EmbedCallers :
          \/ \E model \in EmbedModels, texts \in Inputs : EmbedTextsOf(c, model, texts)
          \/ AllRead(c) \/ AskFails(c) \/ AllStored(c) \/ Return(c)
          \/ \E works \in BOOLEAN :
                \/ ReadOne(c, works)
                \/ \E index \in embed[c].pending : StoreItem(c, index, works)
          \/ \E items \in SUBSET DOMAIN embed[c].misses : Responds(c, items)
    \/ \E key \in DOMAIN embedded : Forget(key)

EmbedSpec == EmbedInit /\ [][EmbedNext]_embed_vars

-----------------------------------------------------------------------------
\* What is returned lines up with what was asked: one vector for each text, in its place,
\* made by the caller's model from that very text, whoever put it in the cache.
EachItsOwn ==
    \A c \in EmbedCallers : embed[c].pc = "returned" =>
        embed[c].results = [i \in DOMAIN embed[c].texts |-> <<embed[c].model, embed[c].texts[i]>>]

\* No text is paid for twice in one call.
AskedOnce ==
    \A c \in EmbedCallers : \A i, j \in DOMAIN embed[c].misses :
        embed[c].misses[i] = embed[c].misses[j] => i = j

\* The cache is an optimization: only the API makes a call fail, by failing every time or
\* by leaving a text out.
OnlyTheApiFails ==
    \A c \in EmbedCallers : embed[c].pc = "raised" =>
        \/ embed[c].cause = "api" /\ embed[c].attempt = EmbedAttempts + 1
        \/ embed[c].cause = "gap" /\ embed[c].misses # <<>>

\* embed_texts: each text its own vector, none asked for twice, and no other failure.
EmbedsEach == EachItsOwn /\ AskedOnce /\ OnlyTheApiFails

=============================================================================
