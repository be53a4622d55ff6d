----------------------------- MODULE RagMetrics -----------------------------
(***************************************************************************)
(* RagMetricsService: what the stages report, kept as a window of the last *)
(* samples and running totals, and the snapshots the status endpoint takes *)
(* of them.  Recording and reading are several statements each, under one  *)
(* lock.  A record uses one token; latencies are ranks.                    *)
(***************************************************************************)
EXTENDS Naturals, Sequences, FiniteSets

CONSTANTS MetricThreads,
          Sampled,      \* the samples each stage may report
          WindowSize,
          MaxRecords    \* bound: samples and lookups ever recorded

Stages == {"rerank", "hyde", "crag", "crag_shadow", "reflection", "reflection_shadow"}
Latencies == 1..3

RerankSample == [latency : Latencies, fallback : BOOLEAN]
HydeSample == RerankSample
CragSample == [latency : Latencies, decision : {"none", "correct", "ambiguous", "incorrect"},
               fallback : BOOLEAN, abstain : BOOLEAN, web_used : BOOLEAN]
ReflectionSample == [latency : Latencies, action : {"accept", "abstain"}, fallback : BOOLEAN,
                     iterations : Nat, retrievals : Nat]

ASSUME MetricsAssumption ==
    /\ "nobody" \notin MetricThreads
    /\ DOMAIN Sampled = Stages
    /\ WindowSize \in Nat \ {0} /\ MaxRecords \in Nat
    /\ Sampled["rerank"] \subseteq RerankSample /\ Sampled["hyde"] \subseteq HydeSample
    /\ Sampled["crag"] \subseteq CragSample /\ Sampled["crag_shadow"] \subseteq CragSample
    /\ Sampled["reflection"] \subseteq ReflectionSample
    /\ Sampled["reflection_shadow"] \subseteq ReflectionSample

VARIABLES windows,   \* the samples kept of each stage
          totals,    \* the tokens of each stage, the lookups and hits of the semantic cache
          holder,    \* who has the lock, "nobody" if it is free
          metric,    \* what each thread is doing
          recorded   \* history: every sample ever recorded, of each stage

metrics_vars == <<windows, totals, holder, metric, recorded>>

Counters == Stages \union {"lookups", "hits"}
Quiet == [pc |-> "idle"]

MetricsInit ==
    /\ windows = [s \in Stages |-> <<>>]
    /\ totals = [c \in Counters |-> 0]
    /\ holder = "nobody"
    /\ metric = [t \in MetricThreads |-> Quiet]
    /\ recorded = [s \in Stages |-> <<>>]

-----------------------------------------------------------------------------
\* Mutant: nobody asks for the lock.
NoLock == TRUE

LockFree == holder = "nobody"

Acquire(t, doing) ==
    /\ metric[t].pc \in {"idle", "taken", "counted"} /\ LockFree
    /\ holder' = t
    /\ metric' = [metric EXCEPT ![t] = doing]

Release(t, done) == holder' = "nobody" /\ metric' = [metric EXCEPT ![t] = done]

LastOf(samples, n) == SubSeq(samples, 1 + (IF Len(samples) > n THEN Len(samples) - n ELSE 0),
                             Len(samples))

EverRecorded ==
    totals["lookups"] + Cardinality({p \in Stages \X (1..MaxRecords) :
                                       p[2] \in DOMAIN recorded[p[1]]})

\* The first statement of a record_...: append to the deque, which drops its oldest.
Report(t, s, sample) ==
    /\ EverRecorded < MaxRecords
    /\ Acquire(t, [pc |-> "adding", of |-> s])
    /\ windows' = [windows EXCEPT ![s] = LastOf(Append(@, sample), WindowSize)]
    /\ recorded' = [recorded EXCEPT ![s] = Append(@, sample)]
    /\ UNCHANGED totals

ReportRerank(t, sample) == Report(t, "rerank", sample)
ReportHyde(t, sample) == Report(t, "hyde", sample)
ReportCrag(t, sample) == Report(t, "crag", sample)
ReportCragShadow(t, sample) == Report(t, "crag_shadow", sample)
ReportReflection(t, sample) == Report(t, "reflection", sample)
ReportReflectionShadow(t, sample) == Report(t, "reflection_shadow", sample)

\* The second: the tokens.
AddTokens(t) ==
    /\ metric[t].pc = "adding"
    /\ totals' = [totals EXCEPT ![metric[t].of] = @ + 1]
    /\ Release(t, Quiet)
    /\ UNCHANGED <<windows, recorded>>

\* record_semantic_cache_lookup.
ReportLookup(t, hit) ==
    /\ EverRecorded < MaxRecords
    /\ Acquire(t, [pc |-> "looked_up", hit |-> hit])
    /\ totals' = [totals EXCEPT !["lookups"] = @ + 1]
    /\ UNCHANGED <<windows, recorded>>

CountHit(t) ==
    /\ metric[t].pc = "looked_up"
    /\ totals' = [totals EXCEPT !["hits"] = IF metric[t].hit THEN @ + 1 ELSE @]
    /\ Release(t, Quiet)
    /\ UNCHANGED <<windows, recorded>>

-----------------------------------------------------------------------------
\* Mutant: the sample before the one meant.
IndexBelow(n, percent) ==
    LET i == (n * percent) \div 100 IN IF i = 0 THEN 0 ELSE (IF i < n THEN i ELSE n - 1) - 1

\* _percentile: the index into the sorted samples, counted from 0.
PercentileIndex(n, percent) ==
    LET i == (n * percent) \div 100 IN IF i < n THEN i ELSE n - 1

NotLater(samples, x) == {i \in DOMAIN samples : samples[i].latency <= x}
Earlier(samples, x) == {i \in DOMAIN samples : samples[i].latency < x}

\* The latency at an index of the sorted samples, 0 if there is none.
Percentile(samples, percent) ==
    IF samples = <<>> THEN 0
    ELSE LET k == PercentileIndex(Len(samples), percent)
         IN  CHOOSE x \in Latencies : /\ Cardinality(Earlier(samples, x)) <= k
                                      /\ k < Cardinality(NotLater(samples, x))

Many(samples, Is(_)) == Cardinality({i \in DOMAIN samples : Is(samples[i])})

IsFallback(x) == x.fallback

RerankStats(samples) == [fallbacks |-> Many(samples, IsFallback)]
HydeStats(samples) == [fallbacks |-> Many(samples, IsFallback)]

CragStats(samples) ==
    LET Decided(d) == Many(samples, LAMBDA x : x.decision = d)
    IN  [correct |-> Decided("correct"), ambiguous |-> Decided("ambiguous"),
         incorrect |-> Decided("incorrect"), fallbacks |-> Many(samples, IsFallback),
         abstained |-> Many(samples, LAMBDA x : x.abstain),
         web_used |-> Many(samples, LAMBDA x : x.web_used)]
CragShadowStats(samples) == CragStats(samples)

\* Mutant: a draft accepted after a revision counts as accepted at once.
AcceptedAtLast(x) == x.action = "accept"

FirstPass(x) == x.action = "accept" /\ x.iterations <= 1

ReflectionStats(samples) ==
    [first_pass |-> Many(samples, FirstPass),
     revised |-> Many(samples, LAMBDA x : x.iterations > 1),
     retrieved |-> Many(samples, LAMBDA x : x.retrievals > 0),
     abstained |-> Many(samples, LAMBDA x : x.action = "abstain"),
     fallbacks |-> Many(samples, IsFallback)]
ReflectionShadowStats(samples) == ReflectionStats(samples)

Stats(s, samples) ==
    CASE s = "rerank" -> RerankStats(samples)
      [] s = "hyde" -> HydeStats(samples)
      [] s = "crag" -> CragStats(samples)
      [] s = "crag_shadow" -> CragShadowStats(samples)
      [] s = "reflection" -> ReflectionStats(samples)
      [] OTHER -> ReflectionShadowStats(samples)

\* A snapshot copies the samples, then the totals; the rates come after the lock.
StartSnapshot(t, s) ==
    /\ Acquire(t, [pc |-> "copying", of |-> s, samples |-> windows[s]])
    /\ UNCHANGED <<windows, totals, recorded>>

Snapshot(t) ==
    /\ metric[t].pc = "copying"
    /\ LET samples == metric[t].samples
       IN  Release(t, [pc |-> "taken", of |-> metric[t].of, samples |-> samples,
                       tokens |-> totals[metric[t].of],
                       p50 |-> Percentile(samples, 50), p95 |-> Percentile(samples, 95),
                       stats |-> Stats(metric[t].of, samples)])
    /\ UNCHANGED <<windows, totals, recorded>>

StartCacheSnapshot(t) ==
    /\ Acquire(t, [pc |-> "counting", lookups |-> totals["lookups"]])
    /\ UNCHANGED <<windows, totals, recorded>>

CacheSnapshot(t) ==
    /\ metric[t].pc = "counting"
    /\ Release(t, [pc |-> "counted", lookups |-> metric[t].lookups, hits |-> totals["hits"]])
    /\ UNCHANGED <<windows, totals, recorded>>

MetricsNext == \E t \in MetricThreads :
    \/ \E sample \in Sampled["rerank"] : ReportRerank(t, sample)
    \/ \E sample \in Sampled["hyde"] : ReportHyde(t, sample)
    \/ \E sample \in Sampled["crag"] : ReportCrag(t, sample)
    \/ \E sample \in Sampled["crag_shadow"] : ReportCragShadow(t, sample)
    \/ \E sample \in Sampled["reflection"] : ReportReflection(t, sample)
    \/ \E sample \in Sampled["reflection_shadow"] : ReportReflectionShadow(t, sample)
    \/ \E hit \in BOOLEAN : ReportLookup(t, hit)
    \/ \E s \in Stages : StartSnapshot(t, s)
    \/ AddTokens(t) \/ CountHit(t) \/ Snapshot(t) \/ StartCacheSnapshot(t) \/ CacheSnapshot(t)

MetricsSpec == MetricsInit /\ [][MetricsNext]_metrics_vars

-----------------------------------------------------------------------------
Taken == {t \in MetricThreads : metric[t].pc = "taken"}

\* A snapshot is of one moment: its window and its token total are those right after one
\* and the same record, whatever was recorded while it was taken; a hit never shows
\* without its lookup.
SnapshotIsOneMoment ==
    /\ \A t \in Taken : \E n \in 0..Len(recorded[metric[t].of]) :
          /\ metric[t].samples = LastOf(SubSeq(recorded[metric[t].of], 1, n), WindowSize)
          /\ metric[t].tokens = n
    /\ \A t \in MetricThreads : metric[t].pc = "counted" => metric[t].hits <= metric[t].lookups

\* A latency percentile covers its share of the window, and says nothing only of an empty one.
PercentileCovers ==
    \A t \in Taken :
        LET samples == metric[t].samples
        IN  /\ 2 * Cardinality(NotLater(samples, metric[t].p50)) >= Len(samples)
            /\ 100 * Cardinality(NotLater(samples, metric[t].p95)) >= 95 * Len(samples)
            /\ metric[t].p50 <= metric[t].p95
            /\ metric[t].p50 = 0 <=> samples = <<>>

\* The rates of a snapshot are shares of one window: no answer is accepted at once and
\* also revised or abstained from, none is graded twice.
SharesOfOneWindow ==
    \A t \in Taken :
        LET stats == metric[t].stats
            n == Len(metric[t].samples)
        IN  /\ metric[t].of \in {"reflection", "reflection_shadow"} =>
                  stats.first_pass + stats.revised <= n /\ stats.first_pass + stats.abstained <= n
            /\ metric[t].of \in {"crag", "crag_shadow"} =>
                  stats.correct + stats.ambiguous + stats.incorrect <= n

\* A snapshot shows what was the case at one moment, and adds up.
SnapshotIsTrue == SnapshotIsOneMoment /\ PercentileCovers /\ SharesOfOneWindow

=============================================================================
