---------------------------- MODULE ModelServing ----------------------------
(***************************************************************************)
(* The serving process (mlops/serving): the Predictor with its cache of    *)
(* models and its cache of predictions, the ModelVersionManager's A/B      *)
(* tests, and the registry changing under them.  predict awaits nothing,   *)
(* so each request is one step.                                            *)
(***************************************************************************)
EXTENDS Integers, Sequences, FiniteSets, SequencesExt

CONSTANTS
  Models, Vectors,   \* model names; feature dictionaries
  Versions,          \* version numbers
  CacheTtls,         \* cache_ttl, of which 0 disables the cache of predictions
  CacheSize,         \* cache_size
  Requests,          \* request ids
  MaxClock,          \* bound on the clock
  MaxRequests        \* bound on the requests answered

ASSUME ServingAssumption == CacheTtls \subseteq Nat /\ CacheSize \in Nat

VARIABLES
  clock,
  ttl,            \* the predictor's cache_ttl
  production,     \* external: the registry's latest production version, 0 for none
  modelCache,     \* _model_cache, in insertion order: [model, version asked, version]
  predictions,    \* _prediction_cache: key -> [model, version, at]
  counters,       \* predictions_total, cache_hits, cache_misses, errors
  answer,         \* the last answer, and what was asked
  inProduction,   \* history: model versions in production since the last clear_cache
  abTest,         \* _ab_test_config: per model control and treatment, or NoTest
  hashed          \* hash(request_id) % 100 < split: seeded anew in every process

servingVars == <<clock, ttl, production, modelCache, predictions, counters, answer, inProduction,
                 abTest, hashed>>

Latest == 0   \* version None
NoTest == [control |-> 0, treatment |-> 0]
NoAnswer == [model |-> "none"]
NoCounts == [total |-> 0, hits |-> 0, misses |-> 0, errors |-> 0]

ServingInit ==
  /\ clock = 0
  /\ ttl \in CacheTtls
  /\ production = [m \in Models |-> 0]
  /\ modelCache = <<>>
  /\ predictions = <<>>
  /\ counters = NoCounts
  /\ answer = NoAnswer
  /\ inProduction = {}
  /\ abTest = [m \in Models |-> NoTest]
  /\ hashed = {}
-----------------------------------------------------------------------------
\* _features_to_key: the model's name is not in it.
FeaturesToKey(features, version) == <<features, version>>

Cached(m, version) == {i \in DOMAIN modelCache : modelCache[i].model = m /\ modelCache[i].asked = version}

Resolve(m, version) == IF version = Latest THEN production[m] ELSE version

\* _load_model: a cached model is served whatever production is by now; the oldest entry
\* makes room.  With loads FALSE the registry or MLflow raises.  The registry is first asked
\* for a version of stage None: ModelRegistry, over a store that calls no stage "None", has
\* none of any model, a registry as the tests pass one in answers.  loads stands for both.
\* A cache of size 0 has no oldest entry to make room, and raises.
LoadedCache(m, version) ==
  LET room == IF Len(modelCache) >= CacheSize THEN Tail(modelCache) ELSE modelCache IN
  Append(room, [model |-> m, asked |-> version, version |-> Resolve(m, version)])
CanLoadModel(m, version, loads) == Cached(m, version) # {} \/ (loads /\ Resolve(m, version) # 0 /\ CacheSize > 0)
CacheAfterLoad(m, version) == IF Cached(m, version) # {} THEN modelCache ELSE LoadedCache(m, version)
VersionLoaded(m, version) ==
  IF Cached(m, version) # {} THEN modelCache[CHOOSE i \in Cached(m, version) : TRUE].version
                             ELSE Resolve(m, version)

\* The predictions that are not too old.  Without a TTL nothing is looked up, and no
\* miss is counted.
FreshKeys == {k \in DOMAIN predictions : ttl > 0 /\ clock - predictions[k].at < ttl}
Missed == IF ttl > 0 THEN 1 ELSE 0

\* predict, when the prediction is cached
PredictHit(m, features, version) ==
  LET key == FeaturesToKey(features, version) IN
  /\ key \in FreshKeys
  /\ answer' = [model |-> m, asked |-> version, features |-> features, by |-> predictions[key],
                key |-> key]
  /\ counters' = [counters EXCEPT !.hits = @ + 1]
  /\ UNCHANGED <<clock, ttl, production, modelCache, predictions, inProduction, abTest, hashed>>

Computed(m, version) == [model |-> m, version |-> VersionLoaded(m, version), at |-> clock]

\* predict, when it is not, or is too old
PredictMiss(m, features, version) ==
  LET key == FeaturesToKey(features, version) IN
  /\ key \notin FreshKeys
  /\ CanLoadModel(m, version, TRUE)
  /\ modelCache' = CacheAfterLoad(m, version)
  /\ predictions' = IF ttl = 0 THEN predictions
                    ELSE [k \in DOMAIN predictions \cup {key} |->
                            IF k = key THEN Computed(m, version) ELSE predictions[k]]
  /\ answer' = [model |-> m, asked |-> version, features |-> features,
                by |-> Computed(m, version), key |-> key]
  /\ counters' = [counters EXCEPT !.misses = @ + Missed, !.total = @ + 1]
  /\ UNCHANGED <<clock, ttl, production, inProduction, abTest, hashed>>

\* predict, when the model cannot be loaded
PredictError(m, features, version, loads) ==
  /\ FeaturesToKey(features, version) \notin FreshKeys
  /\ ~CanLoadModel(m, version, loads)
  /\ counters' = [counters EXCEPT !.misses = @ + Missed, !.errors = @ + 1]
  /\ answer' = NoAnswer
  /\ UNCHANGED <<clock, ttl, production, modelCache, predictions, inProduction, abTest, hashed>>

\* predict, when the model is loaded and kept, and then refuses the features
PredictFails(m, features, version) ==
  /\ FeaturesToKey(features, version) \notin FreshKeys
  /\ CanLoadModel(m, version, TRUE)
  /\ modelCache' = CacheAfterLoad(m, version)
  /\ counters' = [counters EXCEPT !.misses = @ + Missed, !.errors = @ + 1]
  /\ answer' = NoAnswer
  /\ UNCHANGED <<clock, ttl, production, predictions, inProduction, abTest, hashed>>

Predict(m, features, version) ==
  \/ PredictHit(m, features, version)
  \/ PredictMiss(m, features, version)
  \/ PredictFails(m, features, version)
  \/ \E loads \in BOOLEAN : PredictError(m, features, version, loads)

\* get_metrics: cache_hit_rate is hits over the lookups.
Lookups == counters.hits + counters.misses
RequestsSeen == counters.hits + counters.total + counters.errors

\* warm_cache: an error is logged only.
WarmCache(m) ==
  /\ CanLoadModel(m, Latest, TRUE)
  /\ modelCache' = CacheAfterLoad(m, Latest)
  /\ UNCHANGED <<clock, ttl, production, predictions, counters, answer, inProduction, abTest, hashed>>

Current == {<<m, production[m]>> : m \in Models}

\* Slip: only the predictions are forgotten.
ClearPredictions ==
  /\ predictions' = <<>>
  /\ inProduction' = Current
  /\ answer' = NoAnswer
  /\ UNCHANGED <<clock, ttl, production, modelCache, counters, abTest, hashed>>

\* clear_cache, by DELETE /cache
ClearCache ==
  /\ modelCache' = <<>>
  /\ predictions' = <<>>
  /\ inProduction' = Current
  /\ answer' = NoAnswer
  /\ UNCHANGED <<clock, ttl, production, counters, abTest, hashed>>

\* External to the process: a promotion or rollback changes production; nothing tells
\* the predictor.
ProductionChanges(m, v) ==
  /\ production' = [production EXCEPT ![m] = v]
  /\ inProduction' = inProduction \cup {<<m, v>>}
  /\ UNCHANGED <<clock, ttl, modelCache, predictions, counters, answer, abTest, hashed>>
-----------------------------------------------------------------------------
\* configure_ab_test
ConfigureAbTest(m, control, treatment) ==
  /\ abTest' = [abTest EXCEPT ![m] = [control |-> control, treatment |-> treatment]]
  /\ UNCHANGED <<clock, ttl, production, modelCache, predictions, counters, answer, inProduction, hashed>>

\* get_current_production asks the registry, not the predictor's cache.
GetCurrentProduction(m) == production[m]

\* get_version_for_request, of a request with an id
VersionForRequest(m, request) ==
  CASE abTest[m] = NoTest -> GetCurrentProduction(m)
    [] abTest[m] # NoTest /\ request \in hashed -> abTest[m].treatment
    [] OTHER -> abTest[m].control

\* The server starts: empty caches, no test, and another seed for hash().
Startup(below) ==
  /\ modelCache' = <<>>
  /\ predictions' = <<>>
  /\ counters' = NoCounts
  /\ answer' = NoAnswer
  /\ inProduction' = Current
  /\ abTest' = [m \in Models |-> NoTest]
  /\ hashed' = below
  /\ UNCHANGED <<clock, ttl, production>>

ClockTicks ==
  /\ clock < MaxClock
  /\ clock' = clock + 1
  /\ answer' = NoAnswer
  /\ UNCHANGED <<ttl, production, modelCache, predictions, counters, inProduction, abTest, hashed>>

PredictorNext ==
  \/ /\ RequestsSeen < MaxRequests
     /\ \E m \in Models, f \in Vectors, v \in Versions \cup {Latest} : Predict(m, f, v)
  \/ \E m \in Models : WarmCache(m) \/ \E v \in Versions : ProductionChanges(m, v)
  \/ ClearCache
  \/ Startup(hashed)
  \/ ClockTicks

AbNext ==
  \/ \E m \in Models, c, t \in Versions : c # t /\ ConfigureAbTest(m, c, t)
  \/ \E below \in SUBSET Requests : Startup(below)

ServingNext == PredictorNext \/ AbNext

ServingSpec == ServingInit /\ [][ServingNext]_servingVars
-----------------------------------------------------------------------------
\* An answer was computed less than the TTL ago, or just now if there is none, for the
\* features and the version asked for; a version asked for by number is the one that
\* computed it, and otherwise it was in production, for the model that computed it, at
\* some time since the caches were cleared.  The model may be another one than asked for,
\* and production may have moved on.  Every request, failed at loading or at inference or
\* not, is one lookup, and none when predictions are not kept (predictor.py, predict,
\* _load_model, clear_cache, get_metrics).
AnswersAccountFor ==
  /\ answer # NoAnswer =>
       /\ IF ttl = 0 THEN answer.by.at = clock ELSE clock - answer.by.at < ttl
       /\ answer.key = FeaturesToKey(answer.features, answer.asked)
       /\ IF answer.asked = Latest THEN <<answer.by.model, answer.by.version>> \in inProduction
                                   ELSE answer.by.version = answer.asked
  /\ Lookups = IF ttl = 0 THEN 0 ELSE RequestsSeen
  /\ ttl = 0 => DOMAIN predictions = {}
=============================================================================
