---------------------------- MODULE Mlops_proofs ----------------------------
(***************************************************************************)
(* Theorems about the model operations: what a pipeline run promotes, the  *)
(* phases of a rollout, the alerts' throttle, the served answers and the   *)
(* order of the features, for any runs, versions, phases, keys, requests,  *)
(* lengths of the periods and feature definitions.                         *)
(***************************************************************************)
EXTENDS Retraining, CanaryRollout, ModelMonitoring, ModelServing, FeatureStore, Sums_proofs,
        SequenceTheorems

Alerts == [key : AlertKeys, at : Nat]

\* The alerts kept under a key reach up to the time noted for it, and are spaced.
Noted(alerts, last) ==
  \A i \in DOMAIN alerts : alerts[i].at <= last[alerts[i].key] /\ last[alerts[i].key] # 0
Spaced(alerts) ==
  \A i, j \in DOMAIN alerts :
    i < j /\ alerts[i].key = alerts[j].key => alerts[j].at - alerts[i].at >= Throttle

AlertInv ==
  /\ minute \in Nat \ {0}
  /\ lastAlert \in [AlertKeys -> Nat]
  /\ alertHistory \in Seq(Alerts)
  /\ scheduled \subseteq AlertKeys \X Severities
  /\ Noted(alertHistory, lastAlert)
  /\ Spaced(alertHistory)

LEMMA AlertIsSpaced ==
  ASSUME AlertInv, NEW k \in AlertKeys, NEW severity, AlertPasses(k, severity),
         lastAlert' = [lastAlert EXCEPT ![k] = minute],
         alertHistory' = Append(alertHistory, [key |-> k, at |-> minute]),
         \A j \in AlertKeys : lastAlert[j] <= minute
  PROVE  /\ lastAlert' \in [AlertKeys -> Nat] /\ alertHistory' \in Seq(Alerts)
         /\ Noted(alertHistory, lastAlert)' /\ Spaced(alertHistory)'
         /\ \A j \in AlertKeys : lastAlert'[j] <= minute
  <1> DEFINE new == [key |-> k, at |-> minute]
             n == Len(alertHistory)
  <1>1. /\ new \in Alerts /\ new.key = k /\ new.at = minute
        /\ minute \in Nat \ {0} /\ Throttle \in Nat
    BY MonitoringAssumption DEF Alerts, AlertInv
  <1> HIDE DEF new
  <1>2. /\ alertHistory' \in Seq(Alerts) /\ n \in Nat
        /\ DOMAIN alertHistory = 1 .. n /\ DOMAIN alertHistory' = 1 .. n + 1
        /\ alertHistory'[n + 1] = new
        /\ \A i \in 1 .. n : alertHistory'[i] = alertHistory[i] /\ alertHistory[i] \in Alerts
    BY <1>1 DEF AlertInv, new
  <1>3. /\ lastAlert' \in [AlertKeys -> Nat] /\ lastAlert'[k] = minute
        /\ \A j \in AlertKeys : lastAlert[j] <= lastAlert'[j] /\ lastAlert'[j] <= minute
        /\ \A j \in AlertKeys : lastAlert[j] \in Nat
    BY <1>1 DEF AlertInv
  <1> HIDE DEF n
  <1>4. ASSUME NEW i \in 1 .. n
        PROVE  /\ alertHistory[i].key \in AlertKeys /\ alertHistory[i].at \in Nat
               /\ alertHistory[i].at <= lastAlert[alertHistory[i].key]
               /\ lastAlert[alertHistory[i].key] # 0
    BY <1>2 DEF Alerts, AlertInv, Noted
  <1>5. ASSUME NEW i \in 1 .. n + 1
        PROVE  /\ alertHistory'[i].at <= lastAlert'[alertHistory'[i].key]
               /\ lastAlert'[alertHistory'[i].key] # 0
    <2>1. CASE i = n + 1
      BY <2>1, <1>1, <1>2, <1>3
    <2>2. CASE i \in 1 .. n
      <3>1. alertHistory'[i] = alertHistory[i]
        BY <2>2, <1>2
      <3> DEFINE a == alertHistory[i].at
                 c == alertHistory[i].key
      <3>2. c \in AlertKeys /\ a \in Nat /\ a <= lastAlert[c] /\ lastAlert[c] # 0
        BY <2>2, <1>4
      <3> HIDE DEF a, c
      <3>3. /\ lastAlert[c] \in Nat /\ lastAlert'[c] \in Nat
            /\ lastAlert[c] <= lastAlert'[c]
        BY <1>3, <3>2
      <3>4. a <= lastAlert'[c] /\ lastAlert'[c] # 0
        BY <3>2, <3>3
      <3> QED BY <3>1, <3>4 DEF a, c
    <2> QED BY <2>1, <2>2, <1>2
  <1>6. ASSUME NEW i \in 1 .. n, alertHistory[i].key = k
        PROVE  minute - alertHistory[i].at >= Throttle
    <2>1. minute - lastAlert[k] >= Throttle
      BY <1>4, <1>6 DEF AlertPasses
    <2> QED BY <2>1, <1>1, <1>3, <1>4, <1>6
  <1>7. ASSUME NEW i \in 1 .. n + 1, NEW j \in 1 .. n + 1, i < j,
               alertHistory'[i].key = alertHistory'[j].key
        PROVE  alertHistory'[j].at - alertHistory'[i].at >= Throttle
    <2>1. CASE j = n + 1
      BY <2>1, <1>1, <1>2, <1>6, <1>7
    <2>2. CASE j \in 1 .. n
      <3>1. i \in 1 .. n
        BY <2>2, <1>2, <1>7
      <3> QED BY <2>2, <3>1, <1>2, <1>7 DEF AlertInv, Spaced
    <2> QED BY <2>1, <2>2, <1>2
  <1> QED BY <1>2, <1>3, <1>5, <1>7 DEF Noted, Spaced

AlertStrong == AlertInv /\ \A j \in AlertKeys : lastAlert[j] <= minute

LEMMA AlertInit == MonitoringInit => AlertStrong
  BY DEF MonitoringInit, AlertStrong, AlertInv, Noted, Spaced

LEMMA AlertNextInv == AlertStrong /\ [MonitoringNext]_monitoringVars => AlertStrong'
  <1> SUFFICES ASSUME AlertStrong, [MonitoringNext]_monitoringVars PROVE AlertStrong'
    OBVIOUS
  <1> USE DEF AlertStrong
  <1>1. ASSUME NEW k \in AlertKeys, NEW severity, SendAlert(k, severity),
               scheduled' \subseteq AlertKeys \X Severities
        PROVE  AlertStrong'
    <2>1. minute' = minute
      BY <1>1 DEF SendAlert
    <2>2. /\ lastAlert' \in [AlertKeys -> Nat] /\ alertHistory' \in Seq(Alerts)
          /\ Noted(alertHistory, lastAlert)' /\ Spaced(alertHistory)'
          /\ \A j \in AlertKeys : lastAlert'[j] <= minute
      BY <1>1, AlertIsSpaced DEF SendAlert
    <2> QED BY <1>1, <2>1, <2>2 DEF AlertInv
  <1>2. ASSUME UNCHANGED <<minute, lastAlert, alertHistory>>,
               scheduled' \subseteq AlertKeys \X Severities
        PROVE  AlertStrong'
    BY <1>2 DEF AlertInv, Noted, Spaced
  <1>3. scheduled \subseteq AlertKeys \X Severities
    BY DEF AlertInv
  <1>4. CASE DriftNext \/ WindowNext \/ UNCHANGED monitoringVars
    <2>1. UNCHANGED <<minute, lastAlert, alertHistory, scheduled>>
      BY <1>4 DEF DriftNext, SetBaseline, DetectDrift, WindowNext, RecordPrediction,
                  monitoringVars
    <2> QED BY <2>1, <1>2, <1>3
  <1>5. ASSUME NEW k \in AlertKeys, NEW s \in Severities,
               (SendAlert(k, s) /\ UNCHANGED scheduled) \/ SendCustomAlert(k, s)
        PROVE  AlertStrong'
    <2>1. CASE SendAlert(k, s) /\ UNCHANGED scheduled
      BY <2>1, <1>1, <1>3
    <2>2. CASE SendCustomAlert(k, s)
      BY <2>2, <1>2, <1>3 DEF SendCustomAlert
    <2> QED BY <1>5, <2>1, <2>2
  <1>6. ASSUME NEW task \in scheduled, TaskBegins(task)
        PROVE  AlertStrong'
    <2>1. task[1] \in AlertKeys /\ scheduled' \subseteq AlertKeys \X Severities
      BY <1>3, <1>6 DEF TaskBegins
    <2>2. \/ SendAlert(task[1], task[2])
          \/ UNCHANGED <<minute, lastAlert, alertHistory>>
      BY <1>6 DEF TaskBegins
    <2> QED BY <2>1, <2>2, <1>1, <1>2
  <1>7. ASSUME NEW sent \in sending, ChannelAnswers(sent)
        PROVE  AlertStrong'
    BY <1>2, <1>3, <1>7 DEF ChannelAnswers
  <1>8. CASE MinutePasses
    <2>1. /\ minute \in Nat /\ minute' = minute + 1
          /\ UNCHANGED <<lastAlert, alertHistory, scheduled>>
      BY <1>8 DEF MinutePasses, AlertInv
    <2> QED BY <2>1 DEF AlertInv, Noted, Spaced
  <1> QED BY <1>4, <1>5, <1>6, <1>7, <1>8 DEF MonitoringNext, AlertNext

\* Alerts with one key are kept at least the throttle period apart, whatever is raised or
\* scheduled while one is on its way (alerts.py, send_alert, send_custom_alert).
THEOREM AlertsKeepTheirDistance == MonitoringSpec => []AlertsSpaced
  <1>1. AlertStrong => AlertsSpaced
    BY DEF AlertStrong, AlertInv, AlertsSpaced, Spaced
  <1> QED BY <1>1, AlertInit, AlertNextInv, PTL DEF MonitoringSpec
-----------------------------------------------------------------------------
\* The version v of model m may answer a request for `asked`.
Sound(m, asked, v) ==
  IF asked = Latest THEN <<m, v>> \in inProduction ELSE v = asked

Numbers == Versions \cup {Latest}
CacheEntries == [model : Models, asked : Numbers, version : Numbers]

CacheSound(cache) ==
  /\ cache \in Seq(CacheEntries)
  /\ \A i \in DOMAIN cache : Sound(cache[i].model, cache[i].asked, cache[i].version)

PredictionsSound ==
  \A key \in DOMAIN predictions :
    Sound(predictions[key].model, key[2], predictions[key].version)

AnswerSound ==
  answer # NoAnswer =>
    /\ IF ttl = 0 THEN answer.by.at = clock ELSE clock - answer.by.at < ttl
    /\ answer.key = FeaturesToKey(answer.features, answer.asked)
    /\ Sound(answer.by.model, answer.asked, answer.by.version)

CountersOK ==
  /\ counters \in [total : Nat, hits : Nat, misses : Nat, errors : Nat]
  /\ IF ttl = 0 THEN counters.hits = 0 /\ counters.misses = 0
                ELSE counters.misses = counters.total + counters.errors

ServingInv ==
  /\ clock \in Nat /\ ttl \in Nat
  /\ ttl = 0 => DOMAIN predictions = {}
  /\ production \in [Models -> Numbers]
  /\ \A m \in Models : production[m] # 0 => <<m, production[m]>> \in inProduction
  /\ CacheSound(modelCache)
  /\ PredictionsSound
  /\ AnswerSound
  /\ CountersOK

\* A model is loaded from the cache or from production, soundly, and the cache stays so.
LEMMA LoadIsSound ==
  ASSUME ServingInv, NEW m \in Models, NEW asked \in Numbers, CanLoadModel(m, asked, TRUE)
  PROVE  Sound(m, asked, VersionLoaded(m, asked)) /\ CacheSound(CacheAfterLoad(m, asked))
  <1>1. CASE Cached(m, asked) # {}
    <2>1. PICK i \in Cached(m, asked) : VersionLoaded(m, asked) = modelCache[i].version
      BY <1>1 DEF VersionLoaded
    <2>2. Sound(m, asked, modelCache[i].version)
      BY <2>1 DEF Cached, ServingInv, CacheSound
    <2>3. CacheAfterLoad(m, asked) = modelCache
      BY <1>1 DEF CacheAfterLoad
    <2> QED BY <2>1, <2>2, <2>3 DEF ServingInv
  <1>2. CASE Cached(m, asked) = {}
    <2> DEFINE room == IF Len(modelCache) >= CacheSize THEN Tail(modelCache) ELSE modelCache
               new == [model |-> m, asked |-> asked, version |-> Resolve(m, asked)]
    <2>1. VersionLoaded(m, asked) = Resolve(m, asked) /\ Resolve(m, asked) # 0
      BY <1>2 DEF VersionLoaded, CanLoadModel
    <2>2. Sound(m, asked, Resolve(m, asked)) /\ Resolve(m, asked) \in Numbers
      BY <2>1 DEF Sound, Resolve, ServingInv, Numbers
    <2>3. modelCache \in Seq(CacheEntries) /\ CacheSize \in Nat \ {0}
      BY <1>2, ServingAssumption DEF ServingInv, CacheSound, CanLoadModel
    <2>4. room \in Seq(CacheEntries)
          /\ \A j \in DOMAIN room : \E i \in DOMAIN modelCache : room[j] = modelCache[i]
      <3>1. CASE Len(modelCache) >= CacheSize
        <4>1. Len(modelCache) > 0 /\ room = Tail(modelCache)
          BY <2>3, <3>1
        <4>2. Tail(modelCache) \in Seq(CacheEntries)
              /\ Len(Tail(modelCache)) = Len(modelCache) - 1
              /\ \A j \in 1 .. Len(modelCache) - 1 : Tail(modelCache)[j] = modelCache[j + 1]
          BY <2>3, <4>1
        <4>3. \A j \in 1 .. Len(modelCache) - 1 : j + 1 \in DOMAIN modelCache
          BY <2>3
        <4> HIDE DEF room
        <4> QED BY <4>1, <4>2, <4>3
      <3>2. CASE ~(Len(modelCache) >= CacheSize)
        BY <2>3, <3>2
      <3> QED BY <3>1, <3>2
    <2> HIDE DEF room
    <2>5. \A j \in DOMAIN room : Sound(room[j].model, room[j].asked, room[j].version)
      BY <2>4 DEF ServingInv, CacheSound
    <2>6. /\ new \in CacheEntries /\ Sound(new.model, new.asked, new.version)
      BY <2>2 DEF CacheEntries
    <2> HIDE DEF new
    <2>7. /\ Append(room, new) \in Seq(CacheEntries)
          /\ \A j \in DOMAIN Append(room, new) :
               (j \in DOMAIN room /\ Append(room, new)[j] = room[j]) \/ Append(room, new)[j] = new
      BY <2>4, <2>6
    <2>8. CacheAfterLoad(m, asked) = Append(room, new)
      BY <1>2 DEF CacheAfterLoad, LoadedCache, room, new
    <2>9. CacheSound(Append(room, new))
      BY <2>5, <2>6, <2>7 DEF CacheSound
    <2> QED BY <2>1, <2>2, <2>8, <2>9
  <1> QED BY <1>1, <1>2

\* Where nothing goes out of production, what was sound stays so.
LEMMA SoundStays ==
  ASSUME inProduction \subseteq inProduction', NEW m, NEW asked, NEW v, Sound(m, asked, v)
  PROVE  Sound(m, asked, v)'
  BY DEF Sound

LEMMA ServingInitInv == ServingInit => ServingInv
  <1> SUFFICES ASSUME ServingInit PROVE ServingInv
    OBVIOUS
  <1>1. CacheSound(modelCache) /\ PredictionsSound
    BY DEF ServingInit, CacheSound, PredictionsSound
  <1>2. CountersOK /\ AnswerSound
    BY DEF ServingInit, CountersOK, NoCounts, AnswerSound
  <1>3. ttl \in Nat /\ DOMAIN predictions = {}
    BY ServingAssumption DEF ServingInit
  <1> QED BY <1>1, <1>2, <1>3 DEF ServingInit, ServingInv, Numbers, Latest

\* A step that loads and predicts nothing.
LEMMA QuietKeeps ==
  ASSUME ServingInv, inProduction \subseteq inProduction',
         UNCHANGED <<clock, ttl, predictions, counters>>, CacheSound(modelCache)',
         production' \in [Models -> Numbers],
         \A m \in Models : production'[m] # 0 => <<m, production'[m]>> \in inProduction',
         answer' = answer \/ answer' = NoAnswer
  PROVE  ServingInv'
  <1>1. PredictionsSound'
    BY SoundStays DEF ServingInv, PredictionsSound
  <1>2. AnswerSound'
    BY SoundStays DEF ServingInv, AnswerSound
  <1>3. CountersOK'
    BY DEF ServingInv, CountersOK
  <1> QED BY <1>1, <1>2, <1>3 DEF ServingInv

LEMMA CacheStays ==
  ASSUME ServingInv, inProduction \subseteq inProduction', modelCache' = modelCache
  PROVE  CacheSound(modelCache)'
  BY SoundStays DEF ServingInv, CacheSound

\* Everything cached is forgotten.
LEMMA ForgettingKeeps ==
  ASSUME ServingInv, modelCache' = <<>>, predictions' = <<>>, answer' = NoAnswer,
         inProduction' = Current, UNCHANGED <<clock, ttl, production>>, CountersOK'
  PROVE  ServingInv'
  <1>1. CacheSound(modelCache)' /\ PredictionsSound' /\ AnswerSound'
    BY DEF CacheSound, PredictionsSound, AnswerSound
  <1>2. \A m \in Models : <<m, production'[m]>> \in inProduction'
    BY DEF Current
  <1> QED BY <1>1, <1>2 DEF ServingInv

LEMMA PredictHitKeeps ==
  ASSUME ServingInv, NEW m, NEW features, NEW asked, PredictHit(m, features, asked)
  PROVE  ServingInv'
  <1> DEFINE key == FeaturesToKey(features, asked)
  <1>1. PICK by : by = predictions[key]
    OBVIOUS
  <1>2. /\ key \in DOMAIN predictions /\ ttl > 0 /\ clock - by.at < ttl
        /\ answer' = [model |-> m, asked |-> asked, features |-> features, by |-> by, key |-> key]
        /\ UNCHANGED <<clock, ttl, production, modelCache, predictions, inProduction>>
    BY <1>1 DEF PredictHit, FreshKeys
  <1>3. key[2] = asked
    BY DEF FeaturesToKey
  <1>4. Sound(by.model, asked, by.version)
    BY <1>1, <1>2, <1>3 DEF ServingInv, PredictionsSound
  <1>5. /\ answer'.by = by /\ answer'.asked = asked /\ answer'.features = features
        /\ answer'.key = FeaturesToKey(features, asked)
    BY <1>2
  <1>6. AnswerSound'
    BY <1>2, <1>4, <1>5 DEF AnswerSound, Sound
  <1>7. CountersOK'
    <2>1. ttl \in Nat /\ ttl # 0 /\ ttl' = ttl
      BY <1>2 DEF ServingInv
    <2> QED BY <2>1 DEF PredictHit, ServingInv, CountersOK
  <1> QED BY <1>2, <1>6, <1>7 DEF ServingInv, CacheSound, PredictionsSound, Sound

LEMMA CountedTwice ==
  ASSUME CountersOK, ttl \in Nat, ttl' = ttl,
         \/ counters' = [counters EXCEPT !.misses = @ + Missed, !.total = @ + 1]
         \/ counters' = [counters EXCEPT !.misses = @ + Missed, !.errors = @ + 1]
  PROVE  CountersOK'
  <1> DEFINE Counts == [total : Nat, hits : Nat, misses : Nat, errors : Nat]
             c1 == [counters EXCEPT !.misses = counters.misses + Missed]
             c2 == [c1 EXCEPT !.total = counters.total + 1]
             c3 == [c1 EXCEPT !.errors = counters.errors + 1]
  <1>1. counters' = c2 \/ counters' = c3
    OBVIOUS
  <1>2. /\ counters \in Counts /\ counters.total \in Nat /\ counters.errors \in Nat
        /\ counters.misses \in Nat
    BY DEF CountersOK
  <1>m. Missed \in Nat /\ Missed = IF ttl = 0 THEN 0 ELSE 1
    BY DEF Missed
  <1> HIDE DEF Missed
  <1>3. /\ c1 \in Counts /\ c1.misses = counters.misses + Missed
        /\ c1.total = counters.total /\ c1.errors = counters.errors /\ c1.hits = counters.hits
    BY <1>2, <1>m
  <1> HIDE DEF c1
  <1>4. /\ c2 \in Counts /\ c2.misses = counters.misses + Missed /\ c2.hits = counters.hits
        /\ c2.total = counters.total + 1 /\ c2.errors = counters.errors
    BY <1>2, <1>3
  <1>5. /\ c3 \in Counts /\ c3.misses = counters.misses + Missed /\ c3.hits = counters.hits
        /\ c3.total = counters.total /\ c3.errors = counters.errors + 1
    BY <1>2, <1>3
  <1> HIDE DEF c2, c3
  <1>6. /\ counters' \in Counts /\ counters'.misses = counters.misses + Missed
        /\ counters'.hits = counters.hits
        /\ counters'.total + counters'.errors = counters.total + counters.errors + 1
    BY <1>1, <1>2, <1>4, <1>5
  <1>7. CASE ttl = 0
    BY <1>6, <1>7, <1>2, <1>m DEF CountersOK
  <1>8. CASE ttl # 0
    <2>1. counters.misses = counters.total + counters.errors
      BY <1>8 DEF CountersOK
    <2>2. counters'.misses = counters'.total + counters'.errors
      BY <1>6, <1>2, <1>m, <1>8, <2>1
    <2> QED BY <1>6, <1>8, <2>2 DEF CountersOK
  <1> QED BY <1>7, <1>8

LEMMA PredictMissKeeps ==
  ASSUME ServingInv, NEW m \in Models, NEW features, NEW asked \in Numbers,
         PredictMiss(m, features, asked)
  PROVE  ServingInv'
  <1> DEFINE key == FeaturesToKey(features, asked)
  <1>1. PICK by : by = Computed(m, asked)
    OBVIOUS
  <1>2. /\ CanLoadModel(m, asked, TRUE)
        /\ modelCache' = CacheAfterLoad(m, asked)
        /\ predictions' = IF ttl = 0 THEN predictions
                          ELSE [k \in DOMAIN predictions \cup {key} |->
                                  IF k = key THEN by ELSE predictions[k]]
        /\ answer' = [model |-> m, asked |-> asked, features |-> features, by |-> by, key |-> key]
        /\ UNCHANGED <<clock, ttl, production, inProduction>>
    BY <1>1 DEF PredictMiss
  <1>3. /\ by.model = m /\ by.at = clock /\ by.version = VersionLoaded(m, asked)
    BY <1>1 DEF Computed
  <1>4. Sound(by.model, asked, by.version) /\ CacheSound(CacheAfterLoad(m, asked))
    BY <1>2, <1>3, LoadIsSound
  <1>5. key[2] = asked
    BY DEF FeaturesToKey
  <1>6. CacheSound(modelCache)'
    <2>1. PICK cache : cache = CacheAfterLoad(m, asked)
      OBVIOUS
    <2>2. CacheSound(cache) /\ modelCache' = cache
      BY <1>2, <1>4, <2>1
    <2> QED BY <1>2, <2>2 DEF CacheSound, Sound
  <1>7. PredictionsSound'
    <2>1. ASSUME NEW k \in DOMAIN predictions'
          PROVE  Sound(predictions'[k].model, k[2], predictions'[k].version)
      <3>0. CASE ttl = 0
        BY <1>2, <2>1, <3>0 DEF ServingInv, PredictionsSound
      <3>1. CASE ttl # 0 /\ k = key
        BY <1>2, <1>4, <1>5, <3>1
      <3>2. CASE ttl # 0 /\ k # key
        BY <1>2, <2>1, <3>2 DEF ServingInv, PredictionsSound
      <3> QED BY <3>0, <3>1, <3>2
    <2> QED BY <1>2, <2>1 DEF PredictionsSound, Sound
  <1>8. /\ answer'.by = by /\ answer'.asked = asked /\ answer'.features = features
        /\ answer'.key = FeaturesToKey(features, asked)
    BY <1>2
  <1>9. IF ttl' = 0 THEN by.at = clock' ELSE clock' - by.at < ttl'
    BY <1>2, <1>3 DEF ServingInv
  <1>10. AnswerSound'
    BY <1>2, <1>4, <1>8, <1>9 DEF AnswerSound, Sound
  <1>11. CountersOK'
    BY CountedTwice, Zenon DEF PredictMiss, ServingInv
  <1>12. ttl' = 0 => DOMAIN predictions' = {}
    BY <1>2 DEF ServingInv
  <1> QED BY <1>2, <1>6, <1>7, <1>10, <1>11, <1>12 DEF ServingInv

LEMMA PredictErrorKeeps ==
  ASSUME ServingInv, NEW m, NEW features, NEW asked, NEW loads,
         PredictError(m, features, asked, loads)
  PROVE  ServingInv'
  <1>1. /\ UNCHANGED <<clock, ttl, production, modelCache, predictions, inProduction>>
        /\ answer' = NoAnswer
    BY DEF PredictError
  <1>2. CountersOK'
    BY CountedTwice, Zenon DEF PredictError, ServingInv
  <1> QED BY <1>1, <1>2 DEF ServingInv, CacheSound, PredictionsSound, AnswerSound, Sound

LEMMA PredictFailsKeeps ==
  ASSUME ServingInv, NEW m \in Models, NEW features, NEW asked \in Numbers,
         PredictFails(m, features, asked)
  PROVE  ServingInv'
  <1>1. PICK cache : cache = CacheAfterLoad(m, asked)
    OBVIOUS
  <1>2. /\ CacheSound(cache) /\ modelCache' = cache /\ answer' = NoAnswer
        /\ UNCHANGED <<clock, ttl, production, predictions, inProduction>>
    BY <1>1, LoadIsSound DEF PredictFails
  <1>3. CacheSound(modelCache)'
    BY <1>2 DEF CacheSound, Sound
  <1>4. CountersOK'
    BY CountedTwice, Zenon DEF PredictFails, ServingInv
  <1> QED BY <1>2, <1>3, <1>4 DEF ServingInv, PredictionsSound, AnswerSound, Sound

LEMMA ServingNextInv == ServingInv /\ [ServingNext]_servingVars => ServingInv'
  <1> SUFFICES ASSUME ServingInv, [ServingNext]_servingVars PROVE ServingInv'
    OBVIOUS
  <1>1. ASSUME NEW m \in Models, NEW f \in Vectors, NEW v \in Versions \cup {Latest},
               Predict(m, f, v)
        PROVE  ServingInv'
    BY <1>1, PredictHitKeeps, PredictMissKeeps, PredictErrorKeeps, PredictFailsKeeps DEF Predict, Numbers
  <1>2. ASSUME NEW m \in Models, WarmCache(m)
        PROVE  ServingInv'
    <2>1. PICK cache : cache = CacheAfterLoad(m, Latest)
      OBVIOUS
    <2>2. /\ CacheSound(cache) /\ modelCache' = cache
          /\ UNCHANGED <<clock, ttl, production, predictions, counters, answer, inProduction>>
      BY <1>2, <2>1, LoadIsSound DEF WarmCache, Numbers
    <2>3. CacheSound(modelCache)'
      BY <2>2 DEF CacheSound, Sound
    <2> QED BY <2>2, <2>3, QuietKeeps DEF ServingInv
  <1>3. ASSUME NEW m \in Models, NEW v \in Versions, ProductionChanges(m, v)
        PROVE  ServingInv'
    <2>1. /\ production' = [production EXCEPT ![m] = v]
          /\ inProduction' = inProduction \cup {<<m, v>>}
          /\ UNCHANGED <<clock, ttl, modelCache, predictions, counters, answer>>
      BY <1>3 DEF ProductionChanges
    <2>2. production' \in [Models -> Numbers]
      BY <2>1 DEF ServingInv, Numbers
    <2>3. \A n \in Models : production'[n] # 0 => <<n, production'[n]>> \in inProduction'
      BY <2>1 DEF ServingInv
    <2>4. CacheSound(modelCache)'
      BY <2>1, CacheStays
    <2> QED BY <2>1, <2>2, <2>3, <2>4, QuietKeeps
  <1>4. CASE ClearCache
    <2>1. CountersOK'
      BY <1>4 DEF ClearCache, ServingInv, CountersOK
    <2> QED BY <1>4, <2>1, ForgettingKeeps DEF ClearCache
  <1>5. ASSUME NEW below, Startup(below)
        PROVE  ServingInv'
    <2>1. CountersOK'
      BY <1>5 DEF Startup, NoCounts, CountersOK
    <2> QED BY <1>5, <2>1, ForgettingKeeps DEF Startup
  <1>6. CASE ClockTicks
    <2>1. /\ clock' = clock + 1 /\ answer' = NoAnswer
          /\ UNCHANGED <<ttl, production, modelCache, predictions, counters, inProduction>>
      BY <1>6 DEF ClockTicks
    <2>2. AnswerSound' /\ CountersOK'
      BY <2>1 DEF AnswerSound, ServingInv, CountersOK
    <2> QED BY <2>1, <2>2 DEF ServingInv, CacheSound, PredictionsSound, Sound
  <1>7. CASE UNCHANGED servingVars
    BY <1>7 DEF servingVars, ServingInv, CacheSound, PredictionsSound, AnswerSound, CountersOK,
                Sound
  <1>8. ASSUME NEW m \in Models, NEW c, NEW t, ConfigureAbTest(m, c, t)
        PROVE  ServingInv'
    BY <1>8 DEF ConfigureAbTest, ServingInv, CacheSound, PredictionsSound, AnswerSound,
                CountersOK, Sound
  <1> QED BY <1>1, <1>2, <1>3, <1>4, <1>5, <1>6, <1>7, <1>8
          DEF ServingNext, PredictorNext, AbNext

\* However production moves, whenever the caches are warmed or cleared and wherever a
\* request fails, an answer was computed within the TTL, or just now without one, by the version that was asked for or by one that has been in
\* production since the caches were cleared (predictor.py, predict, _load_model).
THEOREM AnswersStayAccountable == ServingSpec => []AnswersAccountFor
  <1>1. ServingInv => AnswersAccountFor
    <2> SUFFICES ASSUME ServingInv PROVE AnswersAccountFor
      OBVIOUS
    <2>1. Lookups = IF ttl = 0 THEN 0 ELSE RequestsSeen
      BY DEF ServingInv, CountersOK, Lookups, RequestsSeen
    <2> QED BY <2>1 DEF ServingInv, AnswerSound, Sound, AnswersAccountFor
  <1> QED BY <1>1, ServingInitInv, ServingNextInv, PTL DEF ServingSpec
-----------------------------------------------------------------------------
\* Retraining: the latest version of a stage is the highest there is in it.
IsLatest(vs, stage, v) ==
  \/ v = 0 /\ InStage(vs, stage) = {}
  \/ v \in InStage(vs, stage) /\ \A w \in InStage(vs, stage) : w <= v

VersionRecords == [stage : Stages, accuracy : Nat]

LEMMA GreatestThere ==
  ASSUME NEW n \in Nat, NEW S \in SUBSET (1 .. n), S # {}
  PROVE  Max(S) \in S /\ \A k \in S : k <= Max(S)
  <1> DEFINE C == {n - k : k \in S}
  <1>0. \A k \in S : k \in Nat /\ n - k \in Nat
    OBVIOUS
  <1>1. C \subseteq Nat /\ C # {}
    BY <1>0
  <1>2. PICK m \in C : \A c \in C : m <= c
    BY <1>1, LeastNumber
  <1>3. PICK k \in S : m = n - k
    BY <1>2
  <1>4. \A j \in S : k >= j
    <2> TAKE j \in S
    <2>1. n - j \in C
      OBVIOUS
    <2>2. n - k <= n - j /\ j \in Nat /\ k \in Nat
      BY <1>0, <1>2, <1>3, <2>1
    <2> QED BY <2>2
  <1>5. Max(S) \in S /\ \A j \in S : Max(S) >= j
    BY <1>3, <1>4 DEF Max
  <1> QED BY <1>5

LEMMA LatestIs ==
  ASSUME NEW vs \in Seq(VersionRecords), NEW stage
  PROVE  IsLatest(vs, stage, GetLatestModel(vs, stage))
  <1> DEFINE S == InStage(vs, stage)
  <1>1. Len(vs) \in Nat /\ S \in SUBSET (1 .. Len(vs))
    BY DEF InStage
  <1> HIDE DEF S
  <1>2. S # {} => Max(S) \in S /\ \A k \in S : k <= Max(S)
    BY <1>1, GreatestThere
  <1> QED BY <1>2 DEF S, GetLatestModel, IsLatest

LEMMA LatestOnly ==
  ASSUME NEW vs \in Seq(VersionRecords), NEW stage, NEW v \in Nat, IsLatest(vs, stage, v)
  PROVE  GetLatestModel(vs, stage) = v
  <1> DEFINE u == GetLatestModel(vs, stage)
  <1>1. IsLatest(vs, stage, u)
    BY LatestIs
  <1>2. \A w \in InStage(vs, stage) : w \in Nat /\ w # 0
    BY DEF InStage
  <1> HIDE DEF u
  <1>3. u = v
    BY <1>1, <1>2 DEF IsLatest
  <1> QED BY <1>3 DEF u

ProductionOf(vs) == GetLatestModel(vs, "Production")

LatestFacts(vs) ==
  /\ ProductionOf(vs) \in Nat
  /\ ProductionOf(vs) # 0 => ProductionOf(vs) \in DOMAIN vs /\ vs[ProductionOf(vs)].stage = "Production"
  /\ \A w \in DOMAIN vs : vs[w].stage = "Production" => w <= ProductionOf(vs)

LEMMA LatestKnown == ASSUME NEW vs \in Seq(VersionRecords) PROVE LatestFacts(vs)
  <1>1. IsLatest(vs, "Production", ProductionOf(vs))
    BY LatestIs DEF ProductionOf
  <1> DEFINE v == ProductionOf(vs)
  <1> HIDE DEF v
  <1>2. DOMAIN vs \subseteq Nat /\ 0 \notin DOMAIN vs
    OBVIOUS
  <1>3. \/ v = 0 /\ \A w \in DOMAIN vs : vs[w].stage # "Production"
        \/ v \in DOMAIN vs /\ vs[v].stage = "Production"
           /\ \A w \in DOMAIN vs : vs[w].stage = "Production" => w <= v
    BY <1>1 DEF v, IsLatest, InStage
  <1>4. v \in Nat /\ (v # 0 => v \in DOMAIN vs /\ vs[v].stage = "Production")
        /\ \A w \in DOMAIN vs : vs[w].stage = "Production" => w <= v
    BY <1>2, <1>3
  <1> QED BY <1>4 DEF v, LatestFacts

Steps == {"idle", "compare", "register", "stage", "promote"}
PastComparison == {"register", "stage", "promote"}
RunRecords == [step : Steps, accuracy : Nat, blind : BOOLEAN, version : Nat, promoted : BOOLEAN]

PipelineTypes ==
  /\ versions \in Seq(VersionRecords)
  /\ runs \in [Runs -> RunRecords]
  /\ \A r \in Runs : runs[r].step # "idle" => ~runs[r].promoted
  /\ \A r \in raced : r \in Runs /\ runs[r].step \in PastComparison

\* What a run has seen still holds, while production has been the same since.
StillBetter(run, vs) ==
  /\ ProductionOf(vs) # 0 /\ ~run.blind => run.accuracy >= vs[ProductionOf(vs)].accuracy + Improvement
  /\ run.step \in {"stage", "promote"} => ProductionOf(vs) < run.version

PipelineInv ==
  /\ PipelineTypes
  /\ \A r \in Runs \ raced : runs[r].step \in PastComparison /\ ~runs[r].blind => StillBetter(runs[r], versions)

LEMMA PipelineStarts == RetrainingInit => PipelineInv
  <1> SUFFICES ASSUME RetrainingInit PROVE PipelineInv
    OBVIOUS
  <1>1. <<>> \in Seq(VersionRecords)
    OBVIOUS
  <1>2. NotRunning \in RunRecords /\ NotRunning.step = "idle"
    BY DEF NotRunning, RunRecords, Steps
  <1>3. PipelineTypes
    BY <1>1, <1>2 DEF RetrainingInit, RegistryInit, PipelineTypes
  <1>4. \A r \in Runs : runs[r].step = "idle"
    BY <1>2 DEF RetrainingInit
  <1> QED BY <1>3, <1>4 DEF PipelineInv, PastComparison

\* A run that stays past its comparison without being raced: production is as it was.
LEMMA NotRaced ==
  ASSUME PipelineTypes, SeeRaces, NEW r \in Runs, r \notin raced', runs'[r].step \in PastComparison
  PROVE  r \notin raced /\ ProductionOf(versions') = ProductionOf(versions)
  BY DEF SeeRaces, PastComparison, ProductionOf

LEMMA RacedAreRuns ==
  ASSUME SeeRaces PROVE \A r \in raced' : r \in Runs /\ runs'[r].step \in PastComparison
  BY DEF SeeRaces, PastComparison

\* A stage of one version changes.
LEMMA PromotionType ==
  ASSUME versions \in Seq(VersionRecords), NEW v, NEW stage, PromoteModel(v, stage)
  PROVE  /\ versions' \in Seq(VersionRecords) /\ Len(versions') = Len(versions)
         /\ v \in DOMAIN versions /\ versions'[v].stage = stage /\ versions'[v].accuracy = versions[v].accuracy
         /\ \A w \in DOMAIN versions : /\ versions'[w].accuracy = versions[w].accuracy
                                       /\ w # v => versions'[w] = versions[w]
  <1>1. v \in DOMAIN versions /\ stage \in Stages /\ DOMAIN versions = 1 .. Len(versions)
    BY DEF PromoteModel
  <1>2. versions[v] \in VersionRecords
    BY <1>1
  <1> DEFINE new == [versions[v] EXCEPT !.stage = stage]
  <1>3. new \in VersionRecords /\ new.stage = stage /\ new.accuracy = versions[v].accuracy
    BY <1>1, <1>2 DEF VersionRecords
  <1>4. versions' = [versions EXCEPT ![v] = new]
    BY DEF PromoteModel
  <1> HIDE DEF new
  <1>5. versions' \in Seq(VersionRecords) /\ Len(versions') = Len(versions)
    BY <1>1, <1>3, <1>4
  <1>6. versions'[v] = new /\ \A w \in DOMAIN versions : w # v => versions'[w] = versions[w]
    BY <1>1, <1>4
  <1> QED BY <1>1, <1>3, <1>5, <1>6

LEMMA RegistrationType ==
  ASSUME versions \in Seq(VersionRecords), NEW accuracy \in Nat, RegisterModel(accuracy)
  PROVE  /\ versions' \in Seq(VersionRecords) /\ Len(versions') = Len(versions) + 1
         /\ versions'[Len(versions) + 1].stage = "None"
         /\ \A w \in DOMAIN versions : versions'[w] = versions[w]
  <1> DEFINE new == ModelVersion(accuracy)
  <1>1. new \in VersionRecords /\ new.stage = "None"
    BY DEF ModelVersion, VersionRecords, Stages
  <1>2. versions' = Append(versions, new)
    BY DEF RegisterModel
  <1> HIDE DEF new
  <1>3. versions' \in Seq(VersionRecords) /\ Len(versions') = Len(versions) + 1
    BY <1>1, <1>2
  <1>4. versions'[Len(versions) + 1] = new
    BY <1>1, <1>2, AppendProperties
  <1>5. \A w \in DOMAIN versions : versions'[w] = versions[w]
    BY <1>1, <1>2
  <1> QED BY <1>1, <1>3, <1>4, <1>5

\* The registry's own calls, and a run's, change no accuracy but by deleting all.
Kept == \A w \in DOMAIN versions \cap DOMAIN versions' : versions'[w].accuracy = versions[w].accuracy

LEMMA RegistryKeeps ==
  ASSUME versions \in Seq(VersionRecords), RegistryNext
  PROVE  versions' \in Seq(VersionRecords) /\ (Kept \/ versions' = <<>>)
  <1>1. ASSUME NEW v, NEW s, PromoteModel(v, s) PROVE versions' \in Seq(VersionRecords) /\ Kept
    BY <1>1, PromotionType DEF Kept
  <1>2. ASSUME versions' = versions PROVE versions' \in Seq(VersionRecords) /\ Kept
    BY <1>2 DEF Kept
  <1>3. ASSUME NEW a \in Accuracies, OperatorRegisters(a)
        PROVE  versions' \in Seq(VersionRecords) /\ Kept
    <2>1. a \in Nat /\ RegisterModel(a)
      BY <1>3, RegistryAssumption DEF OperatorRegisters
    <2> QED BY <2>1, RegistrationType DEF Kept
  <1>4. ASSUME NEW v \in DOMAIN versions, NEW s \in StageNames, OperatorPromotes(v, s)
        PROVE  versions' \in Seq(VersionRecords) /\ Kept
    BY <1>1, <1>4 DEF OperatorPromotes
  <1>5. ASSUME NEW v \in DOMAIN versions, NEW answered \in BOOLEAN, RollbackModel(v, answered)
        PROVE  versions' \in Seq(VersionRecords) /\ Kept
    BY <1>2, <1>5 DEF RollbackModel
  <1>6. ASSUME NEW answered \in BOOLEAN, DeleteModel(answered)
        PROVE  versions' \in Seq(VersionRecords) /\ Kept
    BY <1>2, <1>6 DEF DeleteModel
  <1>7. CASE ArchiveListed
    BY <1>1, <1>7 DEF ArchiveListed
  <1>8. CASE FinishRollback
    BY <1>1, <1>8 DEF FinishRollback
  <1>9. CASE FinishDelete
    <2>1. versions' = <<>>
      BY <1>9 DEF FinishDelete
    <2>2. <<>> \in Seq(VersionRecords)
      OBVIOUS
    <2> QED BY <2>1, <2>2
  <1>10. CASE OperatorFails
    BY <1>2, <1>10 DEF OperatorFails
  <1> QED BY <1>3, <1>4, <1>5, <1>6, <1>7, <1>8, <1>9, <1>10 DEF RegistryNext

LEMMA SameProduction ==
  ASSUME versions \in Seq(VersionRecords), versions' \in Seq(VersionRecords),
         Kept \/ versions' = <<>>, ProductionOf(versions') = ProductionOf(versions),
         NEW run, StillBetter(run, versions)
  PROVE  StillBetter(run, versions')
  <1>1. LatestFacts(versions) /\ LatestFacts(versions')
    BY LatestKnown
  <1>2. CASE ProductionOf(versions) = 0
    BY <1>2 DEF StillBetter
  <1>3. CASE ProductionOf(versions) # 0
    <2> DEFINE v == ProductionOf(versions)
    <2>1. v \in DOMAIN versions /\ v \in DOMAIN versions'
      BY <1>1, <1>3 DEF LatestFacts
    <2>2. versions' # <<>>
      BY <2>1
    <2>3. versions'[v].accuracy = versions[v].accuracy
      BY <2>1, <2>2 DEF Kept
    <2> HIDE DEF v
    <2>4. StillBetter(run, versions')
      <3>1. v = ProductionOf(versions) /\ v = ProductionOf(versions')
        BY DEF v
      <3> QED BY <2>3, <3>1 DEF StillBetter
    <2> QED BY <2>4
  <1> QED BY <1>2, <1>3

\* A run that does nothing keeps what it has seen.
LEMMA RunCarries ==
  ASSUME PipelineInv, SeeRaces, versions' \in Seq(VersionRecords), Kept \/ versions' = <<>>,
         NEW r \in Runs, runs'[r] = runs[r],
         r \notin raced', runs'[r].step \in PastComparison, ~runs'[r].blind
  PROVE  StillBetter(runs'[r], versions')
  <1>1. r \notin raced /\ ProductionOf(versions') = ProductionOf(versions)
    BY NotRaced DEF PipelineInv
  <1>2. StillBetter(runs[r], versions)
    BY <1>1 DEF PipelineInv
  <1> QED BY <1>1, <1>2, SameProduction DEF PipelineInv, PipelineTypes

\* A run ends.
LEMMA EndTypes ==
  ASSUME PipelineTypes, NEW r \in Runs, NEW p \in BOOLEAN, Ends(r, p)
  PROVE  /\ runs' \in [Runs -> RunRecords]
         /\ runs'[r].step = "idle" /\ runs'[r].promoted = p
         /\ \A q \in Runs : q # r => runs'[q] = runs[q]
  <1> DEFINE new == [NotRunning EXCEPT !.promoted = p]
  <1>1. new \in RunRecords /\ new.step = "idle" /\ new.promoted = p
    BY DEF NotRunning, RunRecords, Steps
  <1>2. runs' = [runs EXCEPT ![r] = new] /\ runs \in [Runs -> RunRecords]
    BY DEF Ends, PipelineTypes
  <1> HIDE DEF new
  <1> QED BY <1>1, <1>2

\* Any step after which every run is either as it was, or still right to go on.
LEMMA StepKeeps ==
  ASSUME PipelineInv, SeeRaces, versions' \in Seq(VersionRecords), Kept \/ versions' = <<>>,
         NEW r \in Runs, runs' \in [Runs -> RunRecords],
         \A q \in Runs : q # r => runs'[q] = runs[q],
         runs'[r].step # "idle" => ~runs'[r].promoted,
         /\ r \notin raced' /\ runs'[r].step \in PastComparison /\ ~runs'[r].blind
            => StillBetter(runs'[r], versions')
  PROVE  PipelineInv'
  <1>1. \A q \in Runs \ raced' : runs'[q].step \in PastComparison /\ ~runs'[q].blind
                                  => StillBetter(runs'[q], versions')
    <2> SUFFICES ASSUME NEW q \in Runs, q \notin raced', runs'[q].step \in PastComparison, ~runs'[q].blind,
                        q # r
                 PROVE  StillBetter(runs'[q], versions')
      OBVIOUS
    <2> QED BY RunCarries
  <1>2. \A q \in Runs : runs'[q].step # "idle" => ~runs'[q].promoted
    BY DEF PipelineInv, PipelineTypes
  <1>3. PipelineTypes'
    BY <1>2, RacedAreRuns DEF PipelineTypes
  <1>4. \A q \in Runs \ raced' : runs'[q].step \in PastComparison /\ ~runs'[q].blind
                                  => StillBetter(runs[q], versions)'
    BY <1>1 DEF StillBetter, ProductionOf, GetLatestModel, InStage
  <1> QED BY <1>3, <1>4 DEF PipelineInv

LEMMA EndKeeps ==
  ASSUME PipelineInv, SeeRaces, versions' \in Seq(VersionRecords), Kept,
         NEW r \in Runs, NEW p \in BOOLEAN, Ends(r, p)
  PROVE  PipelineInv'
  <1>1. /\ runs' \in [Runs -> RunRecords] /\ runs'[r].step = "idle"
        /\ \A q \in Runs : q # r => runs'[q] = runs[q]
    BY EndTypes DEF PipelineInv
  <1>2. runs'[r].step \notin PastComparison
    BY <1>1 DEF PastComparison
  <1> QED BY <1>1, <1>2, StepKeeps

LEMMA CompareKeeps ==
  ASSUME PipelineInv, SeeRaces, NEW r \in Runs, NEW answered \in BOOLEAN, NEW missed,
         Compare(r, answered, missed)
  PROVE  PipelineInv'
  <1>1. versions' = versions /\ versions \in Seq(VersionRecords) /\ Kept
    BY DEF Compare, registryVars, Kept, PipelineInv, PipelineTypes
  <1>2. CASE Ends(r, FALSE)
    BY <1>1, <1>2, EndKeeps
  <1>3. CASE ~Ends(r, FALSE)
    <2> DEFINE current == IF answered THEN GetLatestModel(versions, "Production") ELSE 0
               baseline == IF current = 0 THEN NoBaseline ELSE versions[current].accuracy
               old == runs[r]
               new == [old EXCEPT !.step = "register", !.blind = ~answered]
    <2>1. ImprovesEnough(old.accuracy, baseline)
      BY <1>3 DEF Compare
    <2>2. runs' = [runs EXCEPT ![r] = [runs[r] EXCEPT !.step = "register", !.blind = ~answered]]
      BY <1>3 DEF Compare
    <2>3. /\ old \in RunRecords /\ new \in RunRecords /\ new.step = "register" /\ new.blind = ~answered
          /\ new.accuracy = old.accuracy /\ old.step = "compare" /\ new.promoted = old.promoted
      <3>1. old \in RunRecords /\ old.step = "compare"
        BY DEF PipelineInv, PipelineTypes, Compare
      <3> HIDE DEF old
      <3> QED BY <3>1 DEF RunRecords, Steps
    <2>4. ~old.promoted
      BY <2>3 DEF PipelineInv, PipelineTypes
    <2>5. answered => StillBetter(new, versions)
      <3> SUFFICES ASSUME answered PROVE StillBetter(new, versions)
        OBVIOUS
      <3>1. current = ProductionOf(versions)
        BY DEF ProductionOf
      <3>2. current # 0 => versions[current].accuracy \in Nat
        <4>1. current # 0 => current \in DOMAIN versions
          BY <1>1, <3>1, LatestKnown DEF LatestFacts
        <4>2. \A v \in DOMAIN versions : versions[v] \in VersionRecords
          BY <1>1
        <4> QED BY <4>1, <4>2 DEF VersionRecords
      <3>3. current # 0 => old.accuracy >= versions[current].accuracy + Improvement
        <4>1. old.accuracy \in Nat /\ Improvement \in Nat
          BY <2>3, RetrainingAssumption DEF RunRecords
        <4> SUFFICES ASSUME current # 0
                     PROVE  old.accuracy >= versions[current].accuracy + Improvement
          OBVIOUS
        <4> DEFINE c == versions[current].accuracy  a == old.accuracy
        <4>2. baseline = c
          OBVIOUS
        <4>3. c \in Nat /\ a \in Nat /\ ImprovesEnough(a, c)
          BY <2>1, <3>2, <4>1, <4>2
        <4> HIDE DEF c, a
        <4>4. a >= c + Improvement
          BY <4>1, <4>3 DEF ImprovesEnough
        <4> QED BY <4>4 DEF a, c
      <3> HIDE DEF new, current, old
      <3>4. new.step \notin {"stage", "promote"}
        BY <2>3
      <3> QED BY <2>3, <3>1, <3>3, <3>4 DEF StillBetter
    <2> HIDE DEF new, old
    <2>6. /\ runs' \in [Runs -> RunRecords] /\ runs'[r] = new
          /\ \A q \in Runs : q # r => runs'[q] = runs[q]
      BY <2>2, <2>3 DEF new, old, PipelineInv, PipelineTypes
    <2>7. runs'[r].step # "idle" => ~runs'[r].promoted
      BY <2>3, <2>4, <2>6
    <2>8. ~runs'[r].blind => StillBetter(runs'[r], versions')
      BY <1>1, <2>3, <2>5, <2>6
    <2> QED BY <1>1, <2>6, <2>7, <2>8, StepKeeps
  <1> QED BY <1>2, <1>3

LEMMA TrainKeeps ==
  ASSUME PipelineInv, SeeRaces, NEW r \in Runs, NEW d \in DataQualities, NEW a \in Accuracies,
         Train(r, d, a)
  PROVE  PipelineInv'
  <1>1. versions' = versions /\ versions \in Seq(VersionRecords) /\ Kept /\ a \in Nat
    BY RegistryAssumption DEF Train, registryVars, Kept, PipelineInv, PipelineTypes
  <1>2. CASE Ends(r, FALSE)
    BY <1>1, <1>2, EndKeeps
  <1>3. CASE ~Ends(r, FALSE)
    <2> DEFINE new == [NotRunning EXCEPT !.step = "compare", !.accuracy = a]
    <2>1. runs' = [runs EXCEPT ![r] = new]
      BY <1>3 DEF Train
    <2>2. new \in RunRecords /\ new.step = "compare" /\ ~new.promoted
      BY <1>1 DEF NotRunning, RunRecords, Steps
    <2> HIDE DEF new
    <2>3. /\ runs' \in [Runs -> RunRecords] /\ runs'[r] = new
          /\ \A q \in Runs : q # r => runs'[q] = runs[q]
      BY <2>1, <2>2 DEF PipelineInv, PipelineTypes
    <2>4. runs'[r].step \notin PastComparison /\ ~runs'[r].promoted
      BY <2>2, <2>3 DEF PastComparison
    <2> QED BY <1>1, <2>3, <2>4, StepKeeps
  <1> QED BY <1>2, <1>3

\* The version a run registers is the highest.
LEMMA RegisterKeeps ==
  ASSUME PipelineInv, SeeRaces, NEW r \in Runs, RunRegisters(r)
  PROVE  PipelineInv'
  <1>1. /\ versions \in Seq(VersionRecords) /\ runs[r] \in RunRecords /\ runs[r].accuracy \in Nat
        /\ runs[r].step = "register" /\ ~runs[r].promoted
    BY DEF PipelineInv, PipelineTypes, RunRecords, RunRegisters
  <1>2. /\ versions' \in Seq(VersionRecords) /\ Len(versions') = Len(versions) + 1
        /\ versions'[Len(versions) + 1].stage = "None"
        /\ \A w \in DOMAIN versions : versions'[w] = versions[w]
    BY <1>1, RegistrationType DEF RunRegisters
  <1>3. Kept
    BY <1>2 DEF Kept
  <1> DEFINE old == runs[r]
             new == [old EXCEPT !.step = "stage", !.version = Len(versions) + 1]
  <1>4. runs' = [runs EXCEPT ![r] = [runs[r] EXCEPT !.step = "stage", !.version = Len(versions) + 1]]
    BY DEF RunRegisters
  <1>5. /\ new \in RunRecords /\ new.step = "stage" /\ new.version = Len(versions) + 1
        /\ new.accuracy = old.accuracy /\ new.blind = old.blind /\ new.promoted = old.promoted
    <2>1. old \in RunRecords /\ Len(versions) + 1 \in Nat
      BY <1>1
    <2> HIDE DEF old
    <2> QED BY <2>1 DEF RunRecords, Steps
  <1> HIDE DEF new, old
  <1>6. /\ runs' \in [Runs -> RunRecords] /\ runs'[r] = new
        /\ \A q \in Runs : q # r => runs'[q] = runs[q]
    BY <1>4, <1>5 DEF new, old, PipelineInv, PipelineTypes
  <1>7. ASSUME r \notin raced', ~runs'[r].blind PROVE StillBetter(runs'[r], versions')
    <2>1. runs'[r].step \in PastComparison
      BY <1>5, <1>6 DEF PastComparison
    <2>2. r \notin raced /\ ProductionOf(versions') = ProductionOf(versions)
      BY <1>7, <2>1, NotRaced DEF PipelineInv
    <2>3. StillBetter(old, versions)
      BY <1>1, <1>5, <1>6, <1>7, <2>2 DEF PipelineInv, PastComparison, old
    <2>4. StillBetter(old, versions')
      BY <1>1, <1>2, <1>3, <2>2, <2>3, SameProduction
    <2>5. ProductionOf(versions) < new.version
      <3>1. LatestFacts(versions)
        BY <1>1, LatestKnown
      <3> DEFINE v == ProductionOf(versions)
      <3>2. v \in Nat /\ (v # 0 => v \in 1 .. Len(versions))
        BY <1>1, <3>1 DEF LatestFacts
      <3> HIDE DEF v
      <3>3. v < Len(versions) + 1
        BY <1>1, <3>2
      <3> QED BY <1>5, <3>3 DEF v
    <2>6. StillBetter(new, versions')
      BY <1>5, <2>2, <2>4, <2>5 DEF StillBetter
    <2> QED BY <1>6, <2>6
  <1>8. ~runs'[r].promoted
    BY <1>1, <1>5, <1>6 DEF old
  <1> QED BY <1>2, <1>3, <1>6, <1>7, <1>8, StepKeeps

LEMMA StageKeeps ==
  ASSUME PipelineInv, SeeRaces, NEW r \in Runs, RunStages(r)
  PROVE  PipelineInv'
  <1>1. versions \in Seq(VersionRecords) /\ runs[r] \in RunRecords /\ runs[r].step = "stage" /\ ~runs[r].promoted
    BY DEF PipelineInv, PipelineTypes, RunStages
  <1>2. versions' \in Seq(VersionRecords) /\ Kept
    BY <1>1, PromotionType DEF RunStages, Kept
  <1> DEFINE old == runs[r]
             new == [old EXCEPT !.step = "promote"]
  <1>3. runs' = [runs EXCEPT ![r] = [runs[r] EXCEPT !.step = "promote"]]
    BY DEF RunStages, Goes
  <1>4. /\ new \in RunRecords /\ new.step = "promote" /\ new.version = old.version
        /\ new.accuracy = old.accuracy /\ new.blind = old.blind /\ new.promoted = old.promoted
    <2>1. old \in RunRecords
      BY <1>1
    <2> HIDE DEF old
    <2> QED BY <2>1 DEF RunRecords, Steps
  <1> HIDE DEF new, old
  <1>5. /\ runs' \in [Runs -> RunRecords] /\ runs'[r] = new
        /\ \A q \in Runs : q # r => runs'[q] = runs[q]
    BY <1>3, <1>4 DEF new, old, PipelineInv, PipelineTypes
  <1>6. ASSUME r \notin raced', ~runs'[r].blind PROVE StillBetter(runs'[r], versions')
    <2>1. runs'[r].step \in PastComparison
      BY <1>4, <1>5 DEF PastComparison
    <2>2. r \notin raced /\ ProductionOf(versions') = ProductionOf(versions)
      BY <1>6, <2>1, NotRaced DEF PipelineInv
    <2>3. StillBetter(old, versions)
      BY <1>1, <1>4, <1>5, <1>6, <2>2 DEF PipelineInv, PastComparison, old
    <2>4. StillBetter(old, versions')
      BY <1>1, <1>2, <2>2, <2>3, SameProduction
    <2>5. old.step = "stage"
      BY <1>1 DEF old
    <2>6. StillBetter(new, versions')
      BY <1>4, <2>4, <2>5 DEF StillBetter
    <2> QED BY <1>5, <2>6
  <1>7. ~runs'[r].promoted
    BY <1>1, <1>4, <1>5 DEF old
  <1> QED BY <1>2, <1>5, <1>6, <1>7, StepKeeps

\* A run of the pipeline, the scheduler, or the registry's own calls.
LEMMA PipelineStep == PipelineInv /\ [RetrainingNext]_retrainingVars => PipelineInv'
  <1> SUFFICES ASSUME PipelineInv, [RetrainingNext]_retrainingVars PROVE PipelineInv'
    OBVIOUS
  <1>0. versions \in Seq(VersionRecords) /\ runs \in [Runs -> RunRecords]
    BY DEF PipelineInv, PipelineTypes
  <1>1. ASSUME SeeRaces, UNCHANGED runs, versions' \in Seq(VersionRecords), Kept \/ versions' = <<>>
        PROVE  PipelineInv'
    <2>1. ASSUME NEW r \in Runs, r \notin raced', runs'[r].step \in PastComparison, ~runs'[r].blind
          PROVE  StillBetter(runs'[r], versions')
      BY <1>1, <2>1, RunCarries
    <2>2. PipelineTypes'
      BY <1>1, RacedAreRuns DEF PipelineInv, PipelineTypes
    <2>3. \A q \in Runs \ raced' : runs'[q].step \in PastComparison /\ ~runs'[q].blind
                                    => StillBetter(runs[q], versions)'
      BY <2>1 DEF StillBetter, ProductionOf, GetLatestModel, InStage
    <2> QED BY <2>2, <2>3 DEF PipelineInv
  <1>2. CASE RegistryNext /\ UNCHANGED <<runs, scheduler>> /\ SeeRaces
    BY <1>0, <1>1, <1>2, RegistryKeeps
  <1>3. ASSUME NEW r \in Runs, RunNext(r), SeeRaces PROVE PipelineInv'
    <2>1. ASSUME NEW d \in DataQualities, NEW a \in Accuracies, Train(r, d, a) PROVE PipelineInv'
      BY <1>3, <2>1, TrainKeeps
    <2>2. ASSUME NEW answered \in BOOLEAN, NEW missed, Compare(r, answered, missed) PROVE PipelineInv'
      BY <1>3, <2>2, CompareKeeps
    <2>3. CASE RunRegisters(r)
      BY <1>3, <2>3, RegisterKeeps
    <2>4. CASE RunStages(r)
      BY <1>3, <2>4, StageKeeps
    <2>5. CASE RunPromotes(r)
      <3>1. versions' \in Seq(VersionRecords) /\ Kept
        BY <1>0, <2>5, PromotionType DEF RunPromotes, Kept
      <3> QED BY <1>3, <2>5, <3>1, EndKeeps DEF RunPromotes
    <2>6. CASE RunFails(r)
      <3>1. versions' = versions /\ Kept /\ Ends(r, FALSE)
        BY <2>6 DEF RunFails, registryVars, Kept
      <3> QED BY <1>0, <1>3, <3>1, EndKeeps
    <2> QED BY <1>3, <2>1, <2>2, <2>3, <2>4, <2>5, <2>6 DEF RunNext
  <1>4. CASE (RunScheduled \/ StopScheduler \/ LoopEnds) /\ SeeRaces
    <2>1. UNCHANGED <<registryVars, runs>>
      BY <1>4 DEF RunScheduled, StopScheduler, LoopEnds
    <2>2. Kept /\ versions' = versions
      BY <2>1 DEF registryVars, Kept
    <2> QED BY <1>0, <1>1, <1>4, <2>1, <2>2
  <1>5. CASE UNCHANGED retrainingVars
    BY <1>5 DEF retrainingVars, registryVars, PipelineInv, PipelineTypes, StillBetter, ProductionOf,
                GetLatestModel, InStage
  <1> QED BY <1>2, <1>3, <1>4, <1>5 DEF RetrainingNext

\* A promotion that no other has overtaken, step by step.
LEMMA PromotionImproves ==
  ASSUME PipelineInv, RetrainingNext, NEW r \in Runs, r \notin raced,
         PromotesNow(r), ~runs[r].blind
  PROVE  LET current == GetLatestModel(versions, "Production") IN
         /\ current # 0 => runs[r].accuracy >= versions[current].accuracy + Improvement
         /\ GetLatestModel(versions', "Production") = runs[r].version
  <1>0. /\ versions \in Seq(VersionRecords) /\ runs \in [Runs -> RunRecords] /\ runs[r] \in RunRecords
        /\ runs[r].step = "promote" /\ runs'[r].promoted /\ ~runs[r].promoted
    BY DEF PipelineInv, PipelineTypes, PromotesNow
  <1>1. RunPromotes(r)
    <2>1. runs'[r] # runs[r]
      BY <1>0
    <2>2. ~UNCHANGED runs
      BY <2>1
    <2>3. PICK q \in Runs : RunNext(q)
      BY <2>2 DEF RetrainingNext, RunScheduled, StopScheduler, LoopEnds
    <2>4. ASSUME q # r PROVE FALSE
      <3>1. \A new : runs' = [runs EXCEPT ![q] = new] => runs'[r] = runs[r]
        BY <1>0, <2>4
      <3>2. \E new : runs' = [runs EXCEPT ![q] = new]
        BY <2>3 DEF RunNext, Train, Compare, RunRegisters, RunStages, RunPromotes, RunFails, Ends, Goes
      <3> QED BY <2>1, <3>1, <3>2
    <2>5. RunPromotes(r) \/ RunFails(r)
      BY <1>0, <2>3, <2>4 DEF RunNext, Train, Compare, RunRegisters, RunStages
    <2>6. ASSUME RunFails(r) PROVE FALSE
      <3>1. Ends(r, FALSE)
        BY <2>6 DEF RunFails
      <3>2. runs'[r].promoted = FALSE
        BY <3>1, EndTypes DEF PipelineInv
      <3> QED BY <1>0, <3>2
    <2> QED BY <2>5, <2>6
  <1>2. StillBetter(runs[r], versions)
    BY <1>0 DEF PipelineInv, PastComparison
  <1>3. PromoteModel(runs[r].version, "Production")
    BY <1>1 DEF RunPromotes
  <1> DEFINE v == runs[r].version
  <1>4. v \in Nat /\ ProductionOf(versions) < v
    BY <1>0, <1>2 DEF RunRecords, StillBetter
  <1>5. /\ versions' \in Seq(VersionRecords) /\ Len(versions') = Len(versions)
        /\ v \in DOMAIN versions /\ versions'[v].stage = "Production"
        /\ \A w \in DOMAIN versions : w # v => versions'[w] = versions[w]
    BY <1>0, <1>3, PromotionType
  <1> HIDE DEF v
  <1>6. IsLatest(versions', "Production", v)
    <2>1. DOMAIN versions' = DOMAIN versions /\ DOMAIN versions \subseteq Nat
      BY <1>0, <1>5
    <2>2. LatestFacts(versions)
      BY <1>0, LatestKnown
    <2>3. ASSUME NEW w \in DOMAIN versions, w # v, versions'[w].stage = "Production" PROVE w <= v
      <3>1. w <= ProductionOf(versions) /\ ProductionOf(versions) \in Nat /\ w \in Nat
        BY <1>5, <2>1, <2>2, <2>3 DEF LatestFacts
      <3> QED BY <1>4, <3>1
    <2> QED BY <1>4, <1>5, <2>1, <2>3 DEF IsLatest, InStage
  <1>7. GetLatestModel(versions', "Production") = v
    BY <1>4, <1>5, <1>6, LatestOnly
  <1> QED BY <1>2, <1>7 DEF v, StillBetter, ProductionOf

\* However many runs of the pipeline there are, scheduled and manual, and whatever the
\* operator does in between: one that puts a version in production improves on the
\* version there by the threshold and becomes the latest, unless it has been raced or
\* MLflow did not answer it (pipeline.py, run_pipeline).
THEOREM PromotionsImprove == RetrainingSpec => ImprovesUnlessRaced
  <1>1. RetrainingInit => PipelineInv
    BY PipelineStarts
  <1>2. PipelineInv /\ [RetrainingNext]_retrainingVars => PipelineInv'
    BY PipelineStep
  <1>3. PipelineInv /\ [RetrainingNext]_retrainingVars =>
          [\A r \in Runs \ raced : PromotesNow(r) /\ ~runs[r].blind =>
             LET current == GetLatestModel(versions, "Production") IN
             /\ current # 0 => runs[r].accuracy >= versions[current].accuracy + Improvement
             /\ GetLatestModel(versions', "Production") = runs[r].version]_retrainingVars
    BY PromotionImproves
  <1> QED BY <1>1, <1>2, <1>3, PTL DEF RetrainingSpec, ImprovesUnlessRaced
-----------------------------------------------------------------------------
\* CanaryRollout: types, and a deployment that did not start later than today.
Phases == 1 .. (Len(Durations) + 1)

CanaryInv ==
  /\ today \in Nat /\ canary.started \in 0 .. today /\ canary.phase \in Phases
  /\ canary \in [model : {canary.model}, started : Nat, phase : Nat, rollback : BOOLEAN]

LEMMA DurationFacts ==
  /\ Len(Durations) \in Nat /\ DOMAIN Durations = 1 .. Len(Durations) /\ LastPhase = Len(Durations) + 1
  /\ \A k \in DOMAIN Durations : Durations[k] \in Nat
  BY CanaryAssumption DEF LastPhase

LEMMA SmallestThere ==
  ASSUME NEW S \in SUBSET Nat, S # {}
  PROVE  Min(S) \in S /\ \A k \in S : Min(S) <= k
  <1>1. PICK m \in S : \A k \in S : m <= k
    BY LeastNumber
  <1> QED BY <1>1 DEF Min

\* Where a poll arrives: in the last phase, or in one that takes longer.
LEMMA PhaseArrives ==
  ASSUME NEW phase \in Phases, NEW e \in Nat
  PROVE  /\ PhaseAt(phase, e) \in Phases
         /\ PhaseAt(phase, e) = LastPhase \/ e < Durations[PhaseAt(phase, e)]
  <1> DEFINE S == {k \in phase .. LastPhase : k = LastPhase \/ e < Durations[k]}
             n == Len(Durations)
  <1>1. n \in Nat /\ LastPhase = n + 1 /\ phase \in 1 .. (n + 1)
    BY DurationFacts DEF Phases
  <1>2. S \in SUBSET Nat /\ LastPhase \in S
    BY <1>1
  <1>3. PhaseAt(phase, e) = Min(S)
    BY DEF PhaseAt
  <1>4. Min(S) \in S
    BY <1>2, SmallestThere
  <1> QED BY <1>1, <1>3, <1>4 DEF Phases

\* A phase ends no earlier than it takes.
LEMMA PhaseTakesItsTime ==
  ASSUME NEW k \in DOMAIN Durations PROVE PhaseEnds(k) \in Int /\ PhaseEnds(k) >= Durations[k]
  <1>1. k \in Nat /\ k \in 1 .. k /\ IsFiniteSet(1 .. k)
    <2>1. k \in 1 .. Len(Durations)
      BY DurationFacts
    <2>2. k \in Nat /\ k \in 1 .. k /\ 1 \in Int /\ k \in Int
      BY <2>1
    <2> QED BY <2>2, FS_Interval
  <1>2. \A i \in 1 .. k : Durations[i] \in Nat
    BY DurationFacts
  <1> DEFINE rest == (1 .. k) \ {k}
             none == [i \in rest |-> 0]
  <1>3. IsFiniteSet(rest)
    BY <1>1, FS_Subset
  <1>4. SumFunctionOnSet(Durations, 1 .. k) = Durations[k] + SumFunctionOnSet(Durations, rest)
    BY <1>1, <1>2, SumRemove
  <1>5. \A i \in rest : none[i] = 0 /\ none[i] \in Int /\ Durations[i] \in Int /\ none[i] <= Durations[i]
    BY <1>2
  <1>6. rest \in SUBSET rest /\ \A i \in rest : Durations[i] \in Int
    BY <1>5
  <1> HIDE DEF rest, none
  <1>7. SumFunctionOnSet(none, rest) = 0
    BY <1>3, <1>5, SumZero
  <1>8. SumFunctionOnSet(none, rest) <= SumFunctionOnSet(Durations, rest)
    BY <1>3, <1>5, SumLeq
  <1>9. SumFunctionOnSet(Durations, rest) \in Int
    BY <1>3, <1>6, SumInt
  <1> DEFINE x == SumFunctionOnSet(Durations, rest)
  <1> HIDE DEF x
  <1>10. x \in Int /\ x >= 0 /\ PhaseEnds(k) = Durations[k] + x
    BY <1>4, <1>7, <1>8, <1>9 DEF x, PhaseEnds
  <1> QED BY <1>1, <1>2, <1>10

LEMMA IndexNotAhead == ASSUME CanaryInv PROVE GetPhaseIndex <= PhaseAt(canary.phase, Elapsed)
  <1> DEFINE m == PhaseAt(canary.phase, Elapsed)
             n == Len(Durations)
             S == {k \in 1 .. LastPhase : k = LastPhase \/ Elapsed < PhaseEnds(k)}
  <1>1. /\ n \in Nat /\ LastPhase = n + 1 /\ DOMAIN Durations = 1 .. n
        /\ Elapsed \in Nat /\ canary.phase \in Phases
    BY DurationFacts DEF CanaryInv, Elapsed
  <1>3. m \in Phases /\ (m = LastPhase \/ Elapsed < Durations[m])
    BY <1>1, PhaseArrives
  <1> HIDE DEF m
  <1>4. m \in 1 .. (n + 1)
    BY <1>1, <1>3 DEF Phases
  <1>5. m \in S
    <2>1. CASE m = n + 1
      BY <1>1, <1>4, <2>1
    <2>2. CASE m # n + 1
      <3>1. m \in DOMAIN Durations /\ Durations[m] \in Nat /\ Elapsed < Durations[m]
        BY <1>1, <1>3, <1>4, <2>2, DurationFacts
      <3>2. PhaseEnds(m) \in Int /\ PhaseEnds(m) >= Durations[m]
        BY <3>1, PhaseTakesItsTime
      <3>3. Elapsed < PhaseEnds(m)
        BY <1>1, <3>1, <3>2
      <3> QED BY <1>1, <1>4, <3>3
    <2> QED BY <2>1, <2>2
  <1>6. S \in SUBSET Nat
    BY <1>1
  <1>7. GetPhaseIndex = IF canary = NotStarted THEN 1 ELSE Min(S)
    BY DEF GetPhaseIndex
  <1> HIDE DEF S
  <1>8. Min(S) <= m
    BY <1>5, <1>6, SmallestThere
  <1>9. GetPhaseIndex <= m
    BY <1>1, <1>4, <1>7, <1>8
  <1> QED BY <1>9 DEF m

\* For any phases, however often and late a rollout is polled: what is_complete computes is
\* not ahead of the capital a poll gives (validator.py, get_allocation, _get_phase_index).
THEOREM CapitalFollows == CanarySpec => []CapitalKeepsUp
  <1>1. CanaryInit => CanaryInv
    <2> SUFFICES ASSUME CanaryInit PROVE CanaryInv
      OBVIOUS
    <2>1. 1 \in Phases
      BY DurationFacts DEF Phases
    <2> QED BY <2>1 DEF CanaryInit, CanaryInv, NotStarted
  <1>2. CanaryInv /\ [CanaryNext]_canaryVars => CanaryInv'
    <2> SUFFICES ASSUME CanaryInv, [CanaryNext]_canaryVars PROVE CanaryInv'
      OBVIOUS
    <2>1. ASSUME NEW m \in Candidates, StartDeployment(m) PROVE CanaryInv'
      <3>1. 1 \in Phases
        BY DurationFacts DEF Phases
      <3> QED BY <2>1, <3>1 DEF StartDeployment, CanaryInv
    <2>2. CASE GetAllocation
      <3> DEFINE p == PhaseAt(canary.phase, Elapsed)
      <3>1. Elapsed \in Nat /\ canary.phase \in Phases
        BY DEF CanaryInv, Elapsed
      <3>2. p \in Phases /\ p \in Nat
        <4>1. p \in Phases
          BY <3>1, PhaseArrives
        <4> HIDE DEF p
        <4> QED BY <4>1, DurationFacts DEF Phases
      <3> HIDE DEF p
      <3>3. canary' = [canary EXCEPT !.phase = p] /\ today' = today
        BY <2>2 DEF GetAllocation, p
      <3>4. /\ canary'.started = canary.started /\ canary'.phase = p
            /\ canary' \in [model : {canary'.model}, started : Nat, phase : Nat, rollback : BOOLEAN]
        BY <3>2, <3>3 DEF CanaryInv
      <3> QED BY <3>2, <3>3, <3>4 DEF CanaryInv
    <2>3. ASSUME NEW d \in Degradations, ShouldRollback(d) PROVE CanaryInv'
      <3>1. /\ canary'.started = canary.started /\ canary'.phase = canary.phase
            /\ canary' \in [model : {canary'.model}, started : Nat, phase : Nat, rollback : BOOLEAN]
            /\ today' = today
        BY <2>3 DEF ShouldRollback, CanaryInv
      <3> QED BY <3>1 DEF CanaryInv
    <2>4. CASE Tick
      <3>1. canary' = canary /\ today' = today + 1
        BY <2>4 DEF Tick
      <3> QED BY <3>1 DEF CanaryInv
    <2>5. CASE UNCHANGED canaryVars
      BY <2>5 DEF canaryVars, CanaryInv
    <2> QED BY <2>1, <2>2, <2>3, <2>4, <2>5 DEF CanaryNext
  <1>3. CanaryInv => CapitalKeepsUp
    BY IndexNotAhead DEF CapitalKeepsUp
  <1> QED BY <1>1, <1>2, <1>3, PTL DEF CanarySpec

\* Where code and documentation part (the docstring of CanaryDeployer has the phases follow
\* each other): once the longest of the phases has passed since the start of a rollout, a
\* poll gives all of the capital, however many phases there are and in whichever it was
\* (validator.py, get_allocation).
THEOREM PhasesRunTogether ==
  ASSUME NEW phase \in Phases, NEW elapsed \in Nat,
         \A k \in DOMAIN Durations : Durations[k] <= elapsed
  PROVE  PhaseAt(phase, elapsed) = LastPhase
  <1>1. PhaseAt(phase, elapsed) \in Phases
    BY PhaseArrives
  <1>2. PhaseAt(phase, elapsed) = LastPhase \/ elapsed < Durations[PhaseAt(phase, elapsed)]
    BY PhaseArrives
  <1> DEFINE arrives == PhaseAt(phase, elapsed)
  <1> HIDE DEF arrives
  <1>3. CASE arrives \in DOMAIN Durations
    <2>1. Durations[arrives] <= elapsed /\ Durations[arrives] \in Nat
      BY <1>3, DurationFacts
    <2> QED BY <1>2, <2>1 DEF arrives
  <1>4. CASE arrives \notin DOMAIN Durations
    BY <1>1, <1>4, DurationFacts DEF arrives, Phases
  <1> QED BY <1>3, <1>4 DEF arrives
-----------------------------------------------------------------------------
\* What the registry keeps: each name once, and the dependencies of each.
FeatureNames == Names \cup {UnknownName}
DefinitionSet == [order : Seq(Names), depends : UNION {[S -> Seq(FeatureNames)] : S \in SUBSET Names}]

DefinitionsInv ==
  /\ definitions \in DefinitionSet
  /\ IsInjective(definitions.order)
  /\ DOMAIN definitions.depends = Registered

LEMMA RegisteredNames ==
  ASSUME DefinitionsInv
  PROVE  /\ definitions.order \in Seq(Names) /\ Len(definitions.order) \in Nat
         /\ DOMAIN definitions.order = 1 .. Len(definitions.order)
         /\ Registered \subseteq Names
         /\ Registered = {definitions.order[i] : i \in 1 .. Len(definitions.order)}
         /\ definitions.depends \in [Registered -> Seq(FeatureNames)]
  <1>1. /\ definitions.order \in Seq(Names) /\ DOMAIN definitions.depends = Registered
        /\ definitions.depends \in UNION {[S -> Seq(FeatureNames)] : S \in SUBSET Names}
    BY DEF DefinitionsInv, DefinitionSet
  <1>2. /\ Len(definitions.order) \in Nat
        /\ DOMAIN definitions.order = 1 .. Len(definitions.order)
        /\ \A i \in 1 .. Len(definitions.order) : definitions.order[i] \in Names
    BY <1>1
  <1>3. Registered = {definitions.order[i] : i \in 1 .. Len(definitions.order)}
    BY <1>2 DEF Registered, ToSet
  <1>4. definitions.depends \in [Registered -> Seq(FeatureNames)]
    BY <1>1
  <1> QED BY <1>1, <1>2, <1>3, <1>4

LEMMA DefinitionKeeps ==
  ASSUME DefinitionsInv, NEW n \in Names, NEW d \in Seq(FeatureNames), Register(n, d)
  PROVE  DefinitionsInv'
  <1>1. CASE n \in Registered
    <2> DEFINE new == [definitions EXCEPT !.depends[n] = d]
    <2>1. definitions' = new
      BY <1>1 DEF Register
    <2>2. /\ new.order = definitions.order
          /\ new.depends = [definitions.depends EXCEPT ![n] = d]
          /\ new = [order |-> new.order, depends |-> new.depends]
      <3>1. definitions = [order |-> definitions.order, depends |-> definitions.depends]
        BY DEF DefinitionsInv, DefinitionSet
      <3>2. new = [order |-> definitions.order, depends |-> [definitions.depends EXCEPT ![n] = d]]
        BY <3>1
      <3> QED BY <3>2
    <2>3. /\ [definitions.depends EXCEPT ![n] = d] \in [Registered -> Seq(FeatureNames)]
          /\ Registered \in SUBSET Names /\ definitions.order \in Seq(Names)
      BY RegisteredNames
    <2> HIDE DEF new
    <2>4. new.depends \in UNION {[S -> Seq(FeatureNames)] : S \in SUBSET Names}
      BY <2>2, <2>3
    <2>5. new \in DefinitionSet
      BY <2>2, <2>3, <2>4 DEF DefinitionSet
    <2>6. DOMAIN new.depends = Registered
      BY <2>2, <2>3
    <2> QED BY <2>1, <2>2, <2>5, <2>6 DEF DefinitionsInv, Registered
  <1>2. CASE n \notin Registered
    <2> DEFINE order == Append(definitions.order, n)
               all == Registered \cup {n}
               depends == [m \in all |-> IF m = n THEN d ELSE definitions.depends[m]]
               k == Len(definitions.order)
    <2>1. definitions' = [order |-> order, depends |-> depends]
      BY <1>2 DEF Register
    <2>2. /\ definitions.order \in Seq(Names) /\ k \in Nat /\ DOMAIN definitions.order = 1 .. k
          /\ definitions.depends \in [Registered -> Seq(FeatureNames)] /\ Registered \subseteq Names
          /\ Registered = {definitions.order[i] : i \in 1 .. k}
      BY RegisteredNames
    <2>3. /\ order \in Seq(Names) /\ Len(order) = k + 1 /\ DOMAIN order = 1 .. k + 1
          /\ order[k + 1] = n /\ \A i \in 1 .. k : order[i] = definitions.order[i]
      BY <2>2
    <2>4. depends \in [all -> Seq(FeatureNames)] /\ DOMAIN depends = all /\ all \in SUBSET Names
      BY <2>2
    <2> HIDE DEF order, depends, k
    <2>5. all = {order[i] : i \in 1 .. k + 1}
      BY <2>2, <2>3
    <2>6. Registered' = all
      BY <2>1, <2>3, <2>5 DEF Registered, ToSet
    <2>7. IsInjective(order)
      <3> SUFFICES ASSUME NEW i \in 1 .. k + 1, NEW j \in 1 .. k + 1, order[i] = order[j]
                   PROVE  i = j
        BY <2>3 DEF IsInjective
      <3>1. \A l \in 1 .. k : order[l] # n
        BY <1>2, <2>2, <2>3
      <3>2. \A l, m \in 1 .. k : order[l] = order[m] => l = m
        BY <2>2, <2>3 DEF DefinitionsInv, IsInjective
      <3> QED BY <2>2, <2>3, <3>1, <3>2
    <2> HIDE DEF all
    <2>8. [order |-> order, depends |-> depends] \in DefinitionSet
      BY <2>3, <2>4 DEF DefinitionSet
    <2> QED BY <2>1, <2>4, <2>6, <2>7, <2>8 DEF DefinitionsInv
  <1> QED BY <1>1, <1>2

LEMMA ListsKnown == \A d \in DependencyLists : d \in Seq(FeatureNames)
  <1> SUFFICES ASSUME NEW d \in DependencyLists PROVE d \in Seq(FeatureNames)
    OBVIOUS
  <1>1. CASE d = <<>>
    BY <1>1
  <1>2. CASE \E a \in FeatureNames : d = <<a>>
    BY <1>2
  <1>3. CASE \E a, b \in FeatureNames : d = <<a, b>>
    BY <1>3
  <1> QED BY <1>1, <1>2, <1>3 DEF DependencyLists, FeatureNames

LEMMA StoreKeeps == StoreSpec => []DefinitionsInv
  <1>1. StoreInit => DefinitionsInv
    <2> SUFFICES ASSUME StoreInit PROVE DefinitionsInv
      OBVIOUS
    <2>1. definitions = [order |-> <<>>, depends |-> <<>>]
      BY DEF StoreInit
    <2>2. Registered = {} /\ DOMAIN definitions.depends = {} /\ IsInjective(definitions.order)
      BY <2>1 DEF Registered, ToSet, IsInjective
    <2>3. definitions.depends \in [{} -> Seq(FeatureNames)]
      BY <2>1
    <2>4. definitions \in DefinitionSet
      <3>1. definitions.depends \in UNION {[S -> Seq(FeatureNames)] : S \in SUBSET Names}
        BY <2>3
      <3>2. definitions.order \in Seq(Names) /\ definitions.order = <<>>
        BY <2>1
      <3> QED BY <2>1, <3>1, <3>2 DEF DefinitionSet
    <2> QED BY <2>2, <2>4 DEF DefinitionsInv
  <1>2. DefinitionsInv /\ [StoreNext]_storeVars => DefinitionsInv'
    <2> SUFFICES ASSUME DefinitionsInv, [StoreNext]_storeVars PROVE DefinitionsInv'
      OBVIOUS
    <2>1. CASE RegistrationNext
      BY <2>1, ListsKnown, DefinitionKeeps DEF RegistrationNext
    <2>2. CASE UNCHANGED definitions
      BY <2>2 DEF DefinitionsInv, Registered
    <2>3. OnlineNext => UNCHANGED definitions
      BY DEF OnlineNext, GetOnlineFeatures, SetFeatures, DeleteFeatures, Flush, SecondPasses
    <2> QED BY <2>1, <2>2, <2>3 DEF StoreNext, storeVars
  <1> QED BY <1>1, <1>2, PTL DEF StoreSpec
-----------------------------------------------------------------------------
LEMMA DependenciesKnown ==
  ASSUME DefinitionsInv
  PROVE  /\ \A n : DependsOn(n) \subseteq FeatureNames
         /\ \A n : GetDependencies(n) \in Seq(FeatureNames)
         /\ \A n : n \notin Registered => DependsOn(n) = {}
         /\ \A n : DependsOn(n) = {GetDependencies(n)[i] : i \in 1 .. Len(GetDependencies(n))}
  <1>1. ASSUME NEW n PROVE GetDependencies(n) \in Seq(FeatureNames)
    <2>1. CASE n \in Registered
      BY <2>1, RegisteredNames DEF GetDependencies
    <2>2. CASE n \notin Registered
      BY <2>2 DEF GetDependencies
    <2> QED BY <2>1, <2>2
  <1>2. ASSUME NEW n
        PROVE  DependsOn(n) = {GetDependencies(n)[i] : i \in 1 .. Len(GetDependencies(n))}
    BY <1>1 DEF DependsOn, ToSet
  <1>3. ASSUME NEW n PROVE DependsOn(n) \subseteq FeatureNames
    BY <1>1, <1>2
  <1>4. ASSUME NEW n, n \notin Registered PROVE DependsOn(n) = {}
    <2>1. GetDependencies(n) = <<>>
      BY <1>4 DEF GetDependencies
    <2> QED BY <2>1 DEF DependsOn, ToSet
  <1> QED BY <1>1, <1>2, <1>3, <1>4

LEMMA DependenciesClosed ==
  ASSUME DefinitionsInv, NEW n
  PROVE  /\ DependsOn(n) \subseteq AllDependencies(n)
         /\ \A m \in AllDependencies(n) : DependsOn(m) \subseteq AllDependencies(n)
         /\ AllDependencies(n) \subseteq FeatureNames
  BY DependenciesKnown DEF AllDependencies, FeatureNames

\* The calls still to be made: those under way end once, with every dependency visited or
\* in front of them; every call in front of an end was made for it.
CallSet == [name : FeatureNames, ends : BOOLEAN]
UnderWay(calls, temp) ==
  /\ \A i \in DOMAIN calls : calls[i].ends => calls[i].name \in temp
  /\ \A n \in temp : \E i \in DOMAIN calls : calls[i].ends /\ calls[i].name = n
  /\ \A i, j \in DOMAIN calls :
       calls[i].ends /\ calls[j].ends /\ calls[i].name = calls[j].name => i = j
InFront(calls, visited) ==
  \A j \in DOMAIN calls : calls[j].ends =>
    \A d \in DependsOn(calls[j].name) :
      d \in visited \/ \E i \in DOMAIN calls : i < j /\ calls[i].name = d
ToVisit(calls, visited) ==
  \A r \in Registered : r \in visited \/ \E i \in DOMAIN calls : calls[i].name = r
MadeFor(calls) ==
  /\ \A i, j \in DOMAIN calls :
       i < j /\ calls[j].ends => calls[i].name \in AllDependencies(calls[j].name)
  /\ \A i \in DOMAIN calls :
       calls[i].name \in Registered \/ \E j \in DOMAIN calls : i < j /\ calls[j].ends

CallsInv(calls, temp, visited) ==
  /\ calls \in Seq(CallSet)
  /\ temp \subseteq Registered /\ visited \subseteq Registered /\ temp \cap visited = {}
  /\ UnderWay(calls, temp)
  /\ InFront(calls, visited)
  /\ ToVisit(calls, visited)
  /\ MadeFor(calls)

\* A call that has ended, or that finds its feature visited.
LEMMA CallDone ==
  ASSUME DefinitionsInv, NEW calls, NEW temp, NEW visited, CallsInv(calls, temp, visited),
         calls # <<>>, NEW n, n = calls[1].name, n \in Registered,
         calls[1].ends \/ n \in visited
  PROVE  CallsInv(Tail(calls), temp \ {n}, visited \cup {n})
  <1> DEFINE rest == Tail(calls)
             m == Len(calls)
  <1>1. /\ m \in Nat \ {0} /\ DOMAIN calls = 1 .. m
        /\ \A i \in 1 .. m : calls[i] \in CallSet
    BY DEF CallsInv
  <1>2. /\ rest \in Seq(CallSet) /\ DOMAIN rest = 1 .. m - 1
        /\ \A i \in 1 .. m - 1 : rest[i] = calls[i + 1]
    BY HeadTailProperties DEF CallsInv
  <1> HIDE DEF rest, m
  <1>3. \A i \in 1 .. m - 1 : i + 1 \in 1 .. m
    BY <1>1
  <1>4. \A i \in 1 .. m : i = 1 \/ (i - 1 \in 1 .. m - 1 /\ (i - 1) + 1 = i)
    BY <1>1
  <1>5. \A i \in 1 .. m : i = 1 \/ rest[i - 1] = calls[i]
    BY <1>2, <1>4
  <1>6. ASSUME NEW i \in 1 .. m - 1, rest[i].ends PROVE rest[i].name \in temp \ {n}
    <2>1. calls[i + 1].ends /\ calls[i + 1].name \in temp /\ rest[i].name = calls[i + 1].name
      BY <1>1, <1>2, <1>3, <1>6 DEF CallsInv, UnderWay
    <2>2. CASE calls[1].ends
      <3>1. i + 1 # 1 /\ 1 \in 1 .. m
        BY <1>1
      <3>2. calls[i + 1].name # calls[1].name
        BY <1>1, <1>3, <2>1, <2>2, <3>1 DEF CallsInv, UnderWay
      <3> QED BY <2>1, <3>2
    <2>3. CASE n \in visited
      BY <2>1, <2>3 DEF CallsInv
    <2> QED BY <2>2, <2>3
  <1>7. ASSUME NEW a \in temp \ {n}
        PROVE  \E i \in 1 .. m - 1 : rest[i].ends /\ rest[i].name = a
    <2>1. PICK i \in 1 .. m : calls[i].ends /\ calls[i].name = a
      BY <1>1 DEF CallsInv, UnderWay
    <2>2. i # 1
      <3>1. n \in visited \/ calls[1].ends
        OBVIOUS
      <3> QED BY <2>1
    <2> QED BY <1>4, <1>5, <2>1, <2>2
  <1>8. ASSUME NEW i \in 1 .. m - 1, NEW j \in 1 .. m - 1, rest[i].ends, rest[j].ends,
               rest[i].name = rest[j].name
        PROVE  i = j
    <2>1. /\ i + 1 \in 1 .. m /\ j + 1 \in 1 .. m
          /\ calls[i + 1].ends /\ calls[j + 1].ends /\ calls[i + 1].name = calls[j + 1].name
      BY <1>2, <1>3, <1>8
    <2>2. i + 1 = j + 1
      BY <1>1, <2>1 DEF CallsInv, UnderWay
    <2> QED BY <2>2
  <1>9. ASSUME NEW j \in 1 .. m - 1, rest[j].ends, NEW d \in DependsOn(rest[j].name)
        PROVE  d \in visited \cup {n} \/ \E i \in 1 .. m - 1 : i < j /\ rest[i].name = d
    <2>1. d \in visited \/ \E i \in 1 .. m : i < j + 1 /\ calls[i].name = d
      BY <1>1, <1>2, <1>3, <1>9 DEF CallsInv, InFront
    <2>2. ASSUME NEW i \in 1 .. m, i < j + 1, calls[i].name = d, i # 1
          PROVE  i - 1 \in 1 .. m - 1 /\ i - 1 < j /\ rest[i - 1].name = d
      BY <1>4, <1>5, <2>2
    <2> QED BY <2>1, <2>2
  <1>10. ASSUME NEW r \in Registered
         PROVE  r \in visited \cup {n} \/ \E i \in 1 .. m - 1 : rest[i].name = r
    <2>1. r \in visited \/ \E i \in 1 .. m : calls[i].name = r
      BY <1>1 DEF CallsInv, ToVisit
    <2> QED BY <1>4, <1>5, <2>1
  <1>11. ASSUME NEW i \in 1 .. m - 1, NEW j \in 1 .. m - 1, i < j, rest[j].ends
         PROVE  rest[i].name \in AllDependencies(rest[j].name)
    <2>1. i + 1 < j + 1
      BY <1>11
    <2> QED BY <1>1, <1>2, <1>3, <1>11, <2>1 DEF CallsInv, MadeFor
  <1>12. ASSUME NEW i \in 1 .. m - 1
         PROVE  rest[i].name \in Registered \/ \E j \in 1 .. m - 1 : i < j /\ rest[j].ends
    <2>1. rest[i].name \in Registered \/ \E j \in 1 .. m : i + 1 < j /\ calls[j].ends
      <3>1. /\ i + 1 \in 1 .. m /\ rest[i] = calls[i + 1]
            /\ calls[i + 1].name \in Registered \/ \E j \in 1 .. m : i + 1 < j /\ calls[j].ends
        BY <1>1, <1>2, <1>3 DEF CallsInv, MadeFor
      <3> QED BY <3>1
    <2>2. ASSUME NEW j \in 1 .. m, i + 1 < j, calls[j].ends
          PROVE  j - 1 \in 1 .. m - 1 /\ i < j - 1 /\ rest[j - 1].ends
      BY <1>4, <1>5, <2>2
    <2> QED BY <2>1, <2>2
  <1>13. /\ temp \ {n} \subseteq Registered /\ visited \cup {n} \subseteq Registered
         /\ (temp \ {n}) \cap (visited \cup {n}) = {}
    BY DEF CallsInv
  <1>14. UnderWay(rest, temp \ {n})
    BY <1>2, <1>6, <1>7, <1>8 DEF UnderWay
  <1>15. InFront(rest, visited \cup {n})
    BY <1>2, <1>9 DEF InFront
  <1>16. ToVisit(rest, visited \cup {n}) /\ MadeFor(rest)
    BY <1>2, <1>10, <1>11, <1>12 DEF ToVisit, MadeFor
  <1>17. CallsInv(rest, temp \ {n}, visited \cup {n})
    BY <1>2, <1>13, <1>14, <1>15, <1>16 DEF CallsInv
  <1> QED BY <1>17 DEF rest

\* A feature visited for the first time: its dependencies, then its end.
LEMMA CallMade ==
  ASSUME DefinitionsInv, NEW calls, NEW temp, NEW visited, CallsInv(calls, temp, visited),
         calls # <<>>, NEW n, n = calls[1].name, n \in Registered,
         ~calls[1].ends, n \notin temp, n \notin visited
  PROVE  /\ CallsInv(CallsOf(GetDependencies(n)) \o <<End(n)>> \o Tail(calls),
                     temp \cup {n}, visited)
         /\ Len(CallsOf(GetDependencies(n)) \o <<End(n)>> \o Tail(calls))
              = Len(calls) + Len(GetDependencies(n))
  <1> DEFINE rest == Tail(calls)
             m == Len(calls)
             needs == GetDependencies(n)
             k == Len(needs)
             new == CallsOf(needs) \o <<End(n)>> \o rest
  <1>1. /\ m \in Nat \ {0} /\ DOMAIN calls = 1 .. m
        /\ \A i \in 1 .. m : calls[i] \in CallSet
    BY DEF CallsInv
  <1>2. /\ rest \in Seq(CallSet) /\ Len(rest) = m - 1
        /\ \A i \in 1 .. m - 1 : rest[i] = calls[i + 1]
    BY HeadTailProperties DEF CallsInv
  <1>3. /\ needs \in Seq(FeatureNames) /\ k \in Nat
        /\ DependsOn(n) = {needs[i] : i \in 1 .. k}
    BY DependenciesKnown
  <1>4. /\ CallsOf(needs) \in Seq(CallSet) /\ Len(CallsOf(needs)) = k
        /\ \A i \in 1 .. k : CallsOf(needs)[i] = [name |-> needs[i], ends |-> FALSE]
    <2>1. DOMAIN needs = 1 .. k /\ \A i \in 1 .. k : needs[i] \in FeatureNames
      BY <1>3
    <2> HIDE DEF needs, k
    <2>2. CallsOf(needs) = [i \in 1 .. k |-> [name |-> needs[i], ends |-> FALSE]]
      BY <2>1 DEF CallsOf, Call
    <2>3. \A i \in 1 .. k : [name |-> needs[i], ends |-> FALSE] \in CallSet
      BY <2>1 DEF CallSet
    <2>4. CallsOf(needs) \in [1 .. k -> CallSet] /\ k \in Nat
      BY <1>3, <2>2, <2>3
    <2>5. CallsOf(needs) \in Seq(CallSet) /\ Len(CallsOf(needs)) = k
      BY <2>4
    <2> QED BY <2>2, <2>5
  <1>5. n \in FeatureNames /\ End(n) = [name |-> n, ends |-> TRUE] /\ End(n) \in CallSet
    BY RegisteredNames DEF FeatureNames, End, CallSet
  <1> HIDE DEF rest, needs, k, m
  <1>6. /\ CallsOf(needs) \o <<End(n)>> \in Seq(CallSet)
        /\ Len(CallsOf(needs) \o <<End(n)>>) = k + 1
        /\ \A i \in 1 .. k : (CallsOf(needs) \o <<End(n)>>)[i] = CallsOf(needs)[i]
        /\ (CallsOf(needs) \o <<End(n)>>)[k + 1] = End(n)
    <2> DEFINE made == CallsOf(needs)
               end == <<End(n)>>
    <2>1. end \in Seq(CallSet) /\ Len(end) = 1 /\ end[1] = End(n)
      BY <1>5
    <2>2. made \in Seq(CallSet) /\ Len(made) = k
      BY <1>4
    <2> HIDE DEF made, end
    <2>3. /\ made \o end \in Seq(CallSet)
          /\ Len(made \o end) = Len(made) + Len(end)
          /\ \A i \in 1 .. Len(made) + Len(end) :
               (made \o end)[i] = IF i <= Len(made) THEN made[i] ELSE end[i - Len(made)]
      BY <2>1, <2>2, ConcatProperties, Zenon
    <2>4. (made \o end)[k + 1] = end[1]
      <3>1. k + 1 \in 1 .. k + 1 /\ ~(k + 1 <= k) /\ (k + 1) - k = 1
        BY <1>3
      <3> QED BY <2>1, <2>2, <2>3, <3>1
    <2>5. \A i \in 1 .. k : (made \o end)[i] = made[i]
      BY <1>3, <2>1, <2>2, <2>3
    <2> QED BY <2>1, <2>2, <2>3, <2>4, <2>5 DEF made, end
  <1> DEFINE first == CallsOf(needs) \o <<End(n)>>
  <1> HIDE DEF first
  <1>7. /\ first \in Seq(CallSet) /\ Len(first) = k + 1
        /\ \A i \in 1 .. k : first[i] = [name |-> needs[i], ends |-> FALSE]
        /\ first[k + 1] = [name |-> n, ends |-> TRUE]
    BY <1>4, <1>5, <1>6 DEF first
  <1>8. new = first \o rest
    BY DEF first
  <1>9. /\ new \in Seq(CallSet) /\ Len(new) = m + k
        /\ \A i \in 1 .. m + k : new[i] = IF i <= k + 1 THEN first[i] ELSE rest[i - (k + 1)]
    <2> HIDE DEF new
    <2>1. /\ first \o rest \in Seq(CallSet)
          /\ Len(first \o rest) = Len(first) + Len(rest)
          /\ \A i \in 1 .. Len(first) + Len(rest) :
               (first \o rest)[i] = IF i <= Len(first) THEN first[i] ELSE rest[i - Len(first)]
      BY <1>2, <1>7, ConcatProperties, Zenon
    <2>2. Len(first) + Len(rest) = m + k
      BY <1>1, <1>2, <1>3, <1>7
    <2> QED BY <1>7, <1>8, <2>1, <2>2
  <1> HIDE DEF new
  <1>10. /\ DOMAIN new = 1 .. m + k /\ 1 .. k + 1 \subseteq 1 .. m + k
         /\ \A i \in 1 .. k : new[i].name = needs[i] /\ ~new[i].ends
         /\ new[k + 1].name = n /\ new[k + 1].ends
    <2>1. DOMAIN new = 1 .. m + k /\ 1 .. k + 1 \subseteq 1 .. m + k
      BY <1>1, <1>3, <1>9
    <2>2. ASSUME NEW i \in 1 .. k + 1 PROVE new[i] = first[i]
      <3>1. i \in 1 .. m + k /\ i <= k + 1
        BY <1>3, <2>1
      <3> QED BY <1>9, <3>1
    <2>3. k + 1 \in 1 .. k + 1 /\ 1 .. k \subseteq 1 .. k + 1
      BY <1>3
    <2>4. \A i \in 1 .. k : new[i] = [name |-> needs[i], ends |-> FALSE]
      BY <1>7, <2>2, <2>3
    <2>5. new[k + 1] = [name |-> n, ends |-> TRUE]
      BY <1>7, <2>2, <2>3
    <2>6. new[k + 1].name = n /\ new[k + 1].ends
      BY <2>5
    <2>7. ASSUME NEW i \in 1 .. k PROVE new[i].name = needs[i] /\ ~new[i].ends
      <3>1. new[i] = [name |-> needs[i], ends |-> FALSE]
        BY <2>4
      <3> QED BY <3>1
    <2> QED BY <2>1, <2>6, <2>7
  <1>11. \A i \in 2 .. m : i + k \in 1 .. m + k /\ new[i + k] = calls[i]
    <2> SUFFICES ASSUME NEW i \in 2 .. m PROVE i + k \in 1 .. m + k /\ new[i + k] = calls[i]
      OBVIOUS
    <2>1. /\ i + k \in 1 .. m + k /\ ~(i + k <= k + 1) /\ (i + k) - (k + 1) = i - 1
          /\ i - 1 \in 1 .. m - 1 /\ (i - 1) + 1 = i
      BY <1>1, <1>3
    <2> QED BY <1>2, <1>9, <2>1
  <1>12. \A i \in 1 .. m + k : i \in 1 .. k \/ i = k + 1 \/ (i - k \in 2 .. m /\ (i - k) + k = i)
    BY <1>1, <1>3
  <1>13. \A i \in 1 .. m + k : i \in 1 .. k \/ i = k + 1 \/ new[i] = calls[i - k]
    BY <1>11, <1>12
  <1>14. \A i \in 1 .. m : (i = 1 => new[k + 1].name = calls[i].name)
                           /\ (i # 1 => i + k \in 1 .. m + k /\ new[i + k] = calls[i])
    BY <1>1, <1>10, <1>11
  <1>15. temp \cup {n} \subseteq Registered /\ visited \subseteq Registered
         /\ (temp \cup {n}) \cap visited = {}
    BY DEF CallsInv
  <1>16. UnderWay(new, temp \cup {n})
    <2>1. ASSUME NEW i \in 1 .. m + k, new[i].ends
          PROVE  /\ i = k + 1 \/ (i - k \in 2 .. m /\ new[i] = calls[i - k])
                 /\ i # k + 1 => new[i].name \in temp
      <3>1. i = k + 1 \/ (i - k \in 2 .. m /\ new[i] = calls[i - k])
        BY <1>10, <1>12, <1>13, <2>1
      <3>2. 2 .. m \subseteq 1 .. m
        BY <1>1
      <3>3. i # k + 1 => calls[i - k].name \in temp
        BY <1>1, <2>1, <3>1, <3>2 DEF CallsInv, UnderWay
      <3> QED BY <3>1, <3>3
    <2>2. ASSUME NEW i \in 1 .. m + k, new[i].ends PROVE new[i].name \in temp \cup {n}
      BY <1>10, <2>1, <2>2
    <2>3. ASSUME NEW a \in temp \cup {n}
          PROVE  \E i \in 1 .. m + k : new[i].ends /\ new[i].name = a
      <3>1. CASE a = n
        BY <1>1, <1>3, <1>10, <3>1
      <3>2. CASE a # n
        <4>1. PICK i \in 1 .. m : calls[i].ends /\ calls[i].name = a
          BY <1>1, <3>2 DEF CallsInv, UnderWay
        <4>2. i # 1
          BY <4>1
        <4> QED BY <1>14, <4>1, <4>2
      <3> QED BY <3>1, <3>2
    <2>4. ASSUME NEW i \in 1 .. m + k, NEW j \in 1 .. m + k, new[i].ends, new[j].ends,
                 new[i].name = new[j].name
          PROVE  i = j
      <3>1. CASE i = k + 1 \/ j = k + 1
        BY <1>10, <2>1, <2>4, <3>1
      <3>2. CASE i # k + 1 /\ j # k + 1
        <4>1. /\ i - k \in 1 .. m /\ j - k \in 1 .. m
              /\ new[i] = calls[i - k] /\ new[j] = calls[j - k]
          BY <1>1, <2>1, <2>4, <3>2
        <4>2. i - k = j - k
          BY <1>1, <2>4, <4>1 DEF CallsInv, UnderWay
        <4> QED BY <1>3, <4>2
      <3> QED BY <3>1, <3>2
    <2> QED BY <1>10, <2>2, <2>3, <2>4 DEF UnderWay
  <1>17. InFront(new, visited)
    <2> SUFFICES ASSUME NEW j \in 1 .. m + k, new[j].ends, NEW d \in DependsOn(new[j].name),
                        d \notin visited
                 PROVE  \E i \in 1 .. m + k : i < j /\ new[i].name = d
      BY <1>10 DEF InFront
    <2>1. CASE j = k + 1
      <3>1. PICK i \in 1 .. k : needs[i] = d
        BY <1>3, <1>10, <2>1
      <3>2. i \in 1 .. m + k /\ i < k + 1
        BY <1>1, <1>3
      <3> QED BY <1>10, <2>1, <3>1, <3>2
    <2>2. CASE j # k + 1
      <3>1. j - k \in 2 .. m /\ new[j] = calls[j - k] /\ j - k \in 1 .. m
        BY <1>1, <1>10, <1>12, <1>13, <2>2
      <3>2. PICK i \in 1 .. m : i < j - k /\ calls[i].name = d
        BY <1>1, <3>1 DEF CallsInv, InFront
      <3>3. CASE i = 1
        <4>1. k + 1 \in 1 .. m + k /\ k + 1 < j
          BY <1>1, <1>3, <3>1
        <4> QED BY <1>10, <3>2, <3>3, <4>1
      <3>4. CASE i # 1
        <4>1. i + k \in 1 .. m + k /\ new[i + k].name = d
          BY <1>14, <3>2, <3>4
        <4>2. i + k < j
          BY <1>3, <3>1, <3>2
        <4> QED BY <4>1, <4>2
      <3> QED BY <3>3, <3>4
    <2> QED BY <2>1, <2>2
  <1>18. ToVisit(new, visited)
    <2> SUFFICES ASSUME NEW r \in Registered, r \notin visited
                 PROVE  \E i \in 1 .. m + k : new[i].name = r
      BY <1>10 DEF ToVisit
    <2>1. PICK i \in 1 .. m : calls[i].name = r
      BY <1>1 DEF CallsInv, ToVisit
    <2>2. k + 1 \in 1 .. m + k
      BY <1>1, <1>3
    <2> QED BY <1>10, <1>14, <2>1, <2>2
  <1>19. MadeFor(new)
    <2>1. ASSUME NEW j \in 2 .. m, calls[j].ends
          PROVE  /\ n \in AllDependencies(calls[j].name)
                 /\ DependsOn(n) \subseteq AllDependencies(calls[j].name)
      <3>1. 1 \in 1 .. m /\ j \in 1 .. m /\ 1 < j
        BY <1>1
      <3>2. n \in AllDependencies(calls[j].name)
        BY <1>1, <2>1, <3>1 DEF CallsInv, MadeFor
      <3> QED BY <3>2, DependenciesClosed
    <2>2. ASSUME NEW i \in 1 .. m + k, NEW j \in 1 .. m + k, i < j, new[j].ends
          PROVE  new[i].name \in AllDependencies(new[j].name)
      <3>1. CASE j = k + 1
        <4>1. i \in 1 .. k
          BY <1>3, <2>2, <3>1
        <4>2. new[i].name \in DependsOn(n)
          BY <1>3, <1>10, <4>1
        <4> QED BY <1>10, <3>1, <4>2, DependenciesClosed
      <3>2. CASE j # k + 1
        <4>1. j - k \in 2 .. m /\ new[j] = calls[j - k] /\ j - k \in 1 .. m
          BY <1>1, <1>10, <1>12, <1>13, <2>2, <3>2
        <4>2. CASE i \in 1 .. k
          <5>1. new[i].name \in DependsOn(n)
            BY <1>3, <1>10, <4>2
          <5> QED BY <2>1, <2>2, <4>1, <5>1
        <4>3. CASE i = k + 1
          BY <1>10, <2>1, <2>2, <4>1, <4>3
        <4>4. CASE i - k \in 2 .. m /\ new[i] = calls[i - k]
          <5>1. i - k \in 1 .. m /\ i - k < j - k
            BY <1>1, <1>3, <2>2, <4>4
          <5> QED BY <1>1, <2>2, <4>1, <4>4, <5>1 DEF CallsInv, MadeFor
        <4> QED BY <1>12, <1>13, <4>2, <4>3, <4>4
      <3> QED BY <3>1, <3>2
    <2>3. ASSUME NEW i \in 1 .. m + k
          PROVE  new[i].name \in Registered \/ \E j \in 1 .. m + k : i < j /\ new[j].ends
      <3>1. CASE i \in 1 .. k
        <4>1. k + 1 \in 1 .. m + k /\ i < k + 1
          BY <1>1, <1>3, <3>1
        <4> QED BY <1>10, <4>1
      <3>2. CASE i = k + 1
        BY <1>10, <3>2
      <3>3. CASE i - k \in 2 .. m /\ new[i] = calls[i - k]
        <4>1. i - k \in 1 .. m
          BY <1>1, <3>3
        <4>2. calls[i - k].name \in Registered \/ \E j \in 1 .. m : i - k < j /\ calls[j].ends
          BY <1>1, <4>1 DEF CallsInv, MadeFor
        <4>3. ASSUME NEW j \in 1 .. m, i - k < j, calls[j].ends
              PROVE  j + k \in 1 .. m + k /\ i < j + k /\ new[j + k].ends
          <5>1. j # 1 /\ i < j + k
            BY <1>1, <1>3, <3>3, <4>3
          <5> QED BY <1>14, <4>3, <5>1
        <4> QED BY <3>3, <4>2, <4>3
      <3> QED BY <1>12, <1>13, <3>1, <3>2, <3>3
    <2> QED BY <1>10, <2>2, <2>3 DEF MadeFor
  <1>20. CallsInv(new, temp \cup {n}, visited)
    BY <1>9, <1>15, <1>16, <1>17, <1>18, <1>19 DEF CallsInv
  <1> QED BY <1>9, <1>20 DEF new, needs, rest, k, m

\* A call for a feature under way, or for one without a definition.
LEMMA CallRaises ==
  ASSUME DefinitionsInv, NEW calls, NEW temp, NEW visited, CallsInv(calls, temp, visited),
         calls # <<>>, NEW n, n = calls[1].name, ~calls[1].ends,
         n \in temp \/ n \notin Registered
  PROVE  Unsortable
  <1> DEFINE m == Len(calls)
  <1>1. m \in Nat \ {0} /\ DOMAIN calls = 1 .. m /\ 1 \in 1 .. m
    BY DEF CallsInv
  <1> HIDE DEF m
  <1>2. ASSUME NEW j \in 1 .. m, calls[j].ends
        PROVE  /\ calls[j].name \in Registered
               /\ n \in AllDependencies(calls[j].name)
    <2>1. 1 < j
      BY <1>1, <1>2
    <2>2. n \in AllDependencies(calls[j].name)
      BY <1>1, <1>2, <2>1 DEF CallsInv, MadeFor
    <2>3. calls[j].name \in Registered
      BY <1>1, <1>2 DEF CallsInv, UnderWay
    <2> QED BY <2>2, <2>3
  <1>3. CASE n \in temp
    <2>1. PICK j \in 1 .. m : calls[j].ends /\ calls[j].name = n
      BY <1>1, <1>3 DEF CallsInv, UnderWay
    <2> QED BY <1>2, <2>1 DEF Unsortable
  <1>4. CASE n \notin Registered
    <2>1. PICK j \in 1 .. m : calls[j].ends
      BY <1>1, <1>4 DEF CallsInv, MadeFor
    <2> QED BY <1>2, <1>4, <2>1 DEF Unsortable
  <1> QED BY <1>3, <1>4
-----------------------------------------------------------------------------
\* An order of the features visited, each after its dependencies.
OrderInv(order, visited) ==
  /\ order \in Seq(Names)
  /\ ToSet(order) = visited
  /\ IsInjective(order)
  /\ \A i \in DOMAIN order : \A d \in DependsOn(order[i]) :
       \E j \in DOMAIN order : j < i /\ order[j] = d

LEMMA OrderGrows ==
  ASSUME NEW order, NEW visited, OrderInv(order, visited),
         NEW n \in Names, n \notin visited, DependsOn(n) \subseteq visited
  PROVE  OrderInv(Append(order, n), visited \cup {n})
  <1> DEFINE new == Append(order, n)
             k == Len(order)
  <1>1. /\ k \in Nat /\ DOMAIN order = 1 .. k /\ order \in Seq(Names)
        /\ visited = {order[i] : i \in 1 .. k}
    BY DEF OrderInv, ToSet
  <1>2. /\ new \in Seq(Names) /\ DOMAIN new = 1 .. k + 1 /\ new[k + 1] = n
        /\ \A i \in 1 .. k : new[i] = order[i]
    BY <1>1
  <1> HIDE DEF new, k
  <1>3. \A i \in 1 .. k + 1 : i \in 1 .. k \/ i = k + 1
    BY <1>1
  <1>4. 1 .. k \subseteq 1 .. k + 1 /\ k + 1 \in 1 .. k + 1 /\ \A i \in 1 .. k : i < k + 1
    BY <1>1
  <1>5. ToSet(new) = visited \cup {n}
    <2>1. ToSet(new) = {new[i] : i \in 1 .. k + 1}
      BY <1>2 DEF ToSet
    <2> QED BY <1>1, <1>2, <1>3, <1>4, <2>1
  <1>6. ASSUME NEW i \in 1 .. k + 1, NEW j \in 1 .. k + 1, new[i] = new[j] PROVE i = j
    <2>1. \A l \in 1 .. k : new[l] # n
      BY <1>1, <1>2
    <2>2. \A l, m \in 1 .. k : new[l] = new[m] => l = m
      BY <1>1, <1>2 DEF OrderInv, IsInjective
    <2> QED BY <1>2, <1>3, <1>6, <2>1, <2>2
  <1>7. ASSUME NEW i \in 1 .. k + 1, NEW d \in DependsOn(new[i])
        PROVE  \E j \in 1 .. k + 1 : j < i /\ new[j] = d
    <2>1. CASE i = k + 1
      <3>1. PICK j \in 1 .. k : order[j] = d
        BY <1>1, <1>2, <1>7, <2>1
      <3> QED BY <1>2, <1>4, <2>1, <3>1
    <2>2. CASE i \in 1 .. k
      <3>1. PICK j \in 1 .. k : j < i /\ order[j] = d
        BY <1>1, <1>2, <1>7, <2>2 DEF OrderInv
      <3> QED BY <1>2, <1>4, <3>1
    <2> QED BY <1>3, <2>1, <2>2
  <1>8. IsInjective(new)
    BY <1>2, <1>6 DEF IsInjective
  <1>9. OrderInv(new, visited \cup {n})
    BY <1>2, <1>5, <1>7, <1>8 DEF OrderInv
  <1> QED BY <1>9 DEF new

\* The steps a search has left: one for each call to make, and one for each call and the
\* end that visiting the others will add.
Weights == [n \in Registered |-> Len(definitions.depends[n]) + 1]
Unvisited(temp, visited) == Registered \ (temp \cup visited)
Left(calls, temp, visited) == Len(calls) + SumFunctionOnSet(Weights, Unvisited(temp, visited))

LEMMA WeightsAdd ==
  ASSUME DefinitionsInv
  PROVE  /\ IsFiniteSet(Registered)
         /\ \A n \in Registered : /\ Weights[n] = Len(GetDependencies(n)) + 1
                                  /\ Weights[n] \in Nat
         /\ \A S \in SUBSET Registered : /\ IsFiniteSet(S)
                                         /\ SumFunctionOnSet(Weights, S) \in Int
                                         /\ 0 <= SumFunctionOnSet(Weights, S)
  <1>1. IsFiniteSet(Registered)
    <2> DEFINE k == Len(definitions.order)
               order == definitions.order
    <2>1. Registered = {order[i] : i \in 1 .. k} /\ k \in Nat /\ DOMAIN order = 1 .. k
      BY RegisteredNames
    <2>2. IsFiniteSet(1 .. k)
      BY <2>1, FS_Interval
    <2> DEFINE g == [i \in 1 .. k |-> order[i]]
    <2>3. g \in Surjection(1 .. k, Registered)
      BY <2>1 DEF Surjection
    <2> QED BY <2>2, <2>3, FS_Surjection
  <1>2. ASSUME NEW n \in Registered
        PROVE  Weights[n] = Len(GetDependencies(n)) + 1 /\ Weights[n] \in Nat
    <2>1. definitions.depends[n] \in Seq(FeatureNames) /\ GetDependencies(n) = definitions.depends[n]
      BY RegisteredNames DEF GetDependencies
    <2> QED BY <2>1 DEF Weights
  <1>3. ASSUME NEW S \in SUBSET Registered
        PROVE  /\ IsFiniteSet(S) /\ SumFunctionOnSet(Weights, S) \in Int
               /\ 0 <= SumFunctionOnSet(Weights, S)
    <2>1. IsFiniteSet(S)
      BY <1>1, FS_Subset
    <2>2. \A n \in Registered : Weights[n] \in Int
      BY <1>2
    <2>3. SumFunctionOnSet(Weights, S) \in Int
      BY <1>1, <2>2, SumInt
    <2> DEFINE none == [n \in S |-> 0]
    <2>4. \A n \in S : none[n] \in Int /\ Weights[n] \in Int /\ none[n] <= Weights[n] /\ none[n] = 0
      BY <1>2
    <2> HIDE DEF none
    <2>5. SumFunctionOnSet(none, S) <= SumFunctionOnSet(Weights, S)
      BY <2>1, <2>4, SumLeq
    <2>6. SumFunctionOnSet(none, S) = 0
      BY <2>1, <2>4, SumZero
    <2> QED BY <2>1, <2>3, <2>5, <2>6
  <1> QED BY <1>1, <1>2, <1>3

LEMMA LeftSmaller ==
  ASSUME DefinitionsInv, NEW temp, NEW visited, NEW n \in Registered, n \notin temp, n \notin visited
  PROVE  SumFunctionOnSet(Weights, Unvisited(temp, visited))
           = Weights[n] + SumFunctionOnSet(Weights, Unvisited(temp \cup {n}, visited))
  <1> DEFINE S == Unvisited(temp, visited)
  <1>1. /\ n \in S /\ S \in SUBSET Registered
        /\ Unvisited(temp \cup {n}, visited) = S \ {n}
    BY DEF Unvisited
  <1> HIDE DEF S
  <1>2. IsFiniteSet(S) /\ \A x \in S : Weights[x] \in Int
    BY <1>1, WeightsAdd
  <1>3. SumFunctionOnSet(Weights, S) = Weights[n] + SumFunctionOnSet(Weights, S \ {n})
    BY <1>1, <1>2, SumRemove
  <1> QED BY <1>1, <1>3 DEF S
-----------------------------------------------------------------------------
SearchSet == [calls : Seq(CallSet), temp : SUBSET Names, visited : SUBSET Names,
              order : Seq(Names), error : {"none", "circular", "unknown"}]

\* A search after k steps.
SearchInv(s, k) ==
  /\ s \in SearchSet
  /\ OrderInv(s.order, s.visited)
  /\ s.error # "none" => s.calls = <<>> /\ Unsortable
  /\ s.error = "none" => /\ CallsInv(s.calls, s.temp, s.visited)
                         /\ Left(s.calls, s.temp, s.visited) = SortSteps - k

LEMMA StepsNat == ASSUME DefinitionsInv PROVE SortSteps \in Nat
  <1> DEFINE a == Len(definitions.order)
             b == SumFunctionOnSet(Weights, Registered)
  <1>1. a \in Nat /\ b \in Int /\ 0 <= b
    BY RegisteredNames, WeightsAdd
  <1>2. SumFunction(Weights) = b
    <2>1. DOMAIN Weights = Registered
      BY DEF Weights
    <2> QED BY <2>1, Zenon DEF SumFunction
  <1>3. SortSteps = a + b
    BY <1>2, Zenon DEF SortSteps, Weights
  <1> HIDE DEF a, b
  <1> QED BY <1>1, <1>3

LEMMA SearchStarts == ASSUME DefinitionsInv PROVE SearchInv(NotSorted, 0)
  <1> DEFINE order == definitions.order
             m == Len(order)
             calls == CallsOf(order)
  <1>1. /\ order \in Seq(Names) /\ m \in Nat /\ DOMAIN order = 1 .. m
        /\ Registered \subseteq Names
        /\ Registered = {order[i] : i \in 1 .. m}
    BY RegisteredNames
  <1> HIDE DEF order, m
  <1>2. calls = [i \in 1 .. m |-> [name |-> order[i], ends |-> FALSE]]
    BY <1>1 DEF CallsOf, Call
  <1> HIDE DEF calls
  <1>3. /\ DOMAIN calls = 1 .. m
        /\ \A i \in 1 .. m : calls[i] \in CallSet /\ calls[i].name = order[i] /\ ~calls[i].ends
    <2> SUFFICES ASSUME NEW i \in 1 .. m
                 PROVE  calls[i] \in CallSet /\ calls[i].name = order[i] /\ ~calls[i].ends
      BY <1>2
    <2>1. calls[i] = [name |-> order[i], ends |-> FALSE] /\ order[i] \in FeatureNames
      BY <1>1, <1>2 DEF FeatureNames
    <2> QED BY <2>1 DEF CallSet
  <1>4. calls \in Seq(CallSet) /\ Len(calls) = m
    <2>1. calls \in [1 .. m -> CallSet]
      BY <1>2, <1>3
    <2> QED BY <1>1, <2>1
  <1>5. CallsInv(calls, {}, {})
    <2>1. UnderWay(calls, {}) /\ InFront(calls, {})
      BY <1>3 DEF UnderWay, InFront
    <2>2. ToVisit(calls, {})
      BY <1>1, <1>3 DEF ToVisit
    <2>3. MadeFor(calls)
      BY <1>1, <1>3 DEF MadeFor
    <2> QED BY <1>4, <2>1, <2>2, <2>3 DEF CallsInv
  <1>6. OrderInv(<<>>, {})
    BY DEF OrderInv, ToSet, IsInjective
  <1>7. NotSorted = [calls |-> calls, temp |-> {}, visited |-> {}, order |-> <<>>, error |-> "none"]
    BY DEF NotSorted, calls, order
  <1>8. NotSorted \in SearchSet
    BY <1>4, <1>7 DEF SearchSet
  <1>9. Left(calls, {}, {}) = SortSteps - 0
    <2> DEFINE b == SumFunctionOnSet(Weights, Registered)
    <2>1. SumFunction(Weights) = b
      <3>1. DOMAIN Weights = Registered
        BY DEF Weights
      <3> QED BY <3>1, Zenon DEF SumFunction
    <2>2. SortSteps = m + b
      BY <2>1, Zenon DEF SortSteps, Weights, m, order
    <2>3. Unvisited({}, {}) = Registered
      BY DEF Unvisited
    <2>4. Left(calls, {}, {}) = m + b
      BY <1>4, <2>3 DEF Left
    <2>5. m + b \in Int
      BY <2>2, StepsNat
    <2> HIDE DEF b
    <2> QED BY <2>2, <2>4, <2>5
  <1> QED BY <1>5, <1>6, <1>7, <1>8, <1>9 DEF SearchInv

LEMMA SearchStops ==
  ASSUME DefinitionsInv, NEW s, NEW k \in Nat, SearchInv(s, k), s.error = "none"
  PROVE  /\ s.calls = <<>> => k = SortSteps /\ s.visited = Registered
         /\ k = SortSteps => s.calls = <<>>
  <1> DEFINE m == Len(s.calls)
             b == SumFunctionOnSet(Weights, Unvisited(s.temp, s.visited))
  <1>1. /\ CallsInv(s.calls, s.temp, s.visited) /\ s.calls \in Seq(CallSet)
        /\ m + b = SortSteps - k /\ m \in Nat /\ SortSteps \in Nat
    BY StepsNat DEF SearchInv, CallsInv, Left
  <1>2. Unvisited(s.temp, s.visited) \in SUBSET Registered
    BY DEF Unvisited
  <1>3. b \in Int /\ 0 <= b
    BY <1>2, WeightsAdd
  <1>4. ASSUME s.calls = <<>> PROVE k = SortSteps /\ s.visited = Registered
    <2>1. DOMAIN s.calls = {} /\ m = 0
      BY <1>4
    <2>2. s.visited = Registered
      BY <1>1, <2>1 DEF CallsInv, ToVisit
    <2>3. Unvisited(s.temp, s.visited) = {}
      BY <2>2 DEF Unvisited
    <2>4. b = 0
      BY <2>3, SumEmpty
    <2> HIDE DEF m, b
    <2> QED BY <1>1, <2>1, <2>2, <2>4
  <1>5. ASSUME k = SortSteps PROVE s.calls = <<>>
    <2>1. m = 0
      <3> HIDE DEF m, b
      <3> QED BY <1>1, <1>3, <1>5
    <2> QED BY <1>1, <2>1
  <1> QED BY <1>4, <1>5

\* One step of a search.
LEMMA SearchSteps ==
  ASSUME DefinitionsInv, NEW s, NEW k \in Nat, k < SortSteps, SearchInv(s, k)
  PROVE  SearchInv(NextCall(s), k + 1)
  <1>1. s \in SearchSet /\ SortSteps \in Nat
    BY StepsNat DEF SearchInv
  <1>2. CASE s.error # "none"
    <2>1. s.calls = <<>> /\ NextCall(s) = s
      BY <1>2 DEF SearchInv, NextCall
    <2> QED BY <1>2, <2>1 DEF SearchInv
  <1>3. CASE s.error = "none"
    <2> DEFINE calls == s.calls
               temp == s.temp
               visited == s.visited
               order == s.order
               call == Head(calls)
               rest == Tail(calls)
               n == call.name
               t == [s EXCEPT !.calls = Tail(@)]
               left == SumFunctionOnSet(Weights, Unvisited(temp, visited))
    <2>1. /\ CallsInv(calls, temp, visited) /\ OrderInv(order, visited)
          /\ calls # <<>> /\ calls \in Seq(CallSet)
          /\ Len(calls) + left = SortSteps - k /\ Len(calls) \in Nat
      <3>1. calls # <<>>
        BY <1>1, <1>3, SearchStops
      <3> QED BY <1>3, <3>1 DEF SearchInv, CallsInv, Left
    <2>2. /\ call = calls[1] /\ call \in CallSet /\ n \in FeatureNames /\ call.ends \in BOOLEAN
          /\ rest \in Seq(CallSet) /\ Len(rest) = Len(calls) - 1
      <3>1. call = calls[1] /\ call \in CallSet
        BY <2>1
      <3>2. rest \in Seq(CallSet) /\ Len(rest) = Len(calls) - 1
        BY <2>1, HeadTailProperties
      <3> QED BY <3>1, <3>2 DEF CallSet
    <2>3. t = [calls |-> rest, temp |-> temp, visited |-> visited, order |-> order, error |-> "none"]
      <3>1. s = [calls |-> s.calls, temp |-> s.temp, visited |-> s.visited, order |-> s.order,
                 error |-> "none"]
        BY <1>1, <1>3 DEF SearchSet
      <3>2. \A c, x : s = [calls |-> c, temp |-> s.temp, visited |-> s.visited, order |-> s.order,
                           error |-> "none"]
              => [s EXCEPT !.calls = x] = [calls |-> x, temp |-> s.temp, visited |-> s.visited,
                                           order |-> s.order, error |-> "none"]
        <4> HIDE DEF calls, temp, visited, order, call, rest, n, t, left
        <4> QED OBVIOUS
      <3>3. [s EXCEPT !.calls = rest] = [calls |-> rest, temp |-> s.temp, visited |-> s.visited,
                                         order |-> s.order, error |-> "none"]
        <4> HIDE DEF calls, temp, visited, order, call, rest, n, t, left
        <4> QED BY <3>1, <3>2
      <3>4. t = [s EXCEPT !.calls = rest]
        BY Zenon
      <3> HIDE DEF t, rest
      <3> QED BY <3>3, <3>4
    <2>4. NextCall(s) = Visit(call, t)
      BY <2>1 DEF NextCall
    <2>5. Unvisited(temp, visited) \in SUBSET Registered /\ left \in Int
      <3>1. Unvisited(temp, visited) \in SUBSET Registered
        BY DEF Unvisited
      <3> QED BY <3>1, WeightsAdd
    <2>6. /\ temp \subseteq Registered /\ visited \subseteq Registered /\ Registered \subseteq Names
          /\ order \in Seq(Names)
      BY <2>1, RegisteredNames DEF CallsInv, OrderInv
    <2> HIDE DEF calls, temp, visited, order, call, rest, n, t, left
    <2>7. ASSUME NEW moved, NEW temp2, NEW visited2, NEW order2,
                 NextCall(s) = [calls |-> moved, temp |-> temp2, visited |-> visited2,
                                order |-> order2, error |-> "none"],
                 CallsInv(moved, temp2, visited2), OrderInv(order2, visited2),
                 Left(moved, temp2, visited2) = SortSteps - (k + 1)
          PROVE  SearchInv(NextCall(s), k + 1)
      <3>1. NextCall(s) \in SearchSet
        BY <2>6, <2>7 DEF SearchSet, CallsInv, OrderInv
      <3> QED BY <2>7, <3>1 DEF SearchInv
    <2>8. ASSUME NEW e \in {"circular", "unknown"},
                 NextCall(s) = [calls |-> <<>>, temp |-> temp, visited |-> visited,
                                order |-> order, error |-> e],
                 Unsortable
          PROVE  SearchInv(NextCall(s), k + 1)
      <3>1. NextCall(s) \in SearchSet
        BY <2>6, <2>8 DEF SearchSet
      <3> QED BY <2>1, <2>8, <3>1 DEF SearchInv
    <2>9. CASE call.ends
      <3>1. NextCall(s) = [calls |-> rest, temp |-> temp \ {n}, visited |-> visited \cup {n},
                           order |-> Append(order, n), error |-> "none"]
        <4>1. NextCall(s) = [t EXCEPT !.temp = @ \ {n}, !.visited = @ \cup {n}, !.order = Append(@, n)]
          BY <2>4, <2>9, Zenon DEF Visit, n
        <4> QED BY <2>3, <4>1
      <3>2. n \in temp /\ n \in Registered /\ n \notin visited /\ DependsOn(n) \subseteq visited
        <4>1. DOMAIN calls = 1 .. Len(calls) /\ 1 \in 1 .. Len(calls)
          BY <2>1
        <4>2. n \in temp
          BY <2>1, <2>2, <2>9, <4>1 DEF CallsInv, UnderWay, n
        <4>3. \A d \in DependsOn(n) : d \in visited
          BY <2>1, <2>2, <2>9, <4>1 DEF CallsInv, InFront, n
        <4> QED BY <2>1, <4>2, <4>3 DEF CallsInv
      <3>3. CallsInv(rest, temp \ {n}, visited \cup {n})
        BY <2>1, <2>2, <2>9, <3>2, CallDone DEF n, rest
      <3>4. OrderInv(Append(order, n), visited \cup {n})
        BY <2>1, <2>6, <3>2, OrderGrows
      <3>5. Unvisited(temp \ {n}, visited \cup {n}) = Unvisited(temp, visited)
        BY <3>2 DEF Unvisited
      <3>6. Left(rest, temp \ {n}, visited \cup {n}) = SortSteps - (k + 1)
        <4>1. Left(rest, temp \ {n}, visited \cup {n}) = Len(rest) + left
          BY <3>5 DEF Left, left
        <4> QED BY <1>1, <2>1, <2>2, <2>5, <4>1
      <3> QED BY <2>7, <3>1, <3>3, <3>4, <3>6
    <2>10. CASE ~call.ends /\ n \in temp
      <3>1. NextCall(s) = [calls |-> <<>>, temp |-> temp, visited |-> visited,
                           order |-> order, error |-> "circular"]
        <4>1. t.temp = temp
          BY <2>3
        <4>2. NextCall(s) = [t EXCEPT !.calls = <<>>, !.error = "circular"]
          BY <2>4, <2>10, <4>1, Zenon DEF Visit, n
        <4> QED BY <2>3, <4>2
      <3>2. Unsortable
        BY <2>1, <2>2, <2>10, CallRaises DEF n
      <3> QED BY <2>8, <3>1, <3>2
    <2>11. CASE ~call.ends /\ n \notin temp /\ n \in visited
      <3>1. NextCall(s) = t
        <4>1. t.temp = temp /\ t.visited = visited
          BY <2>3
        <4> QED BY <2>4, <2>11, <4>1, Zenon DEF Visit, n
      <3>2. temp \ {n} = temp /\ visited \cup {n} = visited /\ n \in Registered
        BY <2>6, <2>11
      <3>3. CallsInv(rest, temp \ {n}, visited \cup {n})
        BY <2>1, <2>2, <2>11, <3>2, CallDone DEF n, rest
      <3>4. Left(rest, temp, visited) = SortSteps - (k + 1)
        <4>1. Left(rest, temp, visited) = Len(rest) + left
          BY DEF Left, left
        <4> QED BY <1>1, <2>1, <2>2, <2>5, <4>1
      <3> QED BY <2>1, <2>3, <2>7, <3>1, <3>2, <3>3, <3>4
    <2>12. CASE ~call.ends /\ n \notin temp \cup visited /\ n \notin Registered
      <3>1. NextCall(s) = [calls |-> <<>>, temp |-> temp, visited |-> visited,
                           order |-> order, error |-> "unknown"]
        <4>1. t.temp = temp /\ t.visited = visited
          BY <2>3
        <4>2. NextCall(s) = [t EXCEPT !.calls = <<>>, !.error = "unknown"]
          BY <2>4, <2>12, <4>1, Zenon DEF Visit, n
        <4> QED BY <2>3, <4>2
      <3>2. Unsortable
        BY <2>1, <2>2, <2>12, CallRaises DEF n
      <3> QED BY <2>8, <3>1, <3>2
    <2>13. CASE ~call.ends /\ n \notin temp \cup visited /\ n \in Registered
      <3> DEFINE made == CallsOf(GetDependencies(n)) \o <<End(n)>> \o rest
      <3>1. NextCall(s) = [calls |-> made, temp |-> temp \cup {n}, visited |-> visited,
                           order |-> order, error |-> "none"]
        <4>1. t.temp = temp /\ t.visited = visited /\ t.calls = rest
          BY <2>3
        <4>2. NextCall(s) = [t EXCEPT !.calls = CallsOf(GetDependencies(n)) \o <<End(n)>> \o @,
                                      !.temp = @ \cup {n}]
          BY <2>4, <2>13, <4>1, Zenon DEF Visit, n
        <4> HIDE DEF made
        <4>3. NextCall(s) = [t EXCEPT !.calls = made, !.temp = @ \cup {n}]
          BY <4>1, <4>2 DEF made
        <4> QED BY <2>3, <4>3
      <3>2. /\ CallsInv(made, temp \cup {n}, visited)
            /\ Len(made) = Len(calls) + Len(GetDependencies(n))
        <4>1. n = calls[1].name /\ ~calls[1].ends /\ n \notin temp /\ n \notin visited
          BY <2>2, <2>13 DEF n
        <4> HIDE DEF made
        <4>2. made = CallsOf(GetDependencies(n)) \o <<End(n)>> \o Tail(calls)
          BY DEF made, rest
        <4> QED BY <2>1, <2>13, <4>1, <4>2, CallMade
      <3> HIDE DEF made
      <3> DEFINE w == Weights[n]
                 fewer == SumFunctionOnSet(Weights, Unvisited(temp \cup {n}, visited))
      <3>3. left = w + fewer
        BY <2>13, LeftSmaller DEF left
      <3>4. /\ w = Len(GetDependencies(n)) + 1 /\ w \in Nat
            /\ Len(GetDependencies(n)) \in Nat /\ fewer \in Int
        <4>1. Unvisited(temp \cup {n}, visited) \in SUBSET Registered
          BY DEF Unvisited
        <4>2. GetDependencies(n) \in Seq(FeatureNames)
          BY DependenciesKnown
        <4>3. Weights[n] = Len(GetDependencies(n)) + 1 /\ Weights[n] \in Nat
          BY <2>13, WeightsAdd
        <4>4. fewer \in Int
          BY <4>1, WeightsAdd
        <4> QED BY <4>2, <4>3, <4>4
      <3>5. Left(made, temp \cup {n}, visited) = Len(made) + fewer
        BY DEF Left
      <3> HIDE DEF w, fewer
      <3>6. Left(made, temp \cup {n}, visited) = SortSteps - (k + 1)
        BY <1>1, <2>1, <2>5, <3>2, <3>3, <3>4, <3>5
      <3> QED BY <2>1, <2>7, <3>1, <3>2, <3>6
    <2> QED BY <2>2, <2>9, <2>10, <2>11, <2>12, <2>13
  <1> QED BY <1>2, <1>3

\* The searches of topological_sort, one step after another.
Sorting(m, g) == g = [k \in 0 .. m |-> IF k = 0 THEN NotSorted ELSE NextCall(g[k - 1])]

LEMMA SortingExists == ASSUME NEW m \in Nat PROVE \E g : Sorting(m, g)
  <1> DEFINE N == {k \in Nat : \E g : Sorting(k, g)}
  <1>1. 0 \in N
    <2> DEFINE g == [k \in 0 .. 0 |-> NotSorted]
    <2>1. Sorting(0, g)
      BY DEF Sorting
    <2> QED BY <2>1
  <1>2. ASSUME NEW k \in Nat, k \in N PROVE k + 1 \in N
    <2>1. PICK g : Sorting(k, g)
      BY <1>2
    <2> DEFINE last == NextCall(g[k])
               h == [i \in 0 .. (k + 1) |-> IF i <= k THEN g[i] ELSE last]
    <2>2. /\ h[k + 1] = last
          /\ \A i \in 0 .. k : h[i] = g[i]
      OBVIOUS
    <2>3. \A i \in 0 .. k : g[i] = IF i = 0 THEN NotSorted ELSE NextCall(g[i - 1])
      BY <2>1 DEF Sorting
    <2>4. h = [i \in 0 .. (k + 1) |-> h[i]]
      OBVIOUS
    <2>5. ASSUME NEW i \in 0 .. (k + 1)
          PROVE  h[i] = IF i = 0 THEN NotSorted ELSE NextCall(h[i - 1])
      <3>1. CASE i = k + 1
        <4>1. i - 1 = k /\ k \in 0 .. k /\ i # 0
          BY <3>1
        <4> HIDE DEF h
        <4>2. h[i - 1] = g[k] /\ h[i] = last
          BY <2>2, <3>1, <4>1
        <4> QED BY <4>1, <4>2
      <3>2. CASE i # k + 1
        <4>1. i \in 0 .. k /\ (i # 0 => i - 1 \in 0 .. k)
          BY <3>2
        <4> HIDE DEF h
        <4>2. h[i] = g[i] /\ (i # 0 => h[i - 1] = g[i - 1])
          BY <2>2, <4>1
        <4> QED BY <2>3, <4>1, <4>2
      <3> QED BY <3>1, <3>2
    <2> HIDE DEF h
    <2>6. Sorting(k + 1, h)
      BY <2>4, <2>5 DEF Sorting
    <2> QED BY <2>6
  <1> HIDE DEF N
  <1>3. m \in N
    BY <1>1, <1>2, NatSetInduction
  <1> QED BY <1>3 DEF N

LEMMA SortSearches == ASSUME DefinitionsInv PROVE SearchInv(TopologicalSort, SortSteps)
  <1> DEFINE m == SortSteps
             p == CHOOSE g : Sorting(m, g)
  <1>1. m \in Nat
    BY StepsNat
  <1>2. TopologicalSort = p[m]
    BY Zenon DEF TopologicalSort, Sorting
  <1>3. Sorting(m, p)
    BY <1>1, SortingExists
  <1> HIDE DEF p, m
  <1>4. \A k \in 0 .. m : p[k] = IF k = 0 THEN NotSorted ELSE NextCall(p[k - 1])
    BY <1>3 DEF Sorting
  <1> DEFINE N == {k \in Nat : k <= m => SearchInv(p[k], k)}
  <1>5. 0 \in N
    <2>1. 0 \in 0 .. m
      BY <1>1
    <2>2. p[0] = NotSorted
      BY <1>4, <2>1
    <2> QED BY <2>2, SearchStarts
  <1>6. ASSUME NEW k \in Nat, k \in N PROVE k + 1 \in N
    <2> SUFFICES ASSUME k + 1 <= m PROVE SearchInv(p[k + 1], k + 1)
      OBVIOUS
    <2>1. k + 1 \in 0 .. m /\ k + 1 # 0 /\ (k + 1) - 1 = k /\ k <= m /\ k < m
      BY <1>1
    <2>2. p[k + 1] = NextCall(p[k])
      BY <1>4, <2>1
    <2>3. SearchInv(p[k], k)
      BY <1>6, <2>1
    <2>4. SearchInv(NextCall(p[k]), k + 1)
      BY <2>1, <2>3, SearchSteps DEF m
    <2> QED BY <2>2, <2>4
  <1>7. Nat \subseteq N
    <2> HIDE DEF N
    <2> QED BY <1>5, <1>6, NatSetInduction
  <1>8. SearchInv(p[m], m)
    BY <1>1, <1>7
  <1> QED BY <1>2, <1>8 DEF m
-----------------------------------------------------------------------------
\* The columns compute_features has after the first features of an order.
Computing(order, m, g) ==
  g = [k \in 0 .. m |->
         IF k = 0 THEN {}
         ELSE g[k - 1] \cup {n \in {order[k]} : ToSet(GetDependencies(n)) \subseteq g[k - 1]}]
FirstOf(order, k) == {order[i] : i \in 1 .. k}

LEMMA ColumnsComputed ==
  ASSUME NEW order, NEW visited, OrderInv(order, visited)
  PROVE  ComputeFeatures(order) = visited
  <1> DEFINE m == Len(order)
             g == [k \in 0 .. m |-> FirstOf(order, k)]
  <1>1. m \in Nat /\ DOMAIN order = 1 .. m /\ visited = FirstOf(order, m)
    BY DEF OrderInv, ToSet, FirstOf
  <1>2. ASSUME NEW k \in 1 .. m PROVE DependsOn(order[k]) \subseteq FirstOf(order, k - 1)
    <2> SUFFICES ASSUME NEW d \in DependsOn(order[k]) PROVE d \in FirstOf(order, k - 1)
      OBVIOUS
    <2>1. PICK j \in 1 .. m : j < k /\ order[j] = d
      BY <1>1, <1>2 DEF OrderInv
    <2>2. j \in 1 .. (k - 1)
      BY <1>1, <2>1
    <2> QED BY <2>1, <2>2 DEF FirstOf
  <1>3. FirstOf(order, 0) = {}
    BY DEF FirstOf
  <1>4. ASSUME NEW k \in 1 .. m PROVE FirstOf(order, k) = FirstOf(order, k - 1) \cup {order[k]}
    <2>1. /\ k \in 1 .. k /\ 1 .. k - 1 \subseteq 1 .. k
          /\ \A i \in 1 .. k : i = k \/ i \in 1 .. k - 1
      BY <1>1
    <2> QED BY <2>1 DEF FirstOf
  <1> HIDE DEF m
  \* Any function that computes the columns gives those.
  <1>5. ASSUME NEW h, Computing(order, m, h) PROVE h[m] = FirstOf(order, m)
    <2>1. \A k \in 0 .. m :
            h[k] = IF k = 0 THEN {}
                   ELSE h[k - 1] \cup {n \in {order[k]} : ToSet(GetDependencies(n)) \subseteq h[k - 1]}
      BY <1>5 DEF Computing
    <2> DEFINE N == {k \in Nat : k <= m => h[k] = FirstOf(order, k)}
    <2>2. 0 \in N
      <3>1. 0 \in 0 .. m
        BY <1>1
      <3>2. h[0] = {}
        BY <2>1, <3>1
      <3> QED BY <1>3, <3>2
    <2>3. ASSUME NEW k \in Nat, k \in N PROVE k + 1 \in N
      <3> SUFFICES ASSUME k + 1 <= m PROVE h[k + 1] = FirstOf(order, k + 1)
        OBVIOUS
      <3>1. k + 1 \in 0 .. m /\ k + 1 \in 1 .. m /\ k + 1 # 0 /\ (k + 1) - 1 = k /\ k <= m
        BY <1>1
      <3>2. h[k] = FirstOf(order, k)
        BY <2>3, <3>1
      <3>3. h[k + 1] = h[k] \cup {n \in {order[k + 1]} : ToSet(GetDependencies(n)) \subseteq h[k]}
        BY <2>1, <3>1
      <3>4. ToSet(GetDependencies(order[k + 1])) \subseteq h[k]
        BY <1>2, <3>1, <3>2 DEF DependsOn
      <3>5. FirstOf(order, k + 1) = FirstOf(order, k) \cup {order[k + 1]}
        BY <1>4, <3>1
      <3> QED BY <3>2, <3>3, <3>4, <3>5
    <2>4. Nat \subseteq N
      <3> HIDE DEF N
      <3> QED BY <2>2, <2>3, NatSetInduction
    <2> QED BY <1>1, <2>4
  <1>6. Computing(order, m, g)
    <2>1. ASSUME NEW k \in 0 .. m
          PROVE  g[k] = IF k = 0 THEN {}
                        ELSE g[k - 1] \cup {n \in {order[k]} : ToSet(GetDependencies(n)) \subseteq g[k - 1]}
      <3>1. CASE k = 0
        BY <1>1, <1>3, <3>1
      <3>2. CASE k # 0
        <4>1. k \in 1 .. m /\ k - 1 \in 0 .. m
          BY <1>1, <3>2
        <4>2. g[k - 1] = FirstOf(order, k - 1) /\ g[k] = FirstOf(order, k)
          BY <4>1
        <4>3. ToSet(GetDependencies(order[k])) \subseteq g[k - 1]
          BY <1>2, <4>1, <4>2 DEF DependsOn
        <4>4. g[k] = g[k - 1] \cup {order[k]}
          BY <1>4, <4>1, <4>2
        <4> HIDE DEF g
        <4> QED BY <3>2, <4>3, <4>4
      <3> QED BY <3>1, <3>2
    <2>2. g = [k \in 0 .. m |-> g[k]]
      OBVIOUS
    <2> HIDE DEF g
    <2> QED BY <2>1, <2>2 DEF Computing
  <1> DEFINE p == CHOOSE h : Computing(order, m, h)
  <1>7. ComputeFeatures(order) = p[m]
    BY Zenon DEF ComputeFeatures, Computing, m
  <1>8. Computing(order, m, p)
    BY <1>6
  <1> QED BY <1>1, <1>5, <1>7, <1>8

\* Whatever reaches nothing but what comes before it is no cycle.
LEMMA OrderSorts ==
  ASSUME DefinitionsInv, NEW order, OrderInv(order, Registered)
  PROVE  ~Unsortable
  <1> SUFFICES ASSUME NEW n \in Registered,
                      n \in AllDependencies(n) \/ AllDependencies(n) \ Registered # {}
               PROVE  FALSE
    BY DEF Unsortable
  <1> DEFINE k == Len(order)
  <1>1. /\ k \in Nat /\ DOMAIN order = 1 .. k /\ Registered = {order[i] : i \in 1 .. k}
        /\ IsInjective(order) /\ Registered \subseteq FeatureNames
    BY RegisteredNames DEF OrderInv, ToSet, FeatureNames
  <1> HIDE DEF k
  <1>2. PICK i \in 1 .. k : order[i] = n
    BY <1>1
  <1> DEFINE C == {order[j] : j \in 1 .. i - 1}
  <1>3. 1 .. i - 1 \subseteq 1 .. k /\ i \notin 1 .. i - 1
    BY <1>1
  <1>4. ASSUME NEW j \in 1 .. i PROVE DependsOn(order[j]) \subseteq C
    <2> SUFFICES ASSUME NEW d \in DependsOn(order[j]) PROVE d \in C
      OBVIOUS
    <2>1. j \in 1 .. k
      BY <1>1
    <2>2. PICK l \in 1 .. k : l < j /\ order[l] = d
      BY <1>1, <2>1 DEF OrderInv
    <2>3. l \in 1 .. i - 1
      BY <1>1, <2>2
    <2> QED BY <2>2, <2>3
  <1>5. /\ C \subseteq Registered /\ C \in SUBSET FeatureNames
        /\ DependsOn(n) \subseteq C /\ \A c \in C : DependsOn(c) \subseteq C
    <2>1. i \in 1 .. i /\ 1 .. i - 1 \subseteq 1 .. i
      BY <1>1
    <2> QED BY <1>1, <1>2, <1>3, <1>4, <2>1
  <1>6. n \notin C
    <2> SUFFICES ASSUME NEW j \in 1 .. i - 1, order[j] = n PROVE FALSE
      OBVIOUS
    <2>1. i = j
      BY <1>1, <1>2, <1>3 DEF IsInjective
    <2> QED BY <1>3, <2>1
  <1> HIDE DEF C
  <1>7. AllDependencies(n) \subseteq C
    BY <1>5 DEF AllDependencies, FeatureNames
  <1> QED BY <1>5, <1>6, <1>7

LEMMA SortedIsOrdered == ASSUME DefinitionsInv PROVE DependenciesFirst
  <1> DEFINE s == TopologicalSort
             order == s.order
             position(n) == CHOOSE i \in DOMAIN order : order[i] = n
  <1>1. SearchInv(s, SortSteps) /\ SortSteps \in Nat
    BY SortSearches, StepsNat
  <1> HIDE DEF s
  <1>2. CASE s.error # "none"
    BY <1>1, <1>2 DEF SearchInv, DependenciesFirst, s
  <1>3. CASE s.error = "none"
    <2>1. s.calls = <<>> /\ s.visited = Registered
      BY <1>1, <1>3, SearchStops
    <2>2. OrderInv(order, Registered)
      BY <1>1, <2>1 DEF SearchInv
    <2>3. ~Unsortable
      BY <2>2, OrderSorts
    <2>4. ComputeFeatures(order) = Registered
      BY <2>2, ColumnsComputed
    <2> HIDE DEF order
    <2>5. IsInjective(order) /\ ToSet(order) = Registered
      BY <2>2 DEF OrderInv
    <2>6. DOMAIN order \subseteq Int
      BY <2>2 DEF OrderInv
    <2>7. ASSUME NEW i \in DOMAIN order PROVE position(order[i]) = i
      BY <2>5, <2>7 DEF IsInjective
    <2>8. ASSUME NEW n \in Registered, NEW d \in DependsOn(n) PROVE position(d) < position(n)
      <3>1. PICK i \in DOMAIN order : order[i] = n
        BY <2>5 DEF ToSet
      <3>2. PICK j \in DOMAIN order : j < i /\ order[j] = d
        BY <2>2, <2>8, <3>1 DEF OrderInv
      <3>3. position(n) = i /\ position(d) = j
        BY <2>7, <3>1, <3>2
      <3> HIDE DEF position
      <3> QED BY <3>2, <3>3
    <2> QED BY <1>3, <2>1, <2>3, <2>4, <2>5, <2>8, Zenon DEF DependenciesFirst, s, order
  <1> QED BY <1>2, <1>3

\* Whatever is registered, in whatever order and however often: topological_sort puts
\* every feature after what it depends on, and raises only where no order could.
THEOREM FeaturesOrdered == StoreSpec => []DependenciesFirst
  <1>1. DefinitionsInv => DependenciesFirst
    BY SortedIsOrdered
  <1> QED BY <1>1, StoreKeeps, PTL
=============================================================================
