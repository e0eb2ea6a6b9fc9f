---------------------------- MODULE FeatureStore ----------------------------
(***************************************************************************)
(* The feature store (mlops/features): the registry of definitions with    *)
(* its topological order, and the online features kept in Redis.           *)
(***************************************************************************)
EXTENDS Integers, Sequences, FiniteSets, SequencesExt

CONSTANTS
  Names,        \* feature names that get registered
  UnknownName,  \* a name in a dependency list that does not
  Symbols,
  Asked,        \* lists of features asked for
  StoreTtl,     \* ttl_seconds
  MaxReplaced,  \* bound on the definitions replaced
  MaxSeconds    \* bound on the clock

ASSUME StoreAssumption == UnknownName \notin Names /\ StoreTtl \in Nat

VARIABLES
  definitions,  \* _features: name -> [dependencies, version], and the order of the keys
  history,      \* _history: how many definitions have been replaced
  second,
  redis,        \* external: <<symbol, second>> -> [features, expires]
  reply         \* the last get_online_features: what was asked, what was given

storeVars == <<definitions, history, second, redis, reply>>

DefaultSet == -1   \* in the place of the second in a key
NoReply == [asked |-> {}, given |-> {}]

StoreInit ==
  /\ definitions = [order |-> <<>>, depends |-> <<>>]
  /\ history = 0
  /\ second = 0
  /\ redis = <<>>
  /\ reply = NoReply
-----------------------------------------------------------------------------
Registered == ToSet(definitions.order)

\* FeatureRegistry.register: a dict keeps a replaced key where it was.
Register(name, dependencies) ==
  /\ IF name \in Registered
     THEN /\ history' = history + 1
          /\ definitions' = [definitions EXCEPT !.depends[name] = dependencies]
     ELSE /\ UNCHANGED history
          /\ definitions' = [order |-> Append(definitions.order, name),
                             depends |-> [n \in Registered \cup {name} |->
                               IF n = name THEN dependencies ELSE definitions.depends[n]]]
  /\ UNCHANGED <<second, redis, reply>>

\* get_dependencies: an unknown feature has none.
GetDependencies(name) == IF name \in Registered THEN definitions.depends[name] ELSE <<>>

\* topological_sort's calls of visit: those still to be made, and for each feature under
\* way (temp) the end of its own.
Call(name) == [name |-> name, ends |-> FALSE]
End(name) == [name |-> name, ends |-> TRUE]
CallsOf(names) == [i \in DOMAIN names |-> Call(names[i])]

NotSorted == [calls |-> CallsOf(definitions.order), temp |-> {}, visited |-> {},
              order |-> <<>>, error |-> "none"]

\* Slip: a feature comes before its dependencies.
VisitFirst(call, s) ==
  LET name == call.name IN
  CASE call.ends -> [s EXCEPT !.temp = @ \ {name}, !.visited = @ \cup {name}]
    [] ~call.ends /\ name \in s.temp -> [s EXCEPT !.calls = <<>>, !.error = "circular"]
    [] ~call.ends /\ name \notin s.temp /\ name \in s.visited -> s
    [] ~call.ends /\ name \notin s.temp \cup s.visited ->
       IF name \notin Registered THEN [s EXCEPT !.calls = <<>>, !.error = "unknown"]
       ELSE [s EXCEPT !.calls = CallsOf(GetDependencies(name)) \o <<End(name)>> \o @,
                      !.temp = @ \cup {name}, !.order = Append(@, name)]

\* visit: a name under way again is a cycle; a name without a definition has no
\* dependencies to visit and is a KeyError.  An exception leaves no call to make.
Visit(call, s) ==
  LET name == call.name IN
  CASE call.ends -> [s EXCEPT !.temp = @ \ {name}, !.visited = @ \cup {name},
                              !.order = Append(@, name)]
    [] ~call.ends /\ name \in s.temp -> [s EXCEPT !.calls = <<>>, !.error = "circular"]
    [] ~call.ends /\ name \notin s.temp /\ name \in s.visited -> s
    [] ~call.ends /\ name \notin s.temp \cup s.visited ->
       IF name \notin Registered THEN [s EXCEPT !.calls = <<>>, !.error = "unknown"]
       ELSE [s EXCEPT !.calls = CallsOf(GetDependencies(name)) \o <<End(name)>> \o @,
                      !.temp = @ \cup {name}]

NextCall(s) == IF s.calls = <<>> THEN s
               ELSE Visit(Head(s.calls), [s EXCEPT !.calls = Tail(@)])

\* The most steps a sort can take: a call for every feature and for every dependency of
\* one, and an end for every feature.
SortSteps == Len(definitions.order)
             + SumFunction([n \in Registered |-> Len(definitions.depends[n]) + 1])
TopologicalSort ==
  LET sorting[k \in 0 .. SortSteps] == IF k = 0 THEN NotSorted ELSE NextCall(sorting[k - 1])
  IN sorting[SortSteps]

\* compute_features: a column whose expression needs a missing one is logged and left out.
ComputeFeatures(order) ==
  LET columns[k \in 0 .. Len(order)] ==
        IF k = 0 THEN {}
        ELSE columns[k - 1] \cup
             {n \in {order[k]} : ToSet(GetDependencies(n)) \subseteq columns[k - 1]}
  IN columns[Len(order)]
-----------------------------------------------------------------------------
\* cache_features, get_cached_features: the key is the symbol and the second, with the
\* backend's own prefix in front.  A failing Redis loses a write and finds nothing.
RedisKey(symbol) == <<symbol, second>>
Live == {k \in DOMAIN redis : redis[k].expires > second}

\* get_online_features: what is cached is given whatever features are asked for; what is
\* not is a placeholder of zeros, and cached.
GetOnlineFeatures(symbol, asked, works) ==
  LET key == RedisKey(symbol)
      found == works /\ key \in Live /\ redis[key].features # {}
  IN /\ reply' = [asked |-> asked, given |-> IF found THEN redis[key].features ELSE asked]
     /\ redis' = IF found \/ ~works THEN redis
                 ELSE [k \in DOMAIN redis \cup {key} |->
                         IF k = key THEN [features |-> asked, expires |-> second + StoreTtl]
                                    ELSE redis[k]]
     /\ UNCHANGED <<definitions, history, second>>

\* OnlineFeatureStore: by symbol and feature set, under a prefix of its own.
SetFeatures(symbol, features, works) ==
  /\ redis' = IF works
       THEN [k \in DOMAIN redis \cup {<<symbol, DefaultSet>>} |->
               IF k = <<symbol, DefaultSet>>
               THEN [features |-> features, expires |-> second + StoreTtl] ELSE redis[k]]
       ELSE redis
  /\ UNCHANGED <<definitions, history, second, reply>>
GetFeatures(symbol) ==
  IF <<symbol, DefaultSet>> \in Live THEN redis[<<symbol, DefaultSet>>].features ELSE {}
DeleteFeatures(symbol, works) ==
  /\ redis' = IF works THEN [k \in DOMAIN redis \ {<<symbol, DefaultSet>>} |-> redis[k]] ELSE redis
  /\ UNCHANGED <<definitions, history, second, reply>>

\* flush: every key with the prefix
Flush(works) ==
  /\ works
  /\ redis' = [k \in {k \in DOMAIN redis : k[2] = DefaultSet} |-> redis[k]]
  /\ UNCHANGED <<definitions, history, second, reply>>

SecondPasses ==
  /\ second < MaxSeconds
  /\ second' = second + 1
  /\ UNCHANGED <<definitions, history, redis, reply>>

\* The dependency lists registered: up to two names, in either order.
DependencyLists ==
  {<<>>} \cup {<<a>> : a \in Names \cup {UnknownName}}
         \cup {<<a, b>> : a \in Names, b \in Names \cup {UnknownName}}

RegistrationNext ==
  \E n \in Names, d \in DependencyLists :
    (n \in Registered => history < MaxReplaced) /\ Register(n, d)

OnlineNext ==
  \/ \E s \in Symbols, f \in Asked, w \in BOOLEAN : GetOnlineFeatures(s, f, w) \/ SetFeatures(s, f, w)
  \/ \E s \in Symbols, w \in BOOLEAN : DeleteFeatures(s, w)
  \/ \E w \in BOOLEAN : Flush(w)
  \/ SecondPasses

StoreNext == RegistrationNext \/ OnlineNext

StoreSpec == StoreInit /\ [][StoreNext]_storeVars
-----------------------------------------------------------------------------
DependsOn(name) == ToSet(GetDependencies(name))

\* What every closed set with the dependencies of a feature in it has in common.
AllDependencies(name) ==
  {d \in Names \cup {UnknownName} :
     \A C \in SUBSET (Names \cup {UnknownName}) :
       DependsOn(name) \subseteq C /\ (\A c \in C : DependsOn(c) \subseteq C) => d \in C}
Unsortable ==
  \E n \in Registered : n \in AllDependencies(n) \/ AllDependencies(n) \ Registered # {}

\* Of any registered definitions in any order of registration, topological_sort makes all
\* its calls and gives an order of all of them with each feature after its dependencies,
\* in which computing them leaves none out; and it raises exactly when a feature depends on
\* itself, directly or not, or on one that is not registered (features/registry.py,
\* topological_sort).
DependenciesFirst ==
  LET sorted == TopologicalSort
      position(n) == CHOOSE i \in DOMAIN sorted.order : sorted.order[i] = n
  IN /\ sorted.calls = <<>>
     /\ sorted.error # "none" <=> Unsortable
     /\ sorted.error = "none" =>
          /\ IsInjective(sorted.order) /\ ToSet(sorted.order) = Registered
          /\ ComputeFeatures(sorted.order) = Registered
          /\ \A n \in Registered : \A d \in DependsOn(n) : position(d) < position(n)
=============================================================================
