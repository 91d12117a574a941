------------------------- MODULE CoAPServer_proofs -------------------------
(***************************************************************************)
(* Theorems about start-up, dynamic resources and the walk of the value    *)
(* update thread, for any paths and any number of patterns.                *)
(*                                                                         *)
(* The invariant follows the main thread: what init() has reached, that    *)
(* the list of resources holds the objects in order of construction        *)
(* (without the one that is being attached), that libcoap's table is its   *)
(* inverse, and that the methods of each object are those configured.      *)
(***************************************************************************)
EXTENDS CoAPServer, FiniteSetTheorems, WellFoundedInduction, TLAPS

Starting == mpc \in {"resolve", "security", "endpoint", "attach"}

\* An object exists that is not in the list; the objects that are.
Attaching == mpc \in {"attachNew", "attachValue", "push"}
Listed == IF Attaching THEN Len(objects) - 1 ELSE Len(objects)

\* handleDynamicRequest() is beyond its checks; beyond the constructor.
Handling == mpc \in {"create", "attachNew", "attachValue", "push", "forward"}
Constructed == mpc \in {"attachNew", "attachValue", "push", "forward"}

ObjectSet == [path : Paths, methods : UNION {SUBSET Methods,
                {config.dynamic[PatternOf(p)].methods : p \in Paths}}]

Types ==
  /\ config \in Configs
  /\ mpc \in {"resolve", "security", "endpoint", "attach", "failed", "loop",
              "create", "attachNew", "attachValue", "push", "forward", "terminated"}
  /\ ret \in {0, 1} /\ ctx \in BOOLEAN /\ pki \in BOOLEAN /\ endp \in BOOLEAN
  /\ objects \in Seq(ObjectSet) /\ table \in [Paths -> Nat]
  /\ request \in Requests
  /\ at \in Nat /\ updating \in BOOLEAN

\* What init() has reached when it comes to each of its steps.
SetupInv ==
  /\ mpc = "security" => (ret = 0 <=> ctx)
  /\ mpc = "endpoint" /\ ret = 0 => ctx /\ (config.secure => pki)
  /\ (mpc = "attach" /\ ret = 0) \/ Started =>
       ctx /\ endp /\ (config.secure => pki)

StartInv ==
  Starting =>
    /\ objects = config.static /\ resources = [i \in DOMAIN config.static |-> i]
    /\ table = [p \in Paths |-> 0]

ListInv ==
  Started =>
    /\ resources = [i \in 1 .. Listed |-> i]
    /\ Len(config.static) <= Listed
    /\ \A i \in 1 .. Len(config.static) : objects[i] = config.static[i]
    /\ Constructed => Len(objects) > 0 /\ objects[Len(objects)].path = request.path

TableInv ==
  Started =>
    /\ \A p \in Paths :
         table[p] # 0 => table[p] \in 1 .. Len(objects) /\ objects[table[p]].path = p
    /\ \A i \in 1 .. Len(objects) :
         table[objects[i].path] = IF mpc = "attachNew" /\ i = Len(objects) THEN 0 ELSE i

RequestInv ==
  /\ mpc = "create" => table[request.path] = 0 /\ Matching(request.path) # {}
  /\ Handling => ConfiguredFor(request.path, request.method)

WalkInv ==
  /\ Starting => at = 0 /\ ~updating
  /\ Started => /\ 1 .. Listed \subseteq ready
                /\ mpc = "push" => Len(objects) \in ready
                /\ at \in 0 .. Listed
                /\ updating => at # 0
  /\ updating => at \in ready

MethodsInv ==
  Started =>
    \A i \in 1 .. Len(objects) : \A m \in Methods :
      m \in objects[i].methods <=> ConfiguredFor(objects[i].path, m)

ReplyInv == reply.code = "none" \/ (mpc = "loop" /\ AnswersByConfiguration)

Inv ==
  /\ Types /\ SetupInv /\ StartInv /\ ListInv /\ TableInv
  /\ RequestInv /\ WalkInv /\ MethodsInv /\ ReplyInv

----------------------------------------------------------------------------
(* Lemmas *)

USE DEF setupVars, resourceVars, requestVars, walkVars

\* A set of natural numbers that is not empty has a least element.
LEMMA LessInRelation ==
  ASSUME NEW i \in Nat, NEW j \in Nat, i < j
  PROVE  <<i, j>> \in OpToRel(<, Nat)
BY Zenon DEF OpToRel

LEMMA Least ==
  ASSUME NEW S, S \subseteq Nat, S # {}
  PROVE  \E i \in S : \A j \in S : i <= j
<1>1. \E i \in S : \A j \in S : ~(<<j, i>> \in OpToRel(<, Nat))
  BY NatLessThanWellFounded, WFMin
<1>2. PICK i \in S : \A j \in S : ~(<<j, i>> \in OpToRel(<, Nat))
  BY <1>1, Zenon
<1>3. ASSUME NEW j \in S PROVE i <= j
  <2>1. i \in Nat /\ j \in Nat
    OBVIOUS
  <2>2. ~(j < i)
    BY <1>2, <2>1, LessInRelation
  <2> QED
    BY <2>1, <2>2
<1> QED
  BY <1>3

\* The pattern of a path is the first that it matches.
LEMMA PatternIsFirst ==
  ASSUME Types, NEW p \in Paths, Matching(p) # {}
  PROVE  /\ PatternOf(p) \in DOMAIN config.dynamic
         /\ p \in config.dynamic[PatternOf(p)].paths
         /\ \A j \in DOMAIN config.dynamic :
              p \in config.dynamic[j].paths => PatternOf(p) <= j
         /\ DOMAIN config.dynamic \subseteq Nat \ {0}
<1>1. PICK n \in 0 .. MaxPatterns : config.dynamic \in [1 .. n -> DynamicConfigs \cup {Malformed}]
  BY DEF Types, Configs
<1>2. DOMAIN config.dynamic = 1 .. n /\ n \in Nat
  BY <1>1
<1>3. Matching(p) \subseteq Nat
  BY <1>2 DEF Matching
<1>4. \E i \in Matching(p) : \A j \in Matching(p) : i <= j
  BY <1>3, Least
<1>5. PatternOf(p) \in Matching(p) /\ \A j \in Matching(p) : PatternOf(p) <= j
  BY <1>4 DEF PatternOf
<1> QED
  BY <1>2, <1>5 DEF Matching

\* What handleDynamicRequest() decides by is what is configured.
LEMMA DynamicConfigured ==
  ASSUME Types, NEW p \in Paths, NEW m \in Methods,
         \A i \in DOMAIN config.static : config.static[i].path # p
  PROVE  /\ Matching(p) = {} => ~ConfiguredFor(p, m)
         /\ Matching(p) # {} =>
              (ConfiguredFor(p, m) <=> m \in config.dynamic[PatternOf(p)].methods)
<1>1. CASE Matching(p) = {}
  BY <1>1 DEF Matching, ConfiguredFor
<1>2. CASE Matching(p) # {}
  <2> DEFINE k == PatternOf(p)
  <2>1. /\ k \in DOMAIN config.dynamic /\ p \in config.dynamic[k].paths
        /\ \A j \in DOMAIN config.dynamic : p \in config.dynamic[j].paths => k <= j
        /\ DOMAIN config.dynamic \subseteq Nat \ {0}
    BY <1>2, PatternIsFirst
  <2> HIDE DEF k
  <2>2. \A j \in 1 .. k - 1 : j \in DOMAIN config.dynamic
    <3>1. PICK n \in 0 .. MaxPatterns : config.dynamic \in [1 .. n -> DynamicConfigs \cup {Malformed}]
      BY DEF Types, Configs
    <3> QED
      BY <2>1, <3>1
  <2>3. ASSUME m \in config.dynamic[k].methods PROVE ConfiguredFor(p, m)
    <3>1. \A j \in 1 .. k - 1 : p \notin config.dynamic[j].paths
      BY <2>1, <2>2
    <3> QED
      BY <2>1, <2>3, <3>1 DEF ConfiguredFor
  <2>4. ASSUME ConfiguredFor(p, m) PROVE m \in config.dynamic[k].methods
    <3>1. PICK i \in DOMAIN config.dynamic :
            /\ p \in config.dynamic[i].paths /\ m \in config.dynamic[i].methods
            /\ \A j \in 1 .. i - 1 : p \notin config.dynamic[j].paths
      BY <2>4 DEF ConfiguredFor
    <3>2. i = k
      BY <2>1, <3>1
    <3> QED
      BY <3>1, <3>2
  <2> QED
    BY <1>2, <2>3, <2>4 DEF k
<1> QED
  BY <1>1, <1>2

\* There is at most one configured resource that is not dynamic.
LEMMA StaticPaths ==
  ASSUME Types
  PROVE  /\ config.static \in Seq(StaticConfigs) /\ Len(config.static) \in {0, 1}
         /\ StaticConfigs \subseteq ObjectSet
<1>1. config.static = << >> \/ \E c \in StaticConfigs : config.static = <<c>>
  BY DEF Types, Configs
<1>2. {"GET"} \in SUBSET Methods
  BY DEF Methods
<1>3. StaticConfigs \subseteq ObjectSet
  BY <1>2 DEF StaticConfigs, ObjectSet
<1>4. ASSUME NEW c \in StaticConfigs, config.static = <<c>>
      PROVE  config.static \in Seq(StaticConfigs) /\ Len(config.static) = 1
  BY <1>4
<1>5. << >> \in Seq(StaticConfigs) /\ Len(<< >>) = 0
  OBVIOUS
<1> QED
  BY <1>1, <1>3, <1>4, <1>5

LEMMA StaticConfigured ==
  ASSUME Types, NEW i \in DOMAIN config.static, NEW m \in Methods
  PROVE  m \in config.static[i].methods <=> ConfiguredFor(config.static[i].path, m)
<1>1. \A j \in DOMAIN config.static : j = i
  BY StaticPaths
<1> QED
  BY <1>1 DEF ConfiguredFor

\* The successor in the list, which is the list of 1, 2, ... n.
LEMMA SuccessorInList ==
  ASSUME NEW n \in Nat, resources = [i \in 1 .. n |-> i], NEW i \in 1 .. n
  PROVE  /\ Len(resources) = n
         /\ Successor(i) = IF i = n THEN 0 ELSE i + 1
<1>1. Len(resources) = n
  OBVIOUS
<1>2. (CHOOSE k \in 1 .. Len(resources) : resources[k] = i) = i
  BY <1>1
<1> QED
  BY <1>1, <1>2 DEF Successor

LEMMA Lengths ==
  ASSUME Types, Started => ListInv
  PROVE  /\ Len(objects) \in Nat /\ Len(config.static) \in Nat
         /\ DOMAIN objects = 1 .. Len(objects)
         /\ DOMAIN config.static = 1 .. Len(config.static)
         /\ Started => Listed \in Nat
<1>1. /\ Len(objects) \in Nat /\ DOMAIN objects = 1 .. Len(objects)
  BY DEF Types
<1>2. /\ Len(config.static) \in Nat /\ DOMAIN config.static = 1 .. Len(config.static)
  BY StaticPaths
<1> QED
  BY <1>1, <1>2 DEF Listed, Attaching, Constructed, ListInv

----------------------------------------------------------------------------
(* The steps, grouped by what they change *)

InitStep == Resolve \/ SecurityFails \/ SecurityReachesContext \/ Endpoint \/ InitFails
Answering == Known \/ NoPattern \/ BadMethod
Throws == CreateThrows \/ PatternThrows

LEMMA NextCases ==
  Next <=> \/ InitStep \/ AttachAll \/ Answering \/ GoodMethod
           \/ Create \/ Throws \/ AttachNew \/ AttachValue \/ Push \/ Forward
           \/ UpdateThread
BY DEF Next, Startup, Arrival, DynamicRequest, InitStep, Answering, Throws

LEMMA InitSteps ==
  ASSUME InitStep
  PROVE  /\ UNCHANGED <<config, objects, table, resources, ready, request, reply,
                        at, updating, updated>>
         /\ Starting /\ ~Started /\ ~Started' /\ ~Handling'
         /\ mpc # "loop" /\ mpc' # "loop"
BY DEF InitStep, Resolve, SecurityFails, SecurityReachesContext, Endpoint, InitFails,
       Starting, Started, Handling

LEMMA AnsweringSteps ==
  ASSUME Answering
  PROVE  /\ UNCHANGED <<config, mpc, ret, address, ctx, pki, endp, objects, table,
                        resources, ready, at, updating, updated>>
         /\ mpc = "loop" /\ request' \in Requests
BY DEF Answering, Known, NoPattern, BadMethod

LEMMA WalkSteps ==
  ASSUME UpdateThread
  PROVE  /\ UNCHANGED <<config, mpc, ret, address, ctx, pki, endp, objects, table,
                        resources, ready, request, reply>>
         /\ Started
BY DEF UpdateThread, WalkBegin, UpdateReturn, WalkNext

\* What each step of handleDynamicRequest() changes.
LEMMA HandlingSteps ==
  /\ GoodMethod => UNCHANGED <<config, ret, address, ctx, pki, endp, objects, table,
                               resources, ready, at, updating, updated>>
  /\ Create => UNCHANGED <<config, ret, address, ctx, pki, endp, table, resources,
                           ready, request, reply, at, updating, updated>>
  /\ Throws => UNCHANGED <<config, ret, address, ctx, pki, endp, objects, table,
                           resources, ready, at, updating, updated>>
  /\ AttachNew => UNCHANGED <<config, ret, address, ctx, pki, endp, objects,
                              resources, ready, request, reply, at, updating, updated>>
  /\ AttachValue => UNCHANGED <<config, ret, address, ctx, pki, endp, objects, table,
                                resources, request, reply, at, updating, updated>>
  /\ Push => UNCHANGED <<config, ret, address, ctx, pki, endp, objects, table,
                         ready, request, reply, at, updating, updated>>
  /\ Forward => UNCHANGED <<config, ret, address, ctx, pki, endp, objects, table,
                            resources, ready, request, at, updating, updated>>
BY DEF GoodMethod, Create, Throws, CreateThrows, PatternThrows, AttachNew, AttachValue, Push,
   Forward

----------------------------------------------------------------------------
(* The invariant *)

LEMMA InitInv == Init => Inv
<1> SUFFICES ASSUME Init PROVE Inv
  OBVIOUS
<1>0. mpc = "resolve" /\ ~Started /\ ~Handling
  BY DEF Init, Started, Handling
<1>1. Types
  <2>1. config \in Configs
    BY DEF Init
  <2>2. config.static \in Seq(StaticConfigs) /\ StaticConfigs \subseteq ObjectSet
    <3>1. config.static = << >> \/ \E c \in StaticConfigs : config.static = <<c>>
      BY <2>1 DEF Configs
    <3>2. {"GET"} \in SUBSET Methods
      BY DEF Methods
    <3>3. StaticConfigs \subseteq ObjectSet
      BY <3>2 DEF StaticConfigs, ObjectSet
    <3>4. ASSUME NEW c \in StaticConfigs, config.static = <<c>>
          PROVE  config.static \in Seq(StaticConfigs)
      BY <3>4
    <3>5. << >> \in Seq(StaticConfigs)
      OBVIOUS
    <3> QED
      BY <3>1, <3>3, <3>4, <3>5
  <2>3. objects \in Seq(ObjectSet)
    BY <2>2 DEF Init
  <2> QED
    BY <2>1, <2>3 DEF Init, Types
<1>2. SetupInv /\ StartInv /\ RequestInv /\ WalkInv
  BY <1>0 DEF Init, SetupInv, StartInv, RequestInv, WalkInv, Starting
<1>3. ListInv /\ TableInv /\ MethodsInv
  BY <1>0 DEF ListInv, TableInv, MethodsInv
<1>4. ReplyInv
  BY DEF Init, ReplyInv, NoReply
<1> QED
  BY <1>1, <1>2, <1>3, <1>4 DEF Inv

LEMMA TypesStep == Inv /\ Next => Types'
<1> SUFFICES ASSUME Inv, Next PROVE Types'
  OBVIOUS
<1>0. Types /\ config' = config
  BY InitSteps, AnsweringSteps, WalkSteps, HandlingSteps, NextCases DEF Inv, AttachAll
<1>1. ObjectSet' = ObjectSet
  BY <1>0 DEF ObjectSet, PatternOf, Matching
<1>2. /\ mpc' \in {"resolve", "security", "endpoint", "attach", "failed", "loop",
              "create", "attachNew", "attachValue", "push", "forward", "terminated"}
      /\ ret' \in {0, 1} /\ ctx' \in BOOLEAN /\ pki' \in BOOLEAN /\ endp' \in BOOLEAN
  <2>1. CASE InitStep
    BY <1>0, <2>1 DEF Types, InitStep, Resolve, SecurityFails, SecurityReachesContext,
       Endpoint, InitFails
  <2>2. CASE AttachAll
    BY <1>0, <2>2 DEF Types, AttachAll
  <2>3. CASE Answering \/ UpdateThread
    BY <1>0, <2>3, AnsweringSteps, WalkSteps DEF Types
  <2>4. CASE GoodMethod \/ Create \/ Throws \/ AttachNew \/ AttachValue \/ Push \/ Forward
    BY <1>0, <2>4 DEF Types, GoodMethod, Create, Throws, CreateThrows, PatternThrows, AttachNew,
       AttachValue,
       Push, Forward
  <2> QED
    BY <2>1, <2>2, <2>3, <2>4, NextCases
<1>3. objects' \in Seq(ObjectSet)
  <2>1. CASE Create
    <3> DEFINE new == [path |-> request.path,
                       methods |-> config.dynamic[PatternOf(request.path)].methods]
    <3>1. request.path \in Paths
      BY <1>0 DEF Types, Requests
    <3>2. new \in ObjectSet
      BY <3>1 DEF ObjectSet
    <3>3. objects' = Append(objects, new)
      BY <2>1 DEF Create
    <3> HIDE DEF new
    <3> QED
      BY <1>0, <3>2, <3>3 DEF Types
  <2>2. CASE ~Create
    BY <1>0, <2>2, InitSteps, AnsweringSteps, WalkSteps, HandlingSteps, NextCases
       DEF Types, AttachAll
  <2> QED
    BY <2>1, <2>2
<1>4. table' \in [Paths -> Nat]
  <2>1. CASE AttachAll
    <3>1. ListInv /\ StartInv
      BY DEF Inv
    <3>2. Starting /\ ~Started
      BY <2>1 DEF AttachAll, Starting, Started
    <3>3. ToSet(resources) \subseteq Nat
      BY <1>0, <3>1, <3>2, StaticPaths DEF StartInv, ToSet
    <3> QED
      BY <2>1, <3>3 DEF AttachAll
  <2>2. CASE AttachNew
    <3>1. Len(objects) \in Nat /\ table \in [Paths -> Nat]
      BY <1>0 DEF Types
    <3> QED
      BY <2>2, <3>1 DEF AttachNew
  <2>3. CASE ~AttachAll /\ ~AttachNew
    BY <1>0, <2>3, InitSteps, AnsweringSteps, WalkSteps, HandlingSteps, NextCases DEF Types
  <2> QED
    BY <2>1, <2>2, <2>3
<1>5. request' \in Requests
  <2>1. CASE GoodMethod \/ Throws
    BY <1>0, <2>1 DEF GoodMethod, Throws, CreateThrows, PatternThrows, Types
  <2>2. CASE ~GoodMethod /\ ~Throws
    BY <1>0, <2>2, InitSteps, AnsweringSteps, WalkSteps, HandlingSteps, NextCases
       DEF Types, AttachAll
  <2> QED
    BY <2>1, <2>2
<1>6. at' \in Nat /\ updating' \in BOOLEAN
  <2>1. CASE UpdateThread
    <3>1. ListInv /\ WalkInv /\ Started
      BY <2>1, WalkSteps DEF Inv
    <3>2. Listed \in Nat /\ resources = [i \in 1 .. Listed |-> i] /\ at \in 0 .. Listed
      BY <1>0, <3>1, Lengths DEF ListInv, WalkInv
    <3>3. CASE WalkBegin
      <4>1. Head(resources) \in Nat
        BY <3>2, <3>3 DEF WalkBegin
      <4> QED
        BY <3>3, <4>1 DEF WalkBegin
    <3>4. CASE UpdateReturn
      BY <1>0, <3>4 DEF UpdateReturn, Types
    <3>5. CASE WalkNext
      BY <3>2, <3>5, SuccessorInList DEF WalkNext
    <3> QED
      BY <2>1, <3>3, <3>4, <3>5 DEF UpdateThread
  <2>2. CASE ~UpdateThread
    BY <1>0, <2>2, InitSteps, AnsweringSteps, HandlingSteps, NextCases DEF Types, AttachAll
  <2> QED
    BY <2>1, <2>2
<1> QED
  BY <1>0, <1>1, <1>2, <1>3, <1>4, <1>5, <1>6 DEF Types

LEMMA SetupStep == Inv /\ Next => SetupInv'
<1> SUFFICES ASSUME Inv, Next PROVE SetupInv'
  OBVIOUS
<1>0. Types /\ SetupInv
  BY DEF Inv
<1>1. CASE InitStep
  <2>0. ~Started'
    BY <1>1, InitSteps
  <2>1. CASE Resolve
    BY <1>0, <2>0, <2>1 DEF Types, SetupInv, Resolve
  <2>2. CASE SecurityFails \/ SecurityReachesContext
    BY <1>0, <2>0, <2>2 DEF Types, SetupInv, SecurityFails, SecurityReachesContext
  <2>3. CASE Endpoint
    <3>1. endp' \in BOOLEAN /\ (endp' => ret = 0)
      BY <2>3 DEF Endpoint
    <3>2. /\ mpc = "endpoint" /\ mpc' = "attach" /\ (ret' = 0 => endp')
          /\ UNCHANGED <<config, address, ctx, pki>>
      BY <2>3, <3>1 DEF Endpoint
    <3> QED
      BY <1>0, <2>0, <3>1, <3>2 DEF SetupInv
  <2>4. CASE InitFails
    BY <2>0, <2>4 DEF SetupInv, InitFails
  <2> QED
    BY <1>1, <2>1, <2>2, <2>3, <2>4 DEF InitStep
<1>2. CASE AttachAll
  BY <1>0, <1>2 DEF SetupInv, Started, AttachAll
<1>3. CASE Answering \/ UpdateThread
  BY <1>0, <1>3, AnsweringSteps, WalkSteps DEF SetupInv, Started
<1>4. CASE GoodMethod \/ Create \/ Throws \/ AttachNew \/ AttachValue \/ Push \/ Forward
  <2>1. /\ UNCHANGED <<config, ret, address, ctx, pki, endp>>
        /\ Started /\ mpc' \notin {"security", "endpoint", "attach"}
    BY <1>4 DEF Started, GoodMethod, Create, Throws, CreateThrows, PatternThrows, AttachNew,
       AttachValue, Push, Forward
  <2> QED
    BY <1>0, <2>1 DEF SetupInv
<1> QED
  BY <1>1, <1>2, <1>3, <1>4, NextCases

LEMMA StartStep == Inv /\ Next => StartInv'
<1> SUFFICES ASSUME Inv, Next, Starting' PROVE StartInv'
  BY DEF StartInv
<1>1. InitStep
  BY AnsweringSteps, WalkSteps, NextCases DEF Starting, Started, AttachAll, GoodMethod, Create,
     Throws, CreateThrows, PatternThrows, AttachNew, AttachValue, Push, Forward
<1> QED
  BY <1>1, InitSteps DEF Inv, StartInv

\* The list and the objects.
LEMMA ListStep == Inv /\ Next => ListInv'
<1> SUFFICES ASSUME Inv, Next, Started' PROVE ListInv'
  BY DEF ListInv
<1>0. Types /\ StartInv /\ ListInv
  BY DEF Inv
<1>1. /\ Len(objects) \in Nat /\ Len(config.static) \in Nat
      /\ DOMAIN config.static = 1 .. Len(config.static)
      /\ Started => Listed \in Nat
  BY <1>0, Lengths
<1>2. CASE InitStep
  BY <1>2, InitSteps
<1>3. CASE AttachAll
  <2>1. Starting /\ ~Attaching' /\ ~Constructed' /\ UNCHANGED <<config, objects, resources>>
    BY <1>3 DEF AttachAll, Starting, Attaching, Constructed
  <2> QED
    BY <1>0, <1>1, <2>1 DEF StartInv, ListInv, Listed
<1>4. CASE Answering \/ UpdateThread
  <2>1. /\ UNCHANGED <<config, mpc, objects, resources>> /\ Started
        /\ Constructed => request' = request
    BY <1>4, AnsweringSteps, WalkSteps DEF Started, Constructed
  <2> QED
    BY <1>0, <2>1 DEF ListInv, Listed, Attaching, Constructed
<1>5. CASE GoodMethod
  <2>1. /\ UNCHANGED <<config, objects, resources>> /\ Started /\ ~Attaching /\ ~Attaching'
        /\ ~Constructed'
    BY <1>5 DEF GoodMethod, Started, Attaching, Constructed
  <2> QED
    BY <1>0, <2>1 DEF ListInv, Listed
<1>6. CASE Create
  <2> DEFINE new == [path |-> request.path,
                     methods |-> config.dynamic[PatternOf(request.path)].methods]
  <2>1. /\ UNCHANGED <<config, resources, request>> /\ Started /\ ~Attaching /\ Attaching'
        /\ objects' = Append(objects, new)
    BY <1>6 DEF Create, Started, Attaching
  <2>2. new.path = request.path
    OBVIOUS
  <2> HIDE DEF new
  <2>3. /\ Len(objects') = Len(objects) + 1
        /\ \A i \in 1 .. Len(objects) : objects'[i] = objects[i]
        /\ objects'[Len(objects')] = new
    BY <1>0, <2>1 DEF Types
  <2>4. Listed' = Listed /\ Listed = Len(objects)
    BY <1>1, <2>1, <2>3 DEF Listed
  <2>5. Len(objects') > 0 /\ objects'[Len(objects')].path = request'.path
    BY <1>1, <2>1, <2>2, <2>3
  <2>6. \A i \in 1 .. Len(config.static) : objects'[i] = config.static[i]
    BY <1>0, <1>1, <2>1, <2>3, <2>4 DEF ListInv
  <2> QED
    BY <1>0, <2>1, <2>4, <2>5, <2>6 DEF ListInv
<1>7. CASE AttachNew \/ AttachValue
  <2>1. /\ UNCHANGED <<config, objects, resources, request>> /\ Started
        /\ Attaching /\ Attaching' /\ Constructed
    BY <1>7 DEF AttachNew, AttachValue, Started, Attaching, Constructed
  <2> QED
    BY <1>0, <2>1 DEF ListInv, Listed
<1>8. CASE Push
  <2>1. /\ UNCHANGED <<config, objects, request>> /\ Started
        /\ Attaching /\ ~Attaching' /\ Constructed
        /\ resources' = Append(resources, Len(objects))
    BY <1>8 DEF Push, Started, Attaching, Constructed
  <2>2. Listed = Len(objects) - 1 /\ Listed' = Len(objects) /\ Listed \in Nat
    BY <1>1, <2>1 DEF Listed
  <2>3. resources = [i \in 1 .. Listed |-> i]
    BY <1>0, <2>1 DEF ListInv
  <2>4. resources' = [i \in 1 .. Listed' |-> i]
    <3> HIDE DEF Listed
    <3> QED
      BY <2>1, <2>2, <2>3
  <2> QED
    BY <1>0, <1>1, <2>1, <2>2, <2>4 DEF ListInv
<1>9. CASE Forward
  <2>1. /\ UNCHANGED <<config, objects, resources, request>> /\ Started
        /\ ~Attaching /\ ~Attaching' /\ ~Constructed'
    BY <1>9 DEF Forward, Started, Attaching, Constructed
  <2> QED
    BY <1>0, <2>1 DEF ListInv, Listed
<1>10. CASE Throws
  BY <1>10 DEF Throws, CreateThrows, PatternThrows, Started
<1> QED
  BY <1>2, <1>3, <1>4, <1>5, <1>6, <1>7, <1>8, <1>9, <1>10, NextCases

\* libcoap's table.
LEMMA TableStep == Inv /\ Next => TableInv'
<1> SUFFICES ASSUME Inv, Next, Started' PROVE TableInv'
  BY DEF TableInv
<1>0. Types /\ StartInv /\ ListInv /\ TableInv /\ RequestInv
  BY DEF Inv
<1>1. /\ Len(objects) \in Nat /\ request.path \in Paths
      /\ table \in [Paths -> Nat] /\ objects \in Seq(ObjectSet)
      /\ \A o \in ObjectSet : o.path \in Paths
  BY <1>0 DEF Types, Requests, ObjectSet
<1>a. \A i \in 1 .. Len(objects) : objects[i].path \in Paths
  BY <1>1
<1>2. CASE InitStep
  BY <1>2, InitSteps
<1>3. CASE AttachAll
  <2>1. /\ Starting /\ mpc' # "attachNew" /\ UNCHANGED <<config, objects, resources>>
        /\ table' = [p \in Paths |->
                       IF \E i \in ToSet(resources) : objects[i].path = p
                       THEN CHOOSE i \in ToSet(resources) : objects[i].path = p ELSE 0]
    BY <1>3 DEF AttachAll, Starting
  <2>2. /\ objects = config.static /\ Len(objects) \in {0, 1}
        /\ resources = [i \in DOMAIN objects |-> i] /\ DOMAIN objects = 1 .. Len(objects)
    BY <1>0, <2>1, StaticPaths DEF StartInv
  <2>3. ToSet(resources) = 1 .. Len(objects)
    BY <2>2 DEF ToSet
  <2>4. ASSUME NEW i \in 1 .. Len(objects) PROVE table'[objects[i].path] = i
    <3>0. Len(objects) = 1
      BY <2>2
    <3>1. \A j \in 1 .. Len(objects) : j = i
      BY <3>0
    <3>2. (CHOOSE j \in ToSet(resources) : objects[j].path = objects[i].path) = i
      BY <2>3, <3>1
    <3> QED
      BY <1>a, <2>1, <2>3, <3>2
  <2>5. ASSUME NEW p \in Paths, table'[p] # 0
        PROVE  table'[p] \in 1 .. Len(objects) /\ objects[table'[p]].path = p
    BY <2>1, <2>3, <2>5
  <2> QED
    BY <2>1, <2>4, <2>5 DEF TableInv
<1>4. CASE Answering \/ UpdateThread
  <2>1. UNCHANGED <<mpc, objects, table>> /\ Started
    BY <1>4, AnsweringSteps, WalkSteps DEF Started
  <2> QED
    BY <1>0, <2>1 DEF TableInv
<1>5. CASE GoodMethod \/ Forward \/ Push \/ AttachValue
  <2>1. /\ UNCHANGED <<objects, table>> /\ Started /\ mpc # "attachNew" /\ mpc' # "attachNew"
    BY <1>5 DEF GoodMethod, Forward, Push, AttachValue, Started
  <2> QED
    BY <1>0, <2>1 DEF TableInv
<1>6. CASE Create
  <2> DEFINE new == [path |-> request.path,
                     methods |-> config.dynamic[PatternOf(request.path)].methods]
  <2>1. /\ table' = table /\ Started /\ mpc = "create" /\ mpc' = "attachNew"
        /\ objects' = Append(objects, new)
    BY <1>6 DEF Create, Started
  <2>2. new.path = request.path
    OBVIOUS
  <2> HIDE DEF new
  <2>3. /\ Len(objects') = Len(objects) + 1
        /\ \A i \in 1 .. Len(objects) : objects'[i] = objects[i]
        /\ objects'[Len(objects')] = new
    BY <1>0, <2>1 DEF Types
  <2>4. table[request.path] = 0
    BY <1>0, <2>1 DEF RequestInv
  <2>5. ASSUME NEW i \in 1 .. Len(objects')
        PROVE  table[objects'[i].path] = IF i = Len(objects') THEN 0 ELSE i
    <3>1. CASE i = Len(objects')
      BY <2>2, <2>3, <2>4, <3>1
    <3>2. CASE i # Len(objects')
      <4>1. i \in 1 .. Len(objects) /\ objects'[i] = objects[i]
        BY <1>1, <2>3, <3>2
      <4> QED
        BY <1>0, <2>1, <3>2, <4>1 DEF TableInv
    <3> QED
      BY <3>1, <3>2
  <2>6. ASSUME NEW p \in Paths, table[p] # 0
        PROVE  table[p] \in 1 .. Len(objects') /\ objects'[table[p]].path = p
    BY <1>0, <1>1, <2>1, <2>3, <2>6 DEF TableInv
  <2> QED
    BY <2>1, <2>5, <2>6 DEF TableInv
<1>7. CASE AttachNew
  <2> DEFINE n == Len(objects)
  <2>1. /\ objects' = objects /\ Started /\ mpc = "attachNew" /\ mpc' = "attachValue"
        /\ table' = [table EXCEPT ![request.path] = n]
    BY <1>7 DEF AttachNew, Started
  <2>2. n > 0 /\ objects[n].path = request.path /\ n \in 1 .. n
    BY <1>0, <1>1, <2>1 DEF ListInv, Constructed
  <2>3. \A i \in 1 .. n : table[objects[i].path] = IF i = n THEN 0 ELSE i
    BY <1>0, <2>1 DEF TableInv
  <2>4. ASSUME NEW i \in 1 .. n PROVE table'[objects[i].path] = i
    <3>1. CASE i = n
      BY <1>1, <2>1, <2>2, <3>1
    <3>2. CASE i # n
      <4>1. objects[i].path # request.path
        BY <1>1, <2>2, <2>3, <3>2
      <4> QED
        BY <1>a, <1>1, <2>1, <2>3, <3>2, <4>1
    <3> QED
      BY <3>1, <3>2
  <2>5. ASSUME NEW p \in Paths, table'[p] # 0
        PROVE  table'[p] \in 1 .. n /\ objects[table'[p]].path = p
    <3>1. CASE p = request.path
      BY <1>1, <2>1, <2>2, <3>1
    <3>2. CASE p # request.path
      <4>1. table'[p] = table[p]
        BY <1>1, <2>1, <3>2
      <4> QED
        BY <1>0, <2>1, <2>5, <4>1 DEF TableInv
    <3> QED
      BY <3>1, <3>2
  <2> QED
    BY <2>1, <2>4, <2>5 DEF TableInv
<1>8. CASE Throws
  BY <1>8 DEF Throws, CreateThrows, PatternThrows, Started
<1> QED
  BY <1>2, <1>3, <1>4, <1>5, <1>6, <1>7, <1>8, NextCases

LEMMA Static ==
  ASSUME Inv, Started
  PROVE  \A p \in Paths : table[p] = 0 =>
           \A i \in DOMAIN config.static : mpc # "attachNew" => config.static[i].path # p
<1> SUFFICES ASSUME NEW p \in Paths, NEW i \in DOMAIN config.static, mpc # "attachNew",
                    config.static[i].path = p
             PROVE  table[p] # 0
  OBVIOUS
<1>1. Types /\ ListInv /\ TableInv
  BY DEF Inv
<1>2. /\ i \in 1 .. Len(config.static) /\ Len(objects) \in Nat
      /\ Len(config.static) \in Nat /\ Len(config.static) <= Listed
  BY <1>1, Lengths DEF ListInv
<1>3. i \in 1 .. Len(objects) /\ i > 0
  BY <1>2 DEF Listed
<1>4. objects[i].path = p
  BY <1>1, <1>2 DEF ListInv
<1> QED
  BY <1>1, <1>3, <1>4 DEF TableInv

\* The request that is handled.
LEMMA RequestStep == Inv /\ Next => RequestInv'
<1> SUFFICES ASSUME Inv, Next PROVE RequestInv'
  OBVIOUS
<1>0. Types /\ RequestInv
  BY DEF Inv
<1>1. config' = config
  BY InitSteps, AnsweringSteps, WalkSteps, HandlingSteps, NextCases DEF AttachAll
<1>2. CASE InitStep \/ AttachAll \/ Answering \/ Throws \/ Forward
  <2>1. ~Handling'
    BY <1>2, InitSteps, AnsweringSteps DEF Handling, AttachAll, Throws, CreateThrows,
       PatternThrows, Forward
  <2> QED
    BY <2>1 DEF RequestInv, Handling
<1>3. CASE GoodMethod
  <2> DEFINE p == request'.path
             m == request'.method
  <2>1. /\ p \in Paths /\ m \in Methods /\ table[p] = 0 /\ Matching(p) # {}
        /\ m \in config.dynamic[PatternOf(p)].methods /\ table' = table
        /\ mpc = "loop" /\ Started
    BY <1>3 DEF GoodMethod, Requests, Started
  <2>2. ConfiguredFor(p, m)
    <3>1. \A i \in DOMAIN config.static : config.static[i].path # p
      BY <2>1, Static
    <3> HIDE DEF p, m
    <3> QED
      BY <1>0, <2>1, <3>1, DynamicConfigured
  <2>3. ConfiguredFor(request.path, request.method)'
    BY <1>1, <2>2 DEF ConfiguredFor
  <2>4. (Matching(request.path) # {})' /\ (table[request.path] = 0)'
    BY <1>1, <2>1 DEF Matching
  <2> QED
    BY <2>3, <2>4 DEF RequestInv
<1>4. CASE Create \/ AttachNew \/ AttachValue \/ Push
  <2>1. Handling /\ mpc' # "create" /\ request' = request
    BY <1>4 DEF Create, AttachNew, AttachValue, Push, Handling
  <2> QED
    BY <1>0, <1>1, <2>1 DEF RequestInv, ConfiguredFor
<1>5. CASE UpdateThread
  BY <1>0, <1>5, WalkSteps DEF RequestInv, Handling, ConfiguredFor, Matching
<1> QED
  BY <1>2, <1>3, <1>4, <1>5, NextCases

\* The walk of the value update thread.
LEMMA WalkStep == Inv /\ Next => WalkInv'
<1> SUFFICES ASSUME Inv, Next PROVE WalkInv'
  OBVIOUS
<1>0. Types /\ StartInv /\ ListInv /\ WalkInv
  BY DEF Inv
<1>1. Len(objects) \in Nat /\ (Started => Listed \in Nat)
  BY <1>0, Lengths
<1>2. CASE InitStep
  BY <1>0, <1>2, InitSteps DEF WalkInv
<1>3. CASE AttachAll
  <2>1. /\ Starting /\ ~Starting' /\ ~Attaching' /\ mpc' # "push"
        /\ UNCHANGED <<config, objects, resources, at, updating>>
        /\ ready' = ToSet(resources)
    BY <1>3 DEF AttachAll, Starting, Attaching
  <2>2. at = 0 /\ ~updating
    BY <1>0, <2>1 DEF WalkInv
  <2>3. /\ resources = [i \in DOMAIN objects |-> i] /\ DOMAIN objects = 1 .. Len(objects)
    BY <1>0, <2>1, StaticPaths DEF StartInv
  <2>4. ready' = 1 .. Len(objects) /\ Listed' = Len(objects)
    BY <2>1, <2>3 DEF ToSet, Listed
  <2> QED
    BY <1>1, <2>1, <2>2, <2>4 DEF WalkInv
<1>4. CASE Answering \/ GoodMethod \/ Forward
  <2>1. /\ UNCHANGED <<objects, ready, at, updating>> /\ Started /\ ~Starting'
        /\ ~Attaching /\ ~Attaching' /\ mpc' # "push"
    BY <1>4, AnsweringSteps DEF GoodMethod, Forward, Started, Starting, Attaching
  <2> QED
    BY <1>0, <2>1 DEF WalkInv, Listed
<1>5. CASE Create
  <2>1. /\ UNCHANGED <<ready, at, updating>> /\ Started /\ ~Starting' /\ ~Attaching
        /\ Attaching' /\ mpc' # "push"
        /\ Len(objects') = Len(objects) + 1
    BY <1>0, <1>5 DEF Create, Started, Starting, Attaching, Types
  <2>2. Listed' = Listed
    BY <1>1, <2>1 DEF Listed
  <2> QED
    BY <1>0, <2>1, <2>2 DEF WalkInv
<1>6. CASE Throws
  <2>1. UNCHANGED <<ready, at, updating>> /\ ~Starting' /\ ~Started'
    BY <1>6 DEF Throws, CreateThrows, PatternThrows, Starting, Started
  <2> QED
    BY <1>0, <2>1 DEF WalkInv
<1>7. CASE AttachNew
  <2>1. /\ UNCHANGED <<objects, ready, at, updating>> /\ Started /\ ~Starting' /\ Attaching
        /\ Attaching' /\ mpc' # "push"
    BY <1>7 DEF AttachNew, Started, Starting, Attaching
  <2> QED
    BY <1>0, <2>1 DEF WalkInv, Listed
<1>8. CASE AttachValue
  <2>1. /\ UNCHANGED <<objects, at, updating>> /\ Started /\ ~Starting' /\ Attaching
        /\ Attaching' /\ ready' = ready \cup {Len(objects)}
    BY <1>8 DEF AttachValue, Started, Starting, Attaching
  <2>2. Listed' = Listed
    BY <2>1 DEF Listed
  <2> QED
    BY <1>0, <2>1, <2>2 DEF WalkInv
<1>9. CASE Push
  <2>1. /\ UNCHANGED <<objects, ready, at, updating>> /\ Started /\ ~Starting' /\ Attaching
        /\ ~Attaching' /\ mpc = "push" /\ mpc' # "push"
    BY <1>9 DEF Push, Started, Starting, Attaching
  <2>2. Listed = Len(objects) - 1 /\ Listed' = Len(objects) /\ Listed \in Nat
    BY <1>1, <2>1 DEF Listed
  <2>3. 1 .. Len(objects) \subseteq ready
    <3>1. 1 .. Len(objects) - 1 \subseteq ready /\ Len(objects) \in ready
      BY <1>0, <2>1, <2>2 DEF WalkInv
    <3> QED
      BY <1>1, <3>1
  <2>4. at \in 0 .. Len(objects)
    <3> HIDE DEF Listed
    <3> QED
      BY <1>0, <1>1, <2>1, <2>2 DEF WalkInv
  <2> QED
    BY <1>0, <2>1, <2>2, <2>3, <2>4 DEF WalkInv
<1>10. CASE UpdateThread
  <2>1. /\ UNCHANGED <<mpc, objects, ready, resources>> /\ Started /\ ~Starting'
    BY <1>10, WalkSteps DEF Started, Starting
  <2>2. Listed' = Listed /\ Listed \in Nat
    BY <1>1, <2>1 DEF Listed, Attaching
  <2>3. /\ resources = [i \in 1 .. Listed |-> i] /\ 1 .. Listed \subseteq ready
        /\ at \in 0 .. Listed
    BY <1>0, <2>1 DEF ListInv, WalkInv
  <2>4. /\ at' \in 0 .. Listed /\ (updating' => at' # 0)
    <3>1. CASE WalkBegin
      <4>1. resources # << >> /\ at' = Head(resources)
        BY <3>1 DEF WalkBegin
      <4>2. Listed > 0 /\ Head(resources) = 1
        BY <2>2, <2>3, <4>1
      <4> QED
        BY <2>2, <4>1, <4>2
    <3>2. CASE UpdateReturn
      BY <2>3, <3>2 DEF UpdateReturn
    <3>3. CASE WalkNext
      <4>1. at # 0 /\ at' = Successor(at) /\ (updating' = (at' # 0))
        BY <3>3 DEF WalkNext
      <4>2. at \in 1 .. Listed
        BY <2>2, <2>3, <4>1
      <4>3. at' = IF at = Listed THEN 0 ELSE at + 1
        BY <2>2, <2>3, <4>1, <4>2, SuccessorInList
      <4>4. at' \in 0 .. Listed
        BY <2>2, <4>2, <4>3
      <4>5. updating' => at' # 0
        BY <4>1, Zenon
      <4> QED
        BY <4>4, <4>5
    <3> QED
      BY <1>10, <3>1, <3>2, <3>3 DEF UpdateThread
  <2>5. updating' => at' \in ready
    BY <2>2, <2>3, <2>4
  <2> QED
    BY <1>0, <2>1, <2>2, <2>4, <2>5 DEF WalkInv
<1> QED
  BY <1>2, <1>3, <1>4, <1>5, <1>6, <1>7, <1>8, <1>9, <1>10, NextCases

\* The methods of each object are those that are configured for its path.
LEMMA MethodsStep == Inv /\ Next => MethodsInv'
<1> SUFFICES ASSUME Inv, Next, Started' PROVE MethodsInv'
  BY DEF MethodsInv
<1>0. Types /\ StartInv /\ ListInv /\ RequestInv /\ MethodsInv
  BY DEF Inv
<1>1. Len(objects) \in Nat /\ config' = config
  BY <1>0, Lengths, InitSteps, AnsweringSteps, WalkSteps, HandlingSteps, NextCases DEF AttachAll
<1>2. ASSUME NEW p, NEW m PROVE ConfiguredFor(p, m)' <=> ConfiguredFor(p, m)
  BY <1>1 DEF ConfiguredFor
<1>3. CASE InitStep \/ Throws
  BY <1>3, InitSteps DEF Throws, CreateThrows, PatternThrows, Started
<1>4. CASE AttachAll
  <2>1. Starting /\ objects' = objects
    BY <1>4 DEF AttachAll, Starting
  <2>2. objects = config.static
    BY <1>0, <2>1 DEF StartInv
  <2>3. \A i \in 1 .. Len(objects) : \A m \in Methods :
          m \in objects[i].methods <=> ConfiguredFor(objects[i].path, m)
    BY <1>0, <2>2, StaticConfigured, StaticPaths
  <2> QED
    BY <1>2, <2>1, <2>3 DEF MethodsInv
<1>5. CASE Create
  <2> DEFINE p == request.path
             new == [path |-> p, methods |-> config.dynamic[PatternOf(p)].methods]
  <2>1. mpc = "create" /\ Started /\ objects' = Append(objects, new)
    BY <1>5 DEF Create, Started
  <2>2. p \in Paths /\ table[p] = 0 /\ Matching(p) # {}
    BY <1>0, <2>1 DEF Types, Requests, RequestInv
  <2>3. \A i \in DOMAIN config.static : config.static[i].path # p
    BY <2>1, <2>2, Static
  <2>4. \A m \in Methods : m \in new.methods <=> ConfiguredFor(new.path, m)
    <3> HIDE DEF p
    <3> QED
      BY <1>0, <2>2, <2>3, DynamicConfigured
  <2> HIDE DEF new
  <2>5. /\ Len(objects') = Len(objects) + 1
        /\ \A i \in 1 .. Len(objects) : objects'[i] = objects[i]
        /\ objects'[Len(objects')] = new
    BY <1>0, <2>1 DEF Types
  <2>6. ASSUME NEW i \in 1 .. Len(objects'), NEW m \in Methods
        PROVE  m \in objects'[i].methods <=> ConfiguredFor(objects'[i].path, m)
    <3>1. CASE i = Len(objects')
      BY <2>4, <2>5, <3>1
    <3>2. CASE i # Len(objects')
      <4>1. i \in 1 .. Len(objects) /\ objects'[i] = objects[i]
        BY <1>1, <2>5, <3>2
      <4> QED
        BY <1>0, <2>1, <4>1 DEF MethodsInv
    <3> QED
      BY <3>1, <3>2
  <2> QED
    BY <1>2, <2>6 DEF MethodsInv
<1>6. CASE Answering \/ GoodMethod \/ AttachNew \/ AttachValue \/ Push \/ Forward \/ UpdateThread
  <2>1. Started /\ objects' = objects
    BY <1>6, AnsweringSteps, WalkSteps DEF GoodMethod, AttachNew, AttachValue, Push, Forward,
       Started
  <2> QED
    BY <1>0, <1>2, <2>1 DEF MethodsInv
<1> QED
  BY <1>3, <1>4, <1>5, <1>6, NextCases

\* The last answer.
LEMMA ReplyStep == Inv /\ Next => ReplyInv'
<1> SUFFICES ASSUME Inv, Next PROVE ReplyInv'
  OBVIOUS
<1>0. Types /\ ListInv /\ TableInv /\ RequestInv /\ MethodsInv /\ ReplyInv
  BY DEF Inv
<1>1. Len(objects) \in Nat /\ config' = config
  BY <1>0, Lengths, InitSteps, AnsweringSteps, WalkSteps, HandlingSteps, NextCases DEF AttachAll
<1>2. \A p, m : ConfiguredFor(p, m)' <=> ConfiguredFor(p, m)
  BY <1>1 DEF ConfiguredFor
<1>3. CASE reply.code = "none" /\ reply' = reply
  BY <1>3 DEF ReplyInv
<1>4. CASE mpc = "loop" /\ UNCHANGED <<mpc, objects, request, reply>>
  <2>1. reply.code = "none" \/ AnswersByConfiguration
    BY <1>0 DEF ReplyInv
  <2>2. AnswersByConfiguration => AnswersByConfiguration'
    BY <1>2, <1>4 DEF AnswersByConfiguration
  <2> QED
    BY <1>4, <2>1, <2>2 DEF ReplyInv
<1>5. CASE Known
  <2> DEFINE p == request'.path
             m == request'.method
             i == table[p]
  <2>1. /\ mpc' = "loop" /\ Started /\ objects' = objects /\ p \in Paths /\ m \in Methods
        /\ mpc = "loop" /\ i # 0
        /\ reply' = IF m \in objects[i].methods THEN [code |-> "handled", from |-> i]
                    ELSE [code |-> "4.05", from |-> 0]
    BY <1>5 DEF Known, Requests, Started, Answer
  <2>2. i \in 1 .. Len(objects) /\ objects[i].path = p
    BY <1>0, <2>1 DEF TableInv
  <2>3. m \in objects[i].methods <=> ConfiguredFor(p, m)
    <3> HIDE DEF i, p, m
    <3> QED
      BY <1>0, <2>1, <2>2 DEF MethodsInv
  <2>4. ConfiguredFor(request.path, request.method)' <=> ConfiguredFor(p, m)
    BY <1>1 DEF ConfiguredFor
  <2>5. CASE m \in objects[i].methods
    BY <2>1, <2>2, <2>3, <2>4, <2>5 DEF ReplyInv, AnswersByConfiguration
  <2>6. CASE m \notin objects[i].methods
    BY <2>1, <2>2, <2>3, <2>4, <2>6 DEF ReplyInv, AnswersByConfiguration
  <2> QED
    BY <2>5, <2>6
<1>6. CASE NoPattern \/ BadMethod
  <2> DEFINE p == request'.path
             m == request'.method
  <2>1. /\ mpc' = "loop" /\ mpc = "loop" /\ Started /\ p \in Paths /\ m \in Methods
        /\ table[p] = 0 /\ reply'.code \in {"4.04", "4.05"}
        /\ Matching(p) # {} => m \notin config.dynamic[PatternOf(p)].methods
    BY <1>6 DEF NoPattern, BadMethod, Requests, Started, Answer
  <2>2. \A i \in DOMAIN config.static : config.static[i].path # p
    BY <2>1, Static
  <2>3. ~ConfiguredFor(p, m)
    <3> HIDE DEF p, m
    <3> QED
      BY <1>0, <2>1, <2>2, DynamicConfigured
  <2>4. ConfiguredFor(request.path, request.method)' <=> ConfiguredFor(p, m)
    BY <1>1 DEF ConfiguredFor
  <2> QED
    BY <2>1, <2>3, <2>4 DEF ReplyInv, AnswersByConfiguration
<1>7. CASE GoodMethod \/ PatternThrows
  BY <1>7 DEF GoodMethod, PatternThrows, ReplyInv, NoReply
<1>8. CASE Forward
  <2>1. /\ mpc = "forward" /\ mpc' = "loop" /\ UNCHANGED <<objects, request>> /\ Started
        /\ reply' = [code |-> "handled", from |-> Len(objects)]
    BY <1>8 DEF Forward, Answer, Started
  <2>2. ConfiguredFor(request.path, request.method)
    BY <1>0, <2>1 DEF RequestInv, Handling
  <2>3. objects[Len(objects)].path = request.path
    BY <1>0, <2>1 DEF ListInv, Constructed
  <2>4. ConfiguredFor(request.path, request.method)'
    BY <1>1, <2>1, <2>2 DEF ConfiguredFor
  <2> QED
    BY <2>1, <2>3, <2>4 DEF ReplyInv, AnswersByConfiguration
<1>9. CASE InitStep \/ AttachAll \/ Create \/ CreateThrows \/ AttachNew \/ AttachValue \/ Push
  <2>1. mpc # "loop" /\ reply' = reply
    BY <1>9, InitSteps DEF AttachAll, Create, CreateThrows, AttachNew, AttachValue, Push
  <2> QED
    BY <1>0, <1>3, <2>1 DEF ReplyInv
<1>10. CASE UpdateThread
  BY <1>0, <1>3, <1>4, <1>10, WalkSteps DEF ReplyInv
<1> QED
  BY <1>5, <1>6, <1>7, <1>8, <1>9, <1>10, NextCases DEF Answering, Throws

LEMMA Invariant == Spec => []Inv
<1>1. Init => Inv
  BY InitInv
<1>2. Inv /\ [Next]_vars => Inv'
  <2>1. CASE Next
    BY <2>1, TypesStep, SetupStep, StartStep, ListStep, TableStep, RequestStep, WalkStep,
       MethodsStep, ReplyStep DEF Inv
  <2>2. ASSUME Inv, UNCHANGED vars PROVE Inv'
    <3>1. UNCHANGED <<config, mpc, ret, address, ctx, pki, endp, objects, table, resources,
                      ready, request, reply, at, updating>>
      BY <2>2 DEF vars
    <3>2. Types' /\ SetupInv' /\ StartInv'
      BY <2>2, <3>1 DEF Inv, Types, ObjectSet, PatternOf, Matching, SetupInv, StartInv,
         Starting, Started
    <3>3. ListInv' /\ TableInv'
      BY <2>2, <3>1 DEF Inv, ListInv, TableInv, Started, Listed, Attaching, Constructed
    <3>4. RequestInv' /\ WalkInv'
      BY <2>2, <3>1 DEF Inv, RequestInv, WalkInv, Starting, Started, Listed, Attaching,
         Handling, ConfiguredFor, Matching
    <3>5. MethodsInv' /\ ReplyInv'
      BY <2>2, <3>1 DEF Inv, MethodsInv, ReplyInv, AnswersByConfiguration, ConfiguredFor, Started
    <3> QED
      BY <3>2, <3>3, <3>4, <3>5 DEF Inv
  <2> QED
    BY <2>1, <2>2
<1> QED
  BY <1>1, <1>2, PTL DEF Spec

----------------------------------------------------------------------------
(* Types.  The objects are as many as their paths, which are all different; *)
(* an index of an object that is kept anywhere stays one.                   *)

ServerObjects == [path : Paths, methods : SUBSET Methods]

Bounded ==
  /\ address \in {"?", "address", "none", "error"}
  /\ objects \in Seq(ServerObjects)
  /\ \A i, j \in 1 .. Len(objects) : objects[i].path = objects[j].path => i = j
  /\ table \in [Paths -> 0 .. Len(objects)]
  /\ resources \in Seq(0 .. Len(objects))
  /\ ready \subseteq 0 .. Len(objects)
  /\ reply \in [code : {"none", "handled", "4.04", "4.05"}, from : 0 .. Len(objects)]
  /\ at \in 0 .. Len(objects)
  /\ updated \subseteq 0 .. Len(objects)

LEMMA SeqOfLarger ==
  ASSUME NEW m \in Nat, NEW n \in Nat, m <= n, NEW s \in Seq(0 .. m)
  PROVE  s \in Seq(0 .. n)
<1>1. 0 .. m \subseteq 0 .. n
  OBVIOUS
<1> QED
  BY <1>1

LEMMA InitBounded == Init => Bounded
<1> SUFFICES ASSUME Init PROVE Bounded
  OBVIOUS
<1>1. Types
  BY InitInv DEF Inv
<1>2. /\ objects = config.static /\ Len(objects) \in {0, 1} /\ DOMAIN objects = 1 .. Len(objects)
      /\ resources = [i \in 1 .. Len(objects) |-> i]
  BY <1>1, StaticPaths DEF Init
<1>3. objects \in Seq(ServerObjects)
  <2>1. StaticConfigs \subseteq ServerObjects
    BY DEF StaticConfigs, ServerObjects, Methods
  <2> QED
    BY <1>1, <1>2, <2>1, StaticPaths
<1>4. \A i, j \in 1 .. Len(objects) : i = j
  <2>1. CASE Len(objects) = 0
    BY <2>1
  <2>2. CASE Len(objects) = 1
    BY <2>2
  <2> QED
    BY <1>2, <2>1, <2>2
<1>5. resources \in Seq(0 .. Len(objects))
  BY <1>2
<1>6. reply \in [code : {"none", "handled", "4.04", "4.05"}, from : 0 .. Len(objects)]
  BY <1>2 DEF Init, NoReply
<1>7. table \in [Paths -> 0 .. Len(objects)] /\ at \in 0 .. Len(objects)
  BY <1>2 DEF Init
<1> QED
  BY <1>3, <1>4, <1>5, <1>6, <1>7 DEF Init, Bounded

\* A new object has a path of its own, and the methods of its pattern.
LEMMA CreatedObject ==
  ASSUME Inv, Bounded, Create
  PROVE  /\ Len(objects') = Len(objects) + 1 /\ objects' \in Seq(ServerObjects)
         /\ \A i, j \in 1 .. Len(objects') : objects'[i].path = objects'[j].path => i = j
<1> DEFINE new == [path |-> request.path,
                   methods |-> config.dynamic[PatternOf(request.path)].methods]
<1>0. /\ Types /\ TableInv /\ RequestInv /\ Started /\ mpc = "create"
      /\ objects \in Seq(ServerObjects) /\ Len(objects) \in Nat
  BY DEF Inv, Create, Started, Bounded, Types
<1>1. request.path \in Paths /\ table[request.path] = 0 /\ Matching(request.path) # {}
  BY <1>0 DEF Types, Requests, RequestInv
<1>2. new.methods \in SUBSET Methods
  <2>1. PICK n \in 0 .. MaxPatterns : config.dynamic \in [1 .. n -> DynamicConfigs \cup {Malformed}]
    BY <1>0 DEF Types, Configs
  <2>2. PatternOf(request.path) \in DOMAIN config.dynamic
    BY <1>0, <1>1, PatternIsFirst
  <2>3. config.dynamic[PatternOf(request.path)] \in DynamicConfigs \cup {Malformed}
    BY <2>1, <2>2
  <2> QED
    BY <2>3 DEF DynamicConfigs, Malformed, Methods
<1>3. new \in ServerObjects /\ new.path = request.path
  BY <1>1, <1>2 DEF ServerObjects
<1>4. objects' = Append(objects, new)
  BY DEF Create
<1> HIDE DEF new
<1>5. /\ objects' \in Seq(ServerObjects) /\ Len(objects') = Len(objects) + 1
      /\ objects'[Len(objects) + 1] = new
      /\ \A i \in 1 .. Len(objects) : objects'[i] = objects[i]
  BY <1>0, <1>3, <1>4
<1>6. \A i \in 1 .. Len(objects) : objects[i].path # request.path
  BY <1>0, <1>1 DEF TableInv
<1>7. \A i \in 1 .. Len(objects') : i \in 1 .. Len(objects) \/ i = Len(objects) + 1
  BY <1>0, <1>5
<1>8. \A i, j \in 1 .. Len(objects) : objects[i].path = objects[j].path => i = j
  BY DEF Bounded
<1> QED
  BY <1>3, <1>5, <1>6, <1>7, <1>8

LEMMA BoundedStep == Inv /\ Bounded /\ Next => Bounded'
<1> SUFFICES ASSUME Inv, Bounded, Next PROVE Bounded'
  OBVIOUS
<1>0. Types /\ StartInv /\ ListInv /\ WalkInv /\ Len(objects) \in Nat
  BY DEF Inv, Types
<1>1. CASE InitStep
  <2>1. address' \in {"?", "address", "none", "error"}
    BY <1>1 DEF InitStep, Resolve, SecurityFails, SecurityReachesContext, Endpoint, InitFails,
       Bounded
  <2> QED
    BY <1>1, <2>1, InitSteps DEF Bounded
<1>2. CASE AttachAll
  <2>1. ToSet(resources) \subseteq 0 .. Len(objects)
    BY DEF Bounded, ToSet
  <2>2. table' \in [Paths -> 0 .. Len(objects)] /\ ready' \subseteq 0 .. Len(objects)
    BY <1>0, <1>2, <2>1 DEF AttachAll
  <2> QED
    BY <1>2, <2>2 DEF AttachAll, Bounded
<1>3. CASE Answering
  <2>1. reply' \in [code : {"none", "handled", "4.04", "4.05"}, from : 0 .. Len(objects)]
    <3>1. CASE Known
      <4>1. request'.path \in Paths
        BY <3>1 DEF Known, Requests
      <4>2. table[request'.path] \in 0 .. Len(objects)
        BY <4>1 DEF Bounded
      <4> QED
        BY <1>0, <3>1, <4>2 DEF Known, Answer
    <3>2. CASE NoPattern \/ BadMethod
      BY <1>0, <3>2 DEF NoPattern, BadMethod, Answer
    <3> QED
      BY <1>3, <3>1, <3>2 DEF Answering
  <2> QED
    BY <1>3, <2>1, AnsweringSteps DEF Bounded
<1>4. CASE GoodMethod \/ Throws
  <2>1. reply' \in [code : {"none", "handled", "4.04", "4.05"}, from : 0 .. Len(objects)]
    BY <1>0, <1>4 DEF GoodMethod, Throws, CreateThrows, PatternThrows, NoReply, Bounded
  <2> QED
    BY <1>4, <2>1, HandlingSteps DEF Bounded
<1>5. CASE Create
  <2>1. /\ Len(objects') = Len(objects) + 1 /\ objects' \in Seq(ServerObjects)
        /\ \A i, j \in 1 .. Len(objects') : objects'[i].path = objects'[j].path => i = j
    BY <1>5, CreatedObject
  <2>2. 0 .. Len(objects) \subseteq 0 .. Len(objects')
    BY <1>0, <2>1
  <2>3. resources \in Seq(0 .. Len(objects'))
    BY <1>0, <2>1, SeqOfLarger DEF Bounded
  <2>4. table \in [Paths -> 0 .. Len(objects')]
    BY <2>2 DEF Bounded
  <2>5. reply \in [code : {"none", "handled", "4.04", "4.05"}, from : 0 .. Len(objects')]
    BY <2>2 DEF Bounded
  <2> QED
    BY <1>5, <2>1, <2>2, <2>3, <2>4, <2>5, HandlingSteps DEF Bounded
<1>6. CASE AttachNew
  <2>1. table' \in [Paths -> 0 .. Len(objects)]
    <3>1. Len(objects) \in 0 .. Len(objects)
      BY <1>0
    <3>2. table' = [table EXCEPT ![request.path] = Len(objects)]
      BY <1>6 DEF AttachNew
    <3>3. table \in [Paths -> 0 .. Len(objects)]
      BY DEF Bounded
    <3> QED
      BY <3>1, <3>2, <3>3
  <2> QED
    BY <1>6, <2>1, HandlingSteps DEF Bounded
<1>7. CASE AttachValue \/ Push \/ Forward
  <2>1. Len(objects) \in 0 .. Len(objects)
    BY <1>0
  <2>2. ready' \subseteq 0 .. Len(objects) /\ resources' \in Seq(0 .. Len(objects))
    <3>1. ready \subseteq 0 .. Len(objects) /\ resources \in Seq(0 .. Len(objects))
      BY DEF Bounded
    <3>2. CASE AttachValue
      BY <2>1, <3>1, <3>2 DEF AttachValue
    <3>3. CASE Push
      <4>1. resources' = Append(resources, Len(objects)) /\ ready' = ready
        BY <3>3 DEF Push
      <4> QED
        BY <2>1, <3>1, <4>1
    <3>4. CASE Forward
      BY <3>1, <3>4, HandlingSteps
    <3> QED
      BY <1>7, <3>2, <3>3, <3>4
  <2>3. reply' \in [code : {"none", "handled", "4.04", "4.05"}, from : 0 .. Len(objects)]
    BY <1>7, <2>1 DEF AttachValue, Push, Forward, Answer, Bounded
  <2> QED
    BY <1>7, <2>2, <2>3, HandlingSteps DEF Bounded
<1>8. CASE UpdateThread
  <2>1. Started /\ Listed \in Nat /\ Listed <= Len(objects)
    BY <1>0, <1>8, WalkSteps, Lengths DEF Listed
  <2>2. at' \in 0 .. Len(objects) /\ updated' \subseteq 0 .. Len(objects)
    <3>1. CASE WalkBegin \/ WalkNext
      <4>1. UNCHANGED <<mpc, objects>>
        BY <1>8, WalkSteps
      <4>2. Started' /\ Listed' = Listed
        BY <2>1, <4>1 DEF Started, Listed, Attaching
      <4>3. at' \in 0 .. Listed
        BY <1>8, <4>2, WalkStep, NextCases DEF WalkInv
      <4>4. at' \in 0 .. Len(objects)
        <5> HIDE DEF Listed
        <5> QED
          BY <1>0, <2>1, <4>3
      <4>5. updated' = updated
        BY <3>1 DEF WalkBegin, WalkNext
      <4> QED
        BY <4>4, <4>5 DEF Bounded
    <3>2. CASE UpdateReturn
      BY <3>2 DEF UpdateReturn, Bounded
    <3> QED
      BY <1>8, <3>1, <3>2 DEF UpdateThread
  <2> QED
    BY <1>8, <2>2, WalkSteps DEF Bounded
<1> QED
  BY <1>1, <1>2, <1>3, <1>4, <1>5, <1>6, <1>7, <1>8, NextCases

----------------------------------------------------------------------------
(* Theorems *)

\* The server keeps its types; and it never has more resources than there are
\* paths, since none is created for a path that has one (CoAPServer.cpp:298-310).
THEOREM TypeCorrect == Spec => []TypeOK
<1>1. Init => Bounded
  BY InitBounded
<1>2. Inv /\ Bounded /\ [Next]_vars => Bounded'
  <2>1. ASSUME Bounded, UNCHANGED vars PROVE Bounded'
    BY <2>1 DEF Bounded, vars
  <2> QED
    BY <2>1, BoundedStep
<1>3. Inv /\ Bounded => TypeOK
  <2> SUFFICES ASSUME Inv, Bounded PROVE TypeOK
    OBVIOUS
  <2>1. Types /\ Len(objects) \in Nat
    BY DEF Inv, Types
  <2>2. Cardinality(Paths) \in Nat /\ Len(objects) <= Cardinality(Paths)
    <3> DEFINE f == [i \in 1 .. Len(objects) |-> objects[i].path]
    <3>1. f \in Injection(1 .. Len(objects), Paths)
      <4>1. \A i \in 1 .. Len(objects) : objects[i].path \in Paths
        <5>1. \A i \in 1 .. Len(objects) : objects[i] \in ServerObjects
          BY <2>1 DEF Bounded
        <5> QED
          BY <5>1 DEF ServerObjects
      <4> QED
        BY <4>1 DEF Bounded, Injection, IsInjective
    <3>2. Cardinality(1 .. Len(objects)) <= Cardinality(Paths)
      BY <3>1, FS_Injection, PathsAssumption
    <3>3. Cardinality(1 .. Len(objects)) = Len(objects)
      <4>1. 1 \in Int /\ Len(objects) \in Int
        BY <2>1
      <4>2. Cardinality(1 .. Len(objects)) = IF 1 > Len(objects) THEN 0 ELSE Len(objects) - 1 + 1
        BY <4>1, FS_Interval
      <4> QED
        BY <2>1, <4>2
    <3> QED
      BY <3>2, <3>3, FS_CardinalityType, PathsAssumption
  <2>3. 0 .. Len(objects) \subseteq Objects
    BY <2>1, <2>2 DEF Objects
  <2>4. Len(objects) \in Objects
    BY <2>1, <2>2 DEF Objects
  <2>5. resources \in Seq(Objects)
    BY <2>1, <2>2, SeqOfLarger DEF Bounded, Objects
  <2>6. reply \in [code : {"none", "handled", "4.04", "4.05"}, from : Objects]
    BY <2>3 DEF Bounded
  <2>7. /\ table \in [Paths -> Objects] /\ ready \subseteq Objects
        /\ at \in Objects /\ updated \subseteq Objects
    BY <2>3 DEF Bounded
  <2>8. ret \in 0 .. 1
    BY <2>1 DEF Types
  <2> QED
    BY <2>1, <2>4, <2>5, <2>6, <2>7, <2>8 DEF Types, Bounded, ServerObjects, TypeOK
<1> QED
  BY <1>1, <1>2, <1>3, Invariant, PTL DEF Spec

\* A server that serves has a context, an endpoint, its keys when it needs
\* them, and its configured resources, although init() goes on after most
\* failures (CoAPServer.cpp:77-107).
THEOREM ServesOnlyWhole == Spec => []ServesWhole
<1>1. Inv => ServesWhole
  <2> SUFFICES ASSUME Inv, Started PROVE ServesWhole
    BY DEF ServesWhole
  <2>1. ctx /\ endp /\ (config.secure => pki)
    BY DEF Inv, SetupInv
  <2>2. ASSUME NEW i \in DOMAIN config.static PROVE table[config.static[i].path] = i
    <3>1. Types /\ ListInv /\ TableInv
      BY DEF Inv
    <3>2. /\ i \in 1 .. Len(config.static) /\ Len(objects) \in Nat /\ Listed \in Nat
          /\ Len(config.static) \in Nat /\ Len(config.static) <= Listed
      BY <3>1, Lengths DEF ListInv
    <3>3. objects[i] = config.static[i]
      BY <3>1, <3>2 DEF ListInv
    <3>4. i \in 1 .. Len(objects) /\ (mpc = "attachNew" => i # Len(objects))
      BY <3>2 DEF Listed, Attaching
    <3> QED
      BY <3>1, <3>3, <3>4 DEF TableInv
  <2> QED
    BY <2>1, <2>2 DEF ServesWhole
<1> QED
  BY <1>1, Invariant, PTL

\* Between requests the list, the table of libcoap and the objects are the
\* same, one for a path (CoAPServer.cpp:298-310).
THEOREM OneForEachPath == Spec => []OneResourcePerPath
<1>1. Inv => OneResourcePerPath
  <2> SUFFICES ASSUME Inv, mpc = "loop" PROVE OneResourcePerPath
    BY DEF OneResourcePerPath
  <2>1. Types /\ ListInv /\ TableInv /\ Started /\ Listed = Len(objects)
    BY DEF Inv, Started, Listed, Attaching
  <2>2. resources = [i \in 1 .. Len(objects) |-> i] /\ DOMAIN objects = 1 .. Len(objects)
    BY <2>1, Lengths DEF ListInv
  <2>3. ToSet(resources) = DOMAIN objects
    BY <2>2 DEF ToSet
  <2>4. /\ \A i \in DOMAIN objects : table[objects[i].path] = i
        /\ \A p \in Paths : table[p] # 0 => objects[table[p]].path = p
    BY <2>1, <2>2 DEF TableInv
  <2> QED
    BY <2>3, <2>4 DEF OneResourcePerPath
<1> QED
  BY <1>1, Invariant, PTL

\* The value update thread never works on a resource that the main thread is
\* still attaching (CoAPServer.cpp:305-310, 373-377).
THEOREM WalksReadyOnly == Spec => []UpdatesReadyOnly
<1>1. Inv => UpdatesReadyOnly
  BY DEF Inv, WalkInv, UpdatesReadyOnly
<1> QED
  BY <1>1, Invariant, PTL

\* Whatever was asked before, a request is answered as the first pattern that
\* its path matches, or its own resource, says (CoAPServer.cpp:276-312).
THEOREM AnswersAsConfigured == Spec => []AnswersByConfiguration
<1>1. Inv => AnswersByConfiguration
  BY DEF Inv, ReplyInv, AnswersByConfiguration
<1> QED
  BY <1>1, Invariant, PTL
=============================================================================
