----------------------------- MODULE CoAPServer -----------------------------
(***************************************************************************)
(* The CoAPServer of src/CoAPServer.cpp and its list of resources:         *)
(*                                                                         *)
(*   - main() constructs it and calls init(), which resolves the address,  *)
(*     makes the context, sets up security, binds, and attaches;           *)
(*   - then libcoap, on the main thread, hands requests for a known path   *)
(*     to its Resource and all others to handleDynamicRequest(), which     *)
(*     creates the resource that the path calls for;                       *)
(*   - the value update thread walks the list of resources (valueUpdate()).*)
(*                                                                         *)
(* libcoap's table of resources and the outcomes of its calls, of the      *)
(* resolver and of the file system are external.  A regular expression is  *)
(* the set of paths that match it.                                         *)
(***************************************************************************)
EXTENDS Naturals, FiniteSets, SequencesExt

CONSTANTS
  Paths,      \* the paths that clients ask for
  MaxPatterns \* bound on the dynamic resources that are configured

ASSUME PathsAssumption == IsFiniteSet(Paths) /\ MaxPatterns \in Nat

Methods == {"GET", "PUT"}

\* opens: whether a log file that the constructor wants can be opened.
StaticConfigs == [path : Paths, methods : {{"GET"}}]
DynamicConfigs ==
  [paths : SUBSET Paths \ {{}}, methods : {{"PUT"}, Methods}, opens : BOOLEAN]

\* A configured resource whose expression std::regex does not take.
Malformed == [paths |-> {}, methods |-> {}, opens |-> FALSE]

Configs ==
  [secure : BOOLEAN,
   static : {<< >>} \cup {<<c>> : c \in StaticConfigs},
   dynamic : UNION {[1 .. n -> DynamicConfigs \cup {Malformed}] : n \in 0 .. MaxPatterns}]

VARIABLES
  config,     \* the configuration
  mpc,        \* position of the main thread
  ret,        \* init()'s ret
  address,    \* what the resolver found: "?", "address", "none", "error"
  ctx,        \* whether the context exists
  pki,        \* whether it has keys
  endp,       \* whether it is bound
  objects,    \* the Resource objects, in the order of construction
  table,      \* libcoap: the object attached for each path, or 0
  resources,  \* the list of resources
  ready,      \* history: the objects whose attach() is complete
  request,    \* the request that is being handled
  reply,      \* the last answer, with its request and the object it is from
  at,         \* the value update thread's iterator, 0 at the end
  updating,   \* whether it is inside (*it)->valueUpdate()
  updated     \* history: the objects it has updated

setupVars == <<ret, address, ctx, pki, endp>>
resourceVars == <<objects, table, resources, ready>>
requestVars == <<request, reply>>
walkVars == <<at, updating, updated>>
vars == <<config, mpc, setupVars, resourceVars, requestVars, walkVars>>

Requests == [path : Paths, method : Methods]
NoReply == [code |-> "none", from |-> 0]

\* The constructor, where it does not throw, makes the resources that are
\* not dynamic.
Init ==
  /\ config \in Configs
  /\ mpc = "resolve"
  /\ ret = 0 /\ address = "?" /\ ctx = FALSE /\ pki = FALSE /\ endp = FALSE
  /\ objects = config.static
  /\ resources = [i \in DOMAIN config.static |-> i]
  /\ table = [p \in Paths |-> 0]
  /\ ready = {}
  /\ request \in Requests
  /\ reply = NoReply
  /\ at = 0 /\ updating = FALSE /\ updated = {}

Matching(p) == {i \in DOMAIN config.dynamic : p \in config.dynamic[i].paths}

\* The expressions are compiled one by one, up to the first that matches.
Compiles(p) ==
  \A i \in DOMAIN config.dynamic :
    config.dynamic[i] = Malformed => \E j \in 1 .. i - 1 : p \in config.dynamic[j].paths

\* A mistake a change could make: the last match wins.
PatternOfLast(p) == CHOOSE i \in Matching(p) : \A j \in Matching(p) : i >= j

\* The configured pattern that a path calls for: the first one it matches.
PatternOf(p) == CHOOSE i \in Matching(p) : \A j \in Matching(p) : i <= j

----------------------------------------------------------------------------
(* Mistakes a change of the code could make.  No specification uses them:  *)
(* each replaces one definition below to show which property notices it.   *)

EndpointAnyway ==
  /\ mpc = "endpoint"
  /\ endp' \in {FALSE, ctx}
  /\ ret' = IF endp' THEN 0 ELSE 1
  /\ mpc' = "attach"
  /\ UNCHANGED <<config, address, ctx, pki, resourceVars, requestVars, walkVars>>

PushOnly ==
  /\ mpc = "push"
  /\ mpc' = "forward"
  /\ UNCHANGED <<config, setupVars, resourceVars, requestVars, walkVars>>

CreateAndPush ==
  /\ mpc = "create"
  /\ config.dynamic[PatternOf(request.path)].opens
  /\ objects' = Append(objects, [path |-> request.path,
                       methods |-> config.dynamic[PatternOf(request.path)].methods])
  /\ resources' = Append(resources, Len(objects) + 1)
  /\ mpc' = "attachNew"
  /\ UNCHANGED <<config, setupVars, table, ready, requestVars, walkVars>>

CreateTwice ==
  /\ mpc = "create"
  /\ config.dynamic[PatternOf(request.path)].opens
  /\ LET new == [path |-> request.path,
                 methods |-> config.dynamic[PatternOf(request.path)].methods]
     IN  objects' = objects \o <<new, new>>
  /\ mpc' = "attachNew"
  /\ UNCHANGED <<config, setupVars, table, resources, ready, requestVars, walkVars>>

SuccessorButLast(i) ==
  LET next == CHOOSE k \in 1 .. Len(resources) : resources[k] = i
  IN  IF next + 1 >= Len(resources) THEN 0 ELSE resources[next + 1]

----------------------------------------------------------------------------
(* init() *)

\* resolveAddress() returns the size of the address, 0 if there was none, or
\* the error of the resolver, which is not 0 either.
ReturnsZero(found) == found = "none"

\* init() takes 0 for a failure.
Resolve ==
  /\ mpc = "resolve"
  /\ address' \in {"address", "none", "error"}
  /\ ctx' \in IF ReturnsZero(address') THEN {FALSE} ELSE BOOLEAN
  /\ ret' = IF ctx' THEN 0 ELSE 1
  /\ mpc' = IF config.secure THEN "security" ELSE "endpoint"
  /\ UNCHANGED <<config, pki, endp, resourceVars, requestVars, walkVars>>

\* setupSecurity() fails over a key or a file, or reaches the context.
SecurityFails ==
  /\ mpc = "security"
  /\ ret' = 1
  /\ mpc' = "endpoint"
  /\ UNCHANGED <<config, address, ctx, pki, endp, resourceVars, requestVars, walkVars>>

SecurityReachesContext ==
  /\ mpc = "security"
  /\ pki' = ctx
  /\ mpc' = IF ctx THEN "endpoint" ELSE "terminated"
  /\ UNCHANGED <<config, ret, address, ctx, endp, resourceVars, requestVars, walkVars>>

\* Whether an address can be bound, also one that was not resolved, is left
\* to libcoap.
Endpoint ==
  /\ mpc = "endpoint"
  /\ endp' \in IF ret = 0 THEN BOOLEAN ELSE {FALSE}
  /\ ret' = IF endp' THEN 0 ELSE 1
  /\ mpc' = "attach"
  /\ UNCHANGED <<config, address, ctx, pki, resourceVars, requestVars, walkVars>>

\* The configured resources, in turn; then the other threads start.
AttachAll ==
  /\ mpc = "attach" /\ ret = 0
  /\ table' = [p \in Paths |->
                 IF \E i \in ToSet(resources) : objects[i].path = p
                 THEN CHOOSE i \in ToSet(resources) : objects[i].path = p ELSE 0]
  /\ ready' = ToSet(resources)
  /\ mpc' = "loop"
  /\ UNCHANGED <<config, setupVars, objects, resources, requestVars, walkVars>>

InitFails ==
  /\ mpc = "attach" /\ ret # 0
  /\ mpc' = "failed"
  /\ UNCHANGED <<config, setupVars, resourceVars, requestVars, walkVars>>

----------------------------------------------------------------------------
(* libcoap finds who handles a request *)

Answer(code, from) ==
  reply' = [code |-> code, from |-> from]

Known ==
  /\ mpc = "loop"
  /\ request' \in Requests
  /\ LET i == table[request'.path]
     IN  /\ i # 0
         /\ IF request'.method \in objects[i].methods
            THEN Answer("handled", i) ELSE Answer("4.05", 0)
  /\ UNCHANGED <<config, mpc, setupVars, resourceVars, walkVars>>

----------------------------------------------------------------------------
(* handleDynamicRequest() *)

\* std::regex throws on an expression that is malformed, and nobody catches it.
PatternThrows ==
  /\ mpc = "loop"
  /\ request' \in Requests
  /\ table[request'.path] = 0
  /\ ~Compiles(request'.path)
  /\ reply' = NoReply
  /\ mpc' = "terminated"
  /\ UNCHANGED <<config, setupVars, resourceVars, walkVars>>

NoPattern ==
  /\ mpc = "loop"
  /\ request' \in Requests
  /\ table[request'.path] = 0
  /\ Compiles(request'.path) /\ Matching(request'.path) = {}
  /\ Answer("4.04", 0)
  /\ UNCHANGED <<config, mpc, setupVars, resourceVars, walkVars>>

BadMethod ==
  /\ mpc = "loop"
  /\ request' \in Requests
  /\ table[request'.path] = 0
  /\ Compiles(request'.path) /\ Matching(request'.path) # {}
  /\ request'.method \notin config.dynamic[PatternOf(request'.path)].methods
  /\ Answer("4.05", 0)
  /\ UNCHANGED <<config, mpc, setupVars, resourceVars, walkVars>>

GoodMethod ==
  /\ mpc = "loop"
  /\ request' \in Requests
  /\ table[request'.path] = 0
  /\ Compiles(request'.path) /\ Matching(request'.path) # {}
  /\ request'.method \in config.dynamic[PatternOf(request'.path)].methods
  /\ reply' = NoReply
  /\ mpc' = "create"
  /\ UNCHANGED <<config, setupVars, resourceVars, walkVars>>

Create ==
  /\ mpc = "create"
  /\ config.dynamic[PatternOf(request.path)].opens
  /\ objects' = Append(objects, [path |-> request.path,
                       methods |-> config.dynamic[PatternOf(request.path)].methods])
  /\ mpc' = "attachNew"
  /\ UNCHANGED <<config, setupVars, table, resources, ready, requestVars, walkVars>>

\* The constructor throws, and nobody catches it.
CreateThrows ==
  /\ mpc = "create"
  /\ ~config.dynamic[PatternOf(request.path)].opens
  /\ mpc' = "terminated"
  /\ UNCHANGED <<config, setupVars, resourceVars, requestVars, walkVars>>

\* attach(): the table first, then the value.
AttachNew ==
  /\ mpc = "attachNew"
  /\ table' = [table EXCEPT ![request.path] = Len(objects)]
  /\ mpc' = "attachValue"
  /\ UNCHANGED <<config, setupVars, objects, resources, ready, requestVars, walkVars>>

AttachValue ==
  /\ mpc = "attachValue"
  /\ ready' = ready \cup {Len(objects)}
  /\ mpc' = "push"
  /\ UNCHANGED <<config, setupVars, objects, table, resources, requestVars, walkVars>>

Push ==
  /\ mpc = "push"
  /\ resources' = Append(resources, Len(objects))
  /\ mpc' = "forward"
  /\ UNCHANGED <<config, setupVars, objects, table, ready, requestVars, walkVars>>

Forward ==
  /\ mpc = "forward"
  /\ Answer("handled", Len(objects))
  /\ mpc' = "loop"
  /\ UNCHANGED <<config, setupVars, resourceVars, request, walkVars>>

----------------------------------------------------------------------------
(* valueUpdate(), on the thread that main() starts after init() *)

Started == mpc \notin {"resolve", "security", "endpoint", "attach", "failed", "terminated"}

Successor(i) ==
  LET next == CHOOSE k \in 1 .. Len(resources) : resources[k] = i
  IN  IF next = Len(resources) THEN 0 ELSE resources[next + 1]

WalkBegin ==
  /\ Started /\ at = 0 /\ resources # << >>
  /\ at' = Head(resources) /\ updating' = TRUE
  /\ UNCHANGED <<config, mpc, setupVars, resourceVars, requestVars, updated>>

UpdateReturn ==
  /\ Started /\ updating
  /\ updating' = FALSE
  /\ updated' = updated \cup {at}
  /\ UNCHANGED <<config, mpc, setupVars, resourceVars, requestVars, at>>

WalkNext ==
  /\ Started /\ at # 0 /\ ~updating
  /\ at' = Successor(at) /\ updating' = (at' # 0)
  /\ UNCHANGED <<config, mpc, setupVars, resourceVars, requestVars, updated>>

----------------------------------------------------------------------------
Startup ==
  \/ Resolve
  \/ SecurityFails \/ SecurityReachesContext
  \/ Endpoint
  \/ AttachAll \/ InitFails

Arrival == Known \/ PatternThrows \/ NoPattern \/ BadMethod \/ GoodMethod

DynamicRequest == Create \/ CreateThrows \/ AttachNew \/ AttachValue \/ Push \/ Forward

UpdateThread == WalkBegin \/ UpdateReturn \/ WalkNext

Next == Startup \/ Arrival \/ DynamicRequest \/ UpdateThread

Spec == Init /\ [][Next]_vars

\* Both threads run; no client need send a request.
Fairness ==
  /\ WF_vars(Startup)
  /\ WF_vars(DynamicRequest)
  /\ WF_vars(UpdateThread)

FairSpec == Spec /\ Fairness

----------------------------------------------------------------------------
(* Properties *)

Objects == 0 .. Cardinality(Paths)

\* Types of the server's members and of init()'s locals.
TypeOK ==
  /\ config \in Configs
  /\ mpc \in {"resolve", "security", "endpoint", "attach", "failed", "loop",
              "create", "attachNew", "attachValue", "push", "forward", "terminated"}
  /\ ret \in 0 .. 1 /\ address \in {"?", "address", "none", "error"}
  /\ ctx \in BOOLEAN /\ pki \in BOOLEAN /\ endp \in BOOLEAN
  /\ objects \in Seq([path : Paths, methods : SUBSET Methods])
  /\ Len(objects) \in Objects
  /\ table \in [Paths -> Objects]
  /\ resources \in Seq(Objects) /\ ready \subseteq Objects
  /\ request \in Requests
  /\ reply \in [code : {"none", "handled", "4.04", "4.05"}, from : Objects]
  /\ at \in Objects /\ updating \in BOOLEAN /\ updated \subseteq Objects

\* A server that serves is whole: it has a context, an endpoint, its keys when
\* it needs them, and its resources, although init() goes on after most
\* failures (CoAPServer.cpp:77-107).
ServesWhole ==
  Started =>
    /\ ctx /\ endp
    /\ config.secure => pki
    /\ \A i \in DOMAIN config.static : table[config.static[i].path] = i

\* Between requests, the list of resources that is walked and freed, the
\* table of libcoap and the objects are the same, one for a path: no request
\* creates a resource again or loses one (CoAPServer.cpp:298-310).
OneResourcePerPath ==
  mpc = "loop" =>
    /\ ToSet(resources) = DOMAIN objects
    /\ \A i \in DOMAIN objects : table[objects[i].path] = i
    /\ \A p \in Paths : table[p] # 0 => objects[table[p]].path = p

\* The value update thread never works on a resource that the main thread is
\* still attaching (CoAPServer.cpp:305-310, Resource.cpp:98-105).
UpdatesReadyOnly == updating => at \in ready

\* The owner of a path is configured, not a matter of what was asked before:
\* creating a resource on the fly changes no answer (CoAPServer.cpp:276-312).
ConfiguredFor(p, m) ==
  \/ \E i \in DOMAIN config.static :
       config.static[i].path = p /\ m \in config.static[i].methods
  \/ /\ \A i \in DOMAIN config.static : config.static[i].path # p
     /\ \E i \in DOMAIN config.dynamic :
          /\ p \in config.dynamic[i].paths /\ m \in config.dynamic[i].methods
          /\ \A j \in 1 .. i - 1 : p \notin config.dynamic[j].paths
AnswersByConfiguration ==
  /\ reply.code = "handled" => /\ ConfiguredFor(request.path, request.method)
                               /\ objects[reply.from].path = request.path
  /\ reply.code \in {"4.04", "4.05"} => ~ConfiguredFor(request.path, request.method)

\* Every resource that a path leads to gets its data file looked at, also
\* when it came while the list was walked (CoAPServer.cpp:373-377).
EachIsUpdated ==
  \A p \in Paths, i \in Objects \ {0} :
    table[p] = i ~> (i \in updated \/ mpc = "terminated")
=============================================================================
