------------------------------ MODULE Startup ------------------------------
(***************************************************************************)
(* From the command line and the configuration file to the resources, and  *)
(* from a payload to its log entry:                                        *)
(*                                                                         *)
(*   - main() of src/main.cpp up to the construction of the server;        *)
(*   - the constructors of src/Config.cpp, one key of the document per     *)
(*     step, and GenerateResources() for each template instance;           *)
(*   - the constructor of CoAPServer and those of its resources;           *)
(*   - the configuration that handleDynamicRequest() makes for a path;     *)
(*   - the formatters of a method without a command (commands are in       *)
(*     CommandRunner, init() and the choice of a resource in CoAPServer).  *)
(*                                                                         *)
(* A key of a JSON object that may be missing or of a wrong type is a set: *)
(* empty, or the value.  Files and regular expressions are external.       *)
(***************************************************************************)
EXTENDS Integers, Templates, Formatters

CONSTANTS
  CommandLines,  \* records [line, file, port, address, logDir]
  Documents,     \* contents of the configuration file
  Supported,     \* the protocols libcoap was built for
  Unwritable,    \* the files, <<directory, name>>, that cannot be opened
  PortNumber,    \* external: the number with which a text begins, if any (std::stoi)
  Matches(_),    \* external: the paths, with groups, that an expression matches
  Payloads,      \* what clients send
  MaxCreated     \* bound on the resources created on the fly

IsSequence(s) == s \in Seq(ToSet(s))
AtMostOne(key) == \A v, w \in key : v = w

MethodGiven(json) ==
  /\ \A c \in json.cmd : IsSequence(c)
  /\ \A f \in json.format : IsSequence(f) /\ \A i \in DOMAIN f : IsSequence(f[i])
ResourceGiven(json) ==
  /\ \A t \in json.path \cup json.name \cup json.value \cup json.logFile \cup json.dataFile :
       IsSequence(t)
  /\ \A ms \in json.methods : \A i \in DOMAIN ms : MethodGiven(ms[i])
MatchGiven(match) ==
  /\ IsSequence(match.path) /\ IsSequence(match.groups)
  /\ \A n \in DOMAIN match.groups : IsSequence(match.groups[n])
TemplateGiven(json) ==
  /\ AtMostOne(json.ident) /\ AtMostOne(json.resources)
  /\ \A rs \in json.resources :
       IsSequence(rs) /\ \A i \in DOMAIN rs : ResourceGiven(rs[i])
InstanceGiven(json) ==
  /\ AtMostOne(json.template) /\ AtMostOne(json.args)
  /\ \A args \in json.args : \A n \in DOMAIN args : IsSequence(args[n])

\* JSON arrays and texts are sequences, a key has at most one value, and
\* payloads are bytes.
ASSUME InputsAssumption ==
  /\ \A d \in Documents :
       /\ IsSequence(d.resources) /\ IsSequence(d.templates) /\ IsSequence(d.instances)
       /\ \A k \in DOMAIN d.resources :
            /\ ResourceGiven(d.resources[k])
            /\ \A path \in d.resources[k].path : \A match \in Matches(path) : MatchGiven(match)
       /\ \A k \in DOMAIN d.templates : TemplateGiven(d.templates[k])
       /\ \A k \in DOMAIN d.instances : InstanceGiven(d.instances[k])
  /\ \A p \in DOMAIN PortNumber : PortNumber[p] \in Int
  /\ Payloads \subseteq Seq(Byte)
  /\ MaxCreated \in Nat

VARIABLES
  options,    \* options_t
  document,   \* the JSON value of the configuration file
  phase,      \* position of main(), also where the process ended
  exit,       \* how the process ended: "no", "0", "1" or "abort"
  endpoint,   \* Config: the endpoint
  resources,  \* Config: the resources
  templates,  \* locals of Config's constructor
  instances,
  expanded,   \* how many instances are expanded
  created,    \* the dynamic resources made, each with its pattern and match (a set)
  entry       \* the last log entry with its method and payload

configVars == <<endpoint, resources, templates, instances, expanded>>
vars == <<options, document, phase, exit, configVars, created, entry>>

DefaultEndpoint ==
  [address |-> "0.0.0.0", port |-> "5683", logDir |-> "",
   globalLogFile |-> <<"coap_server.log">>, protocol |-> "udp"]
NoEntry == [method |-> {}, payload |-> << >>, texts |-> << >>]

Init ==
  /\ options \in CommandLines
  /\ document \in Documents
  /\ phase = "commandLine" /\ exit = "no"
  /\ endpoint = DefaultEndpoint
  /\ resources = << >> /\ templates = << >> /\ instances = << >>
  /\ expanded = 0
  /\ created = {}
  /\ entry = NoEntry

\* A step that ends the process, or leads main() on.
End(status) ==
  /\ exit = "no" /\ exit' = status
  /\ UNCHANGED <<options, document, phase, configVars, created, entry>>

Goto(next) ==
  /\ exit = "no" /\ phase' = next
  /\ UNCHANGED <<options, document, exit, created, entry>>

\* The value of a key, or its default; the values of keys that are all there.
ValueOr(key, default) == IF key = {} THEN default ELSE CHOOSE v \in key : TRUE
AllOf(keys) ==
  IF \E i \in DOMAIN keys : keys[i] = {} THEN {}
  ELSE {[i \in DOMAIN keys |-> CHOOSE v \in keys[i] : TRUE]}

----------------------------------------------------------------------------
(* Mistakes a change of the code could make, one for a definition below. *)

CreatableWithoutFormats(r) ==
  \A i \in DOMAIN r.methods :
    r.methods[i].log =>
      r.logFile # << >> /\ <<endpoint.logDir, r.logFile>> \notin Unwritable

----------------------------------------------------------------------------
(* Command line *)

LineBad == phase = "commandLine" /\ options.line = "bad" /\ End("abort")
HelpAsked == phase = "commandLine" /\ options.line = "help" /\ End("0")
FileBad == phase = "commandLine" /\ options.line = "run" /\ ~options.file /\ End("abort")
FileRead ==
  /\ phase = "commandLine" /\ options.line = "run" /\ options.file
  /\ Goto("endpoint") /\ UNCHANGED configVars

----------------------------------------------------------------------------
(* Config *)

Protocols == {"udp", "dtls", "tcp", "tls"}

\* EndpointConfig
ReadEndpoint ==
  /\ phase = "endpoint"
  /\ LET json == document.endpoint
     IN  IF json.protocol \subseteq Protocols
         THEN /\ endpoint' =
                   [address |-> ValueOr(json.address, DefaultEndpoint.address),
                    port |-> ValueOr(json.port, DefaultEndpoint.port),
                    logDir |-> ValueOr(json.logDir, DefaultEndpoint.logDir),
                    globalLogFile |-> ValueOr(json.globalLogFile, DefaultEndpoint.globalLogFile),
                    protocol |-> ValueOr(json.protocol, DefaultEndpoint.protocol)]
              /\ UNCHANGED <<resources, templates, instances, expanded>>
              /\ Goto("resources")
         ELSE End("abort")

Each(Read(_), elements) == AllOf([k \in DOMAIN elements |-> Read(elements[k])])

\* ResourceMethodConfig: a command needs exactly one format.
ReadMethod(json) ==
  {[type |-> json.type, format |-> f, log |-> json.log, flags |-> json.flags,
    cmd |-> ValueOr(json.cmd, << >>)] :
     f \in {g \in json.format : json.cmd # {} => Len(g) = 1}}

\* ResourceConfig
ReadConfig(json) ==
  {[path |-> p, name |-> ValueOr(json.name, << >>), value |-> ValueOr(json.value, << >>),
    logFile |-> ValueOr(json.logFile, << >>), dataFile |-> ValueOr(json.dataFile, << >>),
    flags |-> json.flags, dynamic |-> json.dynamic, methods |-> m] :
     p \in json.path,
     m \in UNION {Each(ReadMethod, ms) : ms \in json.methods}}

\* TemplateConfig
ReadTemplateConfig(json) ==
  {[ident |-> t, resources |-> r] :
     t \in json.ident,
     r \in UNION {Each(ReadConfig, rs) : rs \in json.resources}}

\* TemplateInstance
ReadTemplateInstance(json) ==
  {[template |-> t, args |-> a] : t \in json.template, a \in json.args}

ReadResources ==
  /\ phase = "resources"
  /\ LET read == Each(ReadConfig, document.resources)
     IN  \/ \E rs \in read : resources' = rs /\ Goto("templates")
         \/ read = {} /\ End("abort")
  /\ UNCHANGED <<endpoint, templates, instances, expanded>>

ReadTemplates ==
  /\ phase = "templates"
  /\ LET read == Each(ReadTemplateConfig, document.templates)
     IN  \/ \E ts \in read : templates' = ts /\ Goto("instances")
         \/ read = {} /\ End("abort")
  /\ UNCHANGED <<endpoint, resources, instances, expanded>>

ReadInstances ==
  /\ phase = "instances"
  /\ LET read == Each(ReadTemplateInstance, document.instances)
     IN  \/ \E is \in read : instances' = is /\ Goto("expand")
         \/ read = {} /\ End("abort")
  /\ UNCHANGED <<endpoint, resources, templates, expanded>>

----------------------------------------------------------------------------
(* Template instances *)

\* GenerateResources(): every text replaced, all else copied but "dynamic".
ExpandedMethod(m, args) ==
  {[m EXCEPT !.format = f, !.cmd = c] :
     f \in AllOf([i \in DOMAIN m.format |-> TemplateReplace(m.format[i], args)]),
     c \in TemplateReplace(m.cmd, args)}

ExpandedResource(r, args) ==
  {[path |-> p, name |-> n, value |-> v, logFile |-> l, dataFile |-> d,
    flags |-> r.flags, dynamic |-> FALSE, methods |-> m] :
     p \in TemplateReplace(r.path, args), n \in TemplateReplace(r.name, args),
     v \in TemplateReplace(r.value, args), l \in TemplateReplace(r.logFile, args),
     d \in TemplateReplace(r.dataFile, args),
     m \in AllOf([i \in DOMAIN r.methods |-> ExpandedMethod(r.methods[i], args)])}

GenerateResources(template, args) ==
  LET Expanded(r) == ExpandedResource(r, args) IN Each(Expanded, template.resources)

WithIdent(ident) == {t \in DOMAIN templates : templates[t].ident = ident}

\* The first template with the identifier of the instance.
FromTemplate(instance) ==
  LET named == WithIdent(instance.template)
  IN  IF named = {} THEN {}
      ELSE GenerateResources(templates[CHOOSE t \in named : \A u \in named : t <= u],
                             instance.args)

Expand ==
  /\ phase = "expand" /\ expanded < Len(instances)
  /\ LET generated == FromTemplate(instances[expanded + 1])
     IN  \/ \E rs \in generated :
              /\ resources' = resources \o rs
              /\ expanded' = expanded + 1
              /\ UNCHANGED <<endpoint, templates, instances>>
              /\ Goto("expand")
         \/ generated = {} /\ End("abort")

AllExpanded ==
  /\ phase = "expand" /\ expanded = Len(instances)
  /\ Goto("overrides") /\ UNCHANGED configVars

----------------------------------------------------------------------------
(* Overrides of the command line *)

PortOutOfRange(port) == port <= 0 \/ port > 65535

PortRefused ==
  /\ phase = "overrides" /\ options.port # ""
  /\ IF options.port \notin DOMAIN PortNumber THEN End("abort")
     ELSE PortOutOfRange(PortNumber[options.port]) /\ End("1")

Override ==
  /\ phase = "overrides"
  /\ options.port # "" =>
       options.port \in DOMAIN PortNumber /\ ~PortOutOfRange(PortNumber[options.port])
  /\ LET Chosen(option, configured) == IF option # "" THEN option ELSE configured
     IN  endpoint' = [endpoint EXCEPT !.port = Chosen(options.port, @),
                                      !.address = Chosen(options.address, @),
                                      !.logDir = Chosen(options.logDir, @)]
  /\ UNCHANGED <<resources, templates, instances, expanded>>
  /\ Goto("server")

----------------------------------------------------------------------------
(* CoAPServer and Resource constructors *)

\* A Resource makes the formatters of each method, and opens its log file
\* for the first one that logs.
Creatable(r) ==
  \A i \in DOMAIN r.methods :
    /\ \A f \in ToSet(r.methods[i].format) : f \in KnownFormats
    /\ r.methods[i].log =>
         r.logFile # << >> /\ <<endpoint.logDir, r.logFile>> \notin Unwritable

\* What the server needs before it comes to the resources.
LogAndTransportFit ==
  /\ <<endpoint.logDir, endpoint.globalLogFile>> \notin Unwritable
  /\ endpoint.protocol \in {"dtls", "tls"} => endpoint.protocol \in Supported

\* Dynamic resources are only kept, as patterns, in their order.
Patterns == {i \in DOMAIN resources : resources[i].dynamic}
Static == {r \in ToSet(resources) : ~r.dynamic}

Construct ==
  /\ phase = "server"
  /\ LogAndTransportFit /\ \A r \in Static : Creatable(r)
  /\ Goto("serving") /\ UNCHANGED configVars

ConstructFails ==
  /\ phase = "server"
  /\ ~(LogAndTransportFit /\ \A r \in Static : Creatable(r))
  /\ End("abort")

----------------------------------------------------------------------------
(* Serving *)

Served == Static \cup {c.resource : c \in created}

\* The configuration that handleDynamicRequest() makes of a pattern.
ConfigFor(pattern, match) ==
  LET Text(t) == RegexReplace(t, match.path, match.groups)
  IN  [pattern EXCEPT !.path = match.path, !.name = Text(@),
                      !.logFile = Text(@), !.dataFile = Text(@)]

\* A new path calls for the first pattern it matches.
FirstMatch(i, match) ==
  /\ \A r \in Served : r.path # match.path
  /\ \A j \in Patterns : j < i =>
       \A other \in Matches(resources[j].path) : other.path # match.path

CreateDynamic ==
  /\ phase = "serving" /\ exit = "no" /\ Cardinality(created) < MaxCreated
  /\ \E i \in Patterns : \E match \in Matches(resources[i].path) :
       LET r == ConfigFor(resources[i], match)
       IN  /\ FirstMatch(i, match)
           /\ \/ /\ Creatable(r)
                 /\ created' = created \cup {[resource |-> r, pattern |-> i, match |-> match]}
                 /\ UNCHANGED <<options, document, phase, exit, configVars, entry>>
              \/ ~Creatable(r) /\ End("abort")

\* handleRequestQueueItem(): one text for each formatter.
Log ==
  /\ phase = "serving" /\ exit = "no"
  /\ \E r \in Served : \E i \in DOMAIN r.methods : \E data \in Payloads :
       LET m == r.methods[i]
       IN  /\ m.cmd = << >> /\ m.log
           /\ entry' = [method |-> {m}, payload |-> data,
                        texts |-> [f \in DOMAIN m.format |-> Decode(m.format[f], data)]]
  /\ UNCHANGED <<options, document, phase, exit, configVars, created>>

----------------------------------------------------------------------------
CommandLine == LineBad \/ HelpAsked \/ FileBad \/ FileRead

ReadConfigFile ==
  \/ ReadEndpoint
  \/ ReadResources \/ ReadTemplates \/ ReadInstances
  \/ Expand \/ AllExpanded

Next ==
  \/ CommandLine
  \/ ReadConfigFile
  \/ PortRefused \/ Override
  \/ Construct \/ ConstructFails
  \/ CreateDynamic
  \/ Log

Spec == Init /\ [][Next]_vars

----------------------------------------------------------------------------
(* Properties *)

\* Types of options_t's successors; a method has only formatters that exist.
TypeOK ==
  /\ phase \in {"commandLine", "endpoint", "resources", "templates", "instances", "expand",
                "overrides", "server", "serving"}
  /\ exit \in {"no", "0", "1", "abort"}
  /\ endpoint.protocol \in Protocols
  /\ expanded \in 0 .. Len(instances)
  /\ IsFiniteSet(created) /\ Cardinality(created) <= MaxCreated
  /\ phase = "serving" =>
       \A r \in Served : \A i \in DOMAIN r.methods :
         ToSet(r.methods[i].format) \subseteq KnownFormats

\* What the document says, read off it in one piece: each resource, then for
\* each instance those of the first template with its identifier, every text
\* with its references replaced by what they denote.
Plain(json) == CHOOSE r \in ReadConfig(json) : TRUE
FirstTemplate(ident) ==
  CHOOSE t \in DOMAIN document.templates :
    /\ document.templates[t].ident = ident
    /\ \A u \in 1 .. t - 1 : document.templates[u].ident # ident
Instead(text, args) == IF WellFormed(text, args) THEN Denoted(text, args) ELSE << >>
InstanceMethod(m, args) ==
  [m EXCEPT !.format = [f \in DOMAIN @ |-> Instead(@[f], args)], !.cmd = Instead(@, args)]
Instance(r, args) ==
  [r EXCEPT !.path = Instead(@, args), !.name = Instead(@, args), !.value = Instead(@, args),
            !.logFile = Instead(@, args), !.dataFile = Instead(@, args), !.dynamic = FALSE,
            !.methods = [i \in DOMAIN @ |-> InstanceMethod(@[i], args)]]
Generated(instance) ==
  LET args == CHOOSE a \in instance.args : TRUE
      rs == CHOOSE x \in document.templates[FirstTemplate(instance.template)].resources : TRUE
  IN  [i \in DOMAIN rs |-> Instance(Plain(rs[i]), args)]
Written ==
  [k \in DOMAIN document.resources |-> Plain(document.resources[k])] \o
  FlattenSeq([k \in DOMAIN document.instances |-> Generated(document.instances[k])])

\* A server that serves has the resources that its document denotes, in
\* order (Config.cpp:9-65, 242-306), and a resource made for a path has the
\* texts that the pattern denotes for it, but "" for a text that refers to
\* a group past the one after the last (CoAPServer.cpp:234-264, 292-296).
ConfiguredAsWritten ==
  phase = "serving" =>
    /\ resources = Written
    /\ \A c \in created :
         LET pattern == resources[c.pattern]
             match == c.match
             sm == [n \in 0 .. Len(match.groups) |->
                      IF n = 0 THEN match.path ELSE match.groups[n]]
             Right(text, made) == WellFormed(text, sm) => made = Denoted(text, sm)
         IN  /\ Right(pattern.name, c.resource.name)
             /\ Right(pattern.logFile, c.resource.logFile)
             /\ Right(pattern.dataFile, c.resource.dataFile)
             /\ c.resource.methods = pattern.methods

\* The texts of a resource in which references are replaced.
TextsIn(r) ==
  {r.path, r.name, r.value, r.logFile, r.dataFile} \cup
  UNION {ToSet(r.methods[i].format) \cup {r.methods[i].cmd} : i \in DOMAIN r.methods}

\* An instance has a meaning: the document has its template, and every text
\* of the template's resources denotes something for its arguments.
Meaningful(instance) ==
  /\ \E t \in DOMAIN document.templates : document.templates[t].ident = instance.template
  /\ \A rs \in document.templates[FirstTemplate(instance.template)].resources,
        args \in instance.args :
       \A i \in DOMAIN rs : \A text \in TextsIn(Plain(rs[i])) : WellFormed(text, args)

\* The instances are expanded to their end only if each of them has a meaning,
\* so that no reference past the arguments, to 0 or cut off reaches a resource
\* as some other text; and the process ends on the way only if one of them
\* has none (Config.cpp:50-64, 242-306).
ExpandsOnlyMeaningful ==
  LET meaningful == \A k \in DOMAIN document.instances : Meaningful(document.instances[k])
  IN  IF phase \in {"overrides", "server", "serving"} THEN meaningful
      ELSE phase = "expand" /\ exit # "no" => ~meaningful

\* A log entry can be read back: each of its texts denotes the payload in
\* its formatter's notation (ResourceFormatterText.cpp, -Hex.cpp, -Base64.cpp).
LoggedTextDenotesPayload ==
  \A m \in entry.method : \A f \in DOMAIN m.format :
    Denotes(m.format[f], entry.texts[f], entry.payload)
=============================================================================
