----------------------------- MODULE MCStartup -----------------------------
(***************************************************************************)
(* Command lines and documents for Startup: of each kind of mistake at     *)
(* least one, and documents without mistakes in which every text that can  *)
(* hold a reference holds one.                                             *)
(***************************************************************************)
EXTENDS Startup

MCSupported == {"udp", "tcp", "dtls"}
MCUnwritable == {<<"", <<"bad">>>>, <<"full", <<"log">>>>, <<"none", <<"coap_server.log">>>>}

MCPortNumber ==
  [p \in {"-1", "0", "1", "5683", "5683x", "65535", "65536", "65537"} |->
     CASE p = "-1" -> -1 [] p = "0" -> 0 [] p = "1" -> 1 [] p = "5683" -> 5683
       [] p = "5683x" -> 5683 [] p = "65535" -> 65535 [] p = "65536" -> 65536
       [] p = "65537" -> 65537]

\* Payloads: none, control and top bytes, an incomplete group of Base64.
MCPayloads == {<< >>, <<0, 255, 65>>, <<92>>, <<31, 127, 126, 250>>, <<61, 63, 62, 31, 10>>}

\* "p*" matches two paths with one group, "q" one without a group.
MCMatches(path) ==
  CASE path = <<"p*">> -> {[path |-> <<"p", "x">>, groups |-> <<<<"x">>>>],
                           [path |-> <<"q">>, groups |-> <<<<"$">>>>]}
    [] path = <<"q">> -> {[path |-> <<"q">>, groups |-> << >>]}
    [] OTHER -> {}

----------------------------------------------------------------------------
GoodLine == [line |-> "run", file |-> TRUE, port |-> "", address |-> "", logDir |-> ""]
MCCommandLines ==
  {GoodLine,
   [GoodLine EXCEPT !.line = "help"], [GoodLine EXCEPT !.line = "bad"],
   [GoodLine EXCEPT !.file = FALSE],
   [GoodLine EXCEPT !.address = "localhost"]} \cup
  {[GoodLine EXCEPT !.port = p] :
     p \in {"-1", "0", "1", "5683x", "65535", "65536", "65537", "http"}} \cup
  {[GoodLine EXCEPT !.logDir = d] : d \in {"full", "none"}}

----------------------------------------------------------------------------
Method(format, log, cmd) ==
  [type |-> "PUT", format |-> format, log |-> log, flags |-> "print", cmd |-> cmd]

MethodLists ==
  {<<Method(format, log, cmd)>> :
     format \in {{}, {<< >>}, {<<<<"HEX">>>>}, {<<<<"STRING">>, <<"BASE64">>>>}, {<<<<"OCTAL">>>>}},
     log \in BOOLEAN,
     cmd \in {{}, {<<"cat">>}}}

Plain1 ==
  [path |-> {<<"a">>}, name |-> {}, value |-> {}, logFile |-> {<<"log">>}, dataFile |-> {},
   flags |-> "observable", dynamic |-> FALSE,
   methods |-> {<<Method({<<<<"HEX">>>>}, TRUE, {})>>}]
Others == {[Plain1 EXCEPT !.methods = {ms}, !.logFile = l] :
             ms \in MethodLists, l \in {{}, {<<"log">>}, {<<"bad">>}}} \cup
          {[Plain1 EXCEPT !.path = {}], [Plain1 EXCEPT !.methods = {}]}

Pattern(path, text, log, format) ==
  [Plain1 EXCEPT !.path = {path}, !.name = {text}, !.logFile = log, !.dataFile = {text},
                 !.dynamic = TRUE, !.methods = {<<Method({<<format>>}, TRUE, {})>>}]
Patterns1 ==
  {Pattern(<<"p*">>, text, log, <<"HEX">>) :
     text \in {<<"$", "0", "/", "$", "1">>, <<"$", "2", "$", "$">>, <<"$", "3">>, <<"d", "$">>},
     log \in {{}, {<<"$", "1", "log">>}}} \cup
  {Pattern(<<"p*">>, <<"$", "1">>, {<<"log">>}, f) : f \in {<<"$", "1">>, <<"STRING">>}}

----------------------------------------------------------------------------
InTemplate(text, format, cmd) ==
  [Plain1 EXCEPT !.path = {<<"$", "2">>}, !.name = {text}, !.value = {<<"v">> \o text},
                 !.logFile = {<<"$", "2", ".log">>}, !.dataFile = {text},
                 !.methods = {<<Method({<<format>>}, TRUE, {cmd})>>}]
TemplateResources ==
  {InTemplate(text, <<"$", "1">>, <<"$", "2", "-">>) :
     text \in {<< >>, <<"$", "$", "1">>, <<"$", "1", "2">>, <<"$", "1", "0", "0", "2">>,
               <<"$", "0">>, <<"x", "$">>, <<"$", "x">>}} \cup
  {InTemplate(<<"$", "2">>, <<"$", "3">>, << >>),
   [InTemplate(<< >>, <<"$", "1">>, << >>) EXCEPT
      !.methods = {<<Method({<<<<"$", "1">>>>}, TRUE, {})>>}, !.dynamic = TRUE]}

Args == {{}, {<< >>}, {<<<<"HEX">>, <<"h", "$">>>>},
         {[i \in 1 .. 12 |-> IF i = 1 THEN <<"BASE64">> ELSE IF i = 2 THEN <<"b">> ELSE <<"z">>]},
         {<<<<"OCTAL">>, <<"o">>, <<"STRING">>>>}}
Instance1(ident, args) == [template |-> ident, args |-> args]
Template(ident, rs) == [ident |-> ident, resources |-> rs]

----------------------------------------------------------------------------
DefaultKeys == [address |-> {}, port |-> {}, logDir |-> {}, globalLogFile |-> {}, protocol |-> {}]
Document(e, rs, ts, is) ==
  [endpoint |-> e, resources |-> rs, templates |-> ts, instances |-> is]

MCDocuments ==
  {Document([DefaultKeys EXCEPT !.protocol = p, !.address = {"10.0.0.1"}, !.logDir = {"logs"},
                                !.globalLogFile = {<<"all.log">>}, !.port = {"5684"}],
            <<Plain1>>, << >>, << >>) : p \in {{}, {"udp"}, {"dtls"}, {"tls"}, {"quic"}}} \cup
  {Document(DefaultKeys, <<r, [Plain1 EXCEPT !.path = {<<"b">>}]>>, << >>, << >>) :
     r \in Others} \cup
  {Document(DefaultKeys,
            <<Plain1, p, Pattern(<<"q">>, <<"q", "$", "0">>, {<<"log">>}, <<"BASE64">>)>>,
            << >>, << >>) : p \in Patterns1} \cup
  {Document(DefaultKeys, <<Plain1>>,
            <<Template({"t"}, {<<r>>}), Template({"t"}, {<< >>}),
              Template({"u"}, {<<Plain1, r>>})>>,
            <<Instance1({id}, a), Instance1({"t"}, {<<<<"STRING">>, <<"s">>>>})>>) :
     r \in TemplateResources, id \in {"t", "u", "v"}, a \in Args} \cup
  {Document(DefaultKeys, << >>, <<t>>, is) :
     t \in {Template({}, {<<Plain1>>}), Template({"t"}, {}), Template({"t"}, {<<Plain1>>})},
     is \in {<< >>, <<Instance1({}, {<< >>})>>}}
=============================================================================
