----------------------------- MODULE Descriptors -----------------------------
(***************************************************************************)
(* The descriptor registry both protoc plug-ins load before they generate: *)
(* the Go package of every file under a name no other package has, the     *)
(* services of the files to generate, their methods, and the HTTP bindings *)
(* of those, each checked against the request's messages.                  *)
(*                                                                         *)
(* A name is absolute, as protoc hands it over.  A field path is the list  *)
(* of its names; as a body, << >> is none and <<"*">> the whole message.   *)
(* An operator that may fail returns the set of its results.               *)
(***************************************************************************)
EXTENDS Naturals, Sequences, FiniteSets, SequencesExt

CONSTANTS
  Requests,        \* what protoc may ask: files, order, configuration, flags
  Numbered(_, _)   \* Numbered(name, i): the i-th alternative to a package's name

\* What protoc and protogen have seen to before: what is listed is a list, the
\* files of a Go package agree on its name, and no two services of a file, or
\* methods of a service, share theirs.
IsList(s) == Len(s) \in Nat /\ s = [k \in 1..Len(s) |-> s[k]]
NamedApart(s) == \A j, k \in DOMAIN s : s[j].name = s[k].name => j = k
WellFormedFile(file) ==
  /\ IsList(file.services) /\ NamedApart(file.services)
  /\ \A svc \in ToSet(file.services) :
       /\ IsList(svc.methods) /\ NamedApart(svc.methods)
       /\ \A meth \in ToSet(svc.methods) :
            IsList(meth.rule) /\ \A rule \in ToSet(meth.rule) : IsList(rule.additional)

ASSUME RequestsAssumption ==
  \A r \in Requests :
    /\ IsList(r.generate)
    /\ IsList(r.configured) /\ \A c \in ToSet(r.configured) : IsList(c.rule.additional)
    /\ \A f \in DOMAIN r.files : WellFormedFile(r.files[f])
    /\ \A f, g \in DOMAIN r.files :
         r.files[f].path = r.files[g].path => r.files[f].name = r.files[g].name

VARIABLES
  req,       \* the request
  phase,     \* what the loading is at; "failed" and "loaded" are its ends
  rules,     \* externalHTTPRules: the configured rules of each selector, in order
  todo,      \* configured rules, later files, that the current loop has still to visit
  aliases,   \* pkgAliases: the Go package each name stands for
  goPkg,     \* the Go package of each loaded file
  services   \* the services of each file whose services are loaded

descriptorVars == <<req, phase, rules, todo, aliases, goPkg, services>>

WellKnown == { ".google.protobuf." \o n : n \in {"Timestamp", "Duration", "StringValue", "FieldMask"} }

\* Constructors for what protoc hands over.  What has labels is shown in
\* documents that select one of them; what has none, in all.
Field(name, type, typeName) ==
  [name |-> name, type |-> type, typeName |-> typeName, repeated |-> FALSE, optional |-> FALSE,
   rules |-> << >>, labels |-> {}]
Scalar(name, type) == Field(name, type, "")
Nested(name, typeName) == Field(name, "message", typeName)
Repeated(f) == [f EXCEPT !.repeated = TRUE]
Ruled(f, rs) == [f EXCEPT !.rules = rs]
Rule(type, op, trim, value) == [type |-> type, op |-> op, trim |-> trim, value |-> value]
Message(name, fields) == [name |-> name, fields |-> fields, mapEntry |-> FALSE]
Method(name, input, output, rule) ==
  [name |-> name, input |-> input, output |-> output, rule |-> rule, loginNotRequired |-> FALSE,
   clientStreaming |-> FALSE, serverStreaming |-> FALSE, labels |-> {}]
Service(name, methods) ==
  [name |-> name, hasSpec |-> TRUE, controller |-> FALSE, balancer |-> "ROUND_ROBIN",
   labels |-> {}, methods |-> methods]
ProtoFile(path, name, msgs, enums, svcs) ==
  [path |-> path, name |-> name, msgs |-> msgs, enums |-> enums, services |-> svcs, swagger |-> FALSE]

File(f) == req.files[f]
ToGenerate == ToSet(req.generate)
Fail == phase' = "failed"

-----------------------------------------------------------------------------
(* Go packages. *)

Package(path, name, alias) == [path |-> path, name |-> name, alias |-> alias]
Pkg(p) == IF p.alias = "" THEN p.name ELSE p.alias

\* ReserveGoPackageAlias succeeds when nobody, or the package itself, has the name.
Available(alias, path) == alias \in DOMAIN aliases => aliases[alias] = path
Reserved(alias, path) ==
  [a \in DOMAIN aliases \cup {alias} |-> IF a = alias THEN path ELSE aliases[a]]

\* What the code of the gateway plug-in imports; some under an alias.
StandardImports ==
  { Package(n, n, "") : n \in {"context", "io", "regexp", "strings", "sync"} }
  \cup { Package("net/http", "http", ""), Package("unicode/utf8", "utf8", "") }
GatewayImports ==
  { Package(n, n, "") : n \in {"runtime", "utilities", "proto", "client", "grpc", "codes", "grpclog",
                               "metadata", "status"} }
  \cup { Package("gateway-proto/data", "data", "vexpb"), Package("gateway-proto/frontend", "frontend", "fpb"),
         Package("letsgo/grpc", "grpc", "lgr"), Package("skylb-api/proto", "proto", "skypb") }
BaseImports == StandardImports \cup GatewayImports
Unaliased == { p \in BaseImports : p.alias = "" }
StandardNames == { p.name : p \in Unaliased }
Owner(n) == (CHOOSE p \in Unaliased : p.name = n).path

\* New: the imports without an alias reserve their names, those with one do not.
\* (The other plug-in does not do so, but its documents name no packages.)
New ==
  /\ phase = "rules" /\ todo = {}
  /\ aliases' = [n \in StandardNames |-> Owner(n)]
  /\ phase' = "files"
  /\ todo' = DOMAIN req.files
  /\ UNCHANGED <<req, rules, goPkg, services>>

\* Mutant: the alternative name is taken without asking who has it.
LoadFileUnasked(f) ==
  /\ phase = "files" /\ f \in todo
  /\ LET name == File(f).name
         path == File(f).path
         alias == IF Available(name, path) THEN "" ELSE Numbered(name, 0)
         local == IF alias = "" THEN name ELSE alias
     IN  /\ aliases' = Reserved(local, path)
         /\ goPkg' = [g \in DOMAIN goPkg \cup {f} |->
                        IF g = f THEN Package(path, name, alias) ELSE goPkg[g]]
  /\ todo' = todo \ {f}
  /\ phase' = IF todo = {f} THEN "services" ELSE phase
  /\ UNCHANGED <<req, rules, services>>

\* loadFile, for the files in the order of a map iteration.
LoadFile(f) ==
  /\ phase = "files" /\ f \in todo
  /\ LET name == File(f).name
         path == File(f).path
         Take(alias, local) ==
           /\ aliases' = Reserved(local, path)
           /\ goPkg' = [g \in DOMAIN goPkg \cup {f} |->
                          IF g = f THEN Package(path, name, alias) ELSE goPkg[g]]
     IN  \/ Available(name, path) /\ Take("", name)
         \/ /\ ~Available(name, path)
            /\ \E i \in 0..Cardinality(DOMAIN aliases) :
                 /\ Available(Numbered(name, i), path)
                 /\ \A j \in 0..(i - 1) : ~Available(Numbered(name, j), path)
                 /\ Take(Numbered(name, i), Numbered(name, i))
  /\ todo' = todo \ {f}
  /\ phase' = IF todo = {f} THEN "services" ELSE phase
  /\ UNCHANGED <<req, rules, services>>

-----------------------------------------------------------------------------
(* Messages and the fields a path names. *)

Registered ==
  UNION { { [file |-> f, name |-> m.name, fields |-> m.fields] : m \in ToSet(File(f).msgs) } :
            f \in DOMAIN goPkg }
LookupMsg(name) == { m \in Registered : m.name = name }
LookupEnum(name) == { f \in DOMAIN goPkg : name \in File(f).enums }

lookupField(m, name) == { f \in ToSet(m.fields) : f.name = name }

\* The last field of a path that starts in message name: none when a name is
\* unknown, what is not last is no message, or a field may not be on the path.
resolveFieldPath(name, path, isPathParam) ==
  LET Allowed(f) ==
        /\ f.repeated => isPathParam \/ req.flags.allowRepeatedFieldsInBody
        /\ isPathParam => ~f.optional
      Step(reached, c) ==
        UNION { UNION { { f \in lookupField(m, c) : Allowed(f) } : m \in LookupMsg(at.typeName) } :
                  at \in { r \in reached : r.type = "message" } }
  IN  FoldLeft(Step, { [type |-> "message", typeName |-> name] }, path)

\* A path parameter: no message, unless a well-known one has a text form.
newParam(meth, path) ==
  { [path |-> path, field |-> f] :
      f \in { g \in resolveFieldPath(meth.input, path, TRUE) :
                g.type = "message" => g.typeName \in WellKnown } }

newBody(meth, path) ==
  IF path \in { << >>, <<"*">> } \/ resolveFieldPath(meth.input, path, FALSE) # {}
  THEN {path} ELSE {}

newResponse(meth, path) ==
  IF path \in { << >>, <<"*">> } THEN { << >> }
  ELSE IF resolveFieldPath(meth.output, path, FALSE) # {} THEN {path} ELSE {}

-----------------------------------------------------------------------------
(* Bindings, methods and services. *)

NoTemplate == [text |-> "", atoms |-> << >>, vars |-> << >>, verb |-> << >>, wellFormed |-> FALSE]
NoBinding == [index |-> 0, http |-> "none", tmpl |-> NoTemplate, params |-> << >>,
              body |-> << >>, resp |-> << >>]

\* A rule without a pattern has no binding: nil, and no error.
newBinding(meth, rule, index) ==
  IF rule.http = "none" THEN {NoBinding}
  ELSE IF \/ rule.http = "GET" /\ rule.body # << >>
          \/ rule.http = "DELETE" /\ rule.body # << >> /\ ~req.flags.allowDeleteBody
          \/ ~rule.tmpl.wellFormed
          \/ meth.clientStreaming /\ rule.tmpl.vars # << >>
          \/ \E v \in ToSet(rule.tmpl.vars) : newParam(meth, v.name) = {}
       THEN {}
       ELSE { [index |-> index, http |-> rule.http, tmpl |-> rule.tmpl, body |-> b, resp |-> r,
               params |-> [k \in DOMAIN rule.tmpl.vars |->
                             CHOOSE p \in newParam(meth, rule.tmpl.vars[k].name) : TRUE]] :
                b \in newBody(meth, rule.body), r \in newResponse(meth, rule.resp) }

\* A rule, if it has a pattern, and the additional ones, if they have or not.
applyOpts(rule) == (IF rule.http = "none" THEN << >> ELSE << rule >>) \o rule.additional

defaultAPIOptions(svc, meth) ==
  [http |-> "POST", body |-> <<"*">>, resp |-> << >>, additional |-> << >>,
   tmpl |-> [wellFormed |-> TRUE, vars |-> << >>, verb |-> << >>, text |-> "/" \o svc.name \o "/" \o meth.name,
             atoms |-> << [kind |-> "lit", text |-> <<svc.name>>], [kind |-> "lit", text |-> <<meth.name>>] >>]]

\* Mutant: a configured rule hides the annotation.
OptionsOfHiding(svc, meth) ==
  LET selector == <<svc.name, meth.name>>
      listed == (IF selector \in DOMAIN rules THEN rules[selector] ELSE meth.rule)
  IN  IF listed = << >> /\ req.flags.generateUnboundMethods
      THEN << defaultAPIOptions(svc, meth) >> ELSE listed

\* The configured rules of a method, then its annotation.
OptionsOf(svc, meth) ==
  LET selector == <<svc.name, meth.name>>
      listed == (IF selector \in DOMAIN rules THEN rules[selector] ELSE << >>) \o meth.rule
  IN  IF listed = << >> /\ req.flags.generateUnboundMethods
      THEN << defaultAPIOptions(svc, meth) >> ELSE listed

\* The bindings of a method, in the order of its rules and numbered in it; none
\* when one of them is refused.
newBindings(svc, meth) ==
  LET opts == OptionsOf(svc, meth)
      applied == FlattenSeq([k \in DOMAIN opts |-> applyOpts(opts[k])])
      found(n) == newBinding(meth, applied[n], n - 1)
      refused == \/ \E k \in DOMAIN opts : \E more \in ToSet(opts[k].additional) : more.additional # << >>
                 \/ \E n \in DOMAIN applied : found(n) = {}
  IN  IF refused THEN {} ELSE { [n \in DOMAIN applied |-> CHOOSE b \in found(n) : TRUE] }

\* The options janus.api.method are looked at only beside an annotation.
newMethod(svc, meth) ==
  IF LookupMsg(meth.input) = {} \/ LookupMsg(meth.output) = {} THEN {}
  ELSE { [name |-> meth.name, input |-> meth.input, output |-> meth.output, labels |-> meth.labels,
          clientStreaming |-> meth.clientStreaming, serverStreaming |-> meth.serverStreaming,
          loginRequired |-> meth.rule # << >> /\ ~meth.loginNotRequired,
          bindings |-> bs] : bs \in newBindings(svc, meth) }

\* The services of a file, without those that have no method; none when one of
\* them lacks its spec or a method is refused.
loadServices(f) ==
  LET declared == File(f).services
      Methods(svc) == [k \in DOMAIN svc.methods |-> newMethod(svc, svc.methods[k])]
      Refused(svc) == ~svc.hasSpec \/ \E k \in DOMAIN svc.methods : Methods(svc)[k] = {}
      Loaded(svc) ==
        [name |-> svc.name, controller |-> svc.controller, balancer |-> svc.balancer, labels |-> svc.labels,
         methods |-> [k \in DOMAIN svc.methods |-> CHOOSE m \in Methods(svc)[k] : TRUE]]
      Kept(svc) == IF svc.methods = << >> THEN << >> ELSE << Loaded(svc) >>
  IN  IF \E k \in DOMAIN declared : Refused(declared[k]) THEN {}
      ELSE { FlattenSeq([k \in DOMAIN declared |-> Kept(declared[k])]) }

\* The bindings of services, in the order both generators visit them.
Ordered(svcs) ==
  FlattenSeq([s \in DOMAIN svcs |->
    FlattenSeq([m \in DOMAIN svcs[s].methods |->
      LET meth == svcs[s].methods[m]
      IN  [k \in DOMAIN meth.bindings |-> [svc |-> svcs[s], meth |-> meth, b |-> meth.bindings[k]]]])])
Key(x) == <<x.svc.name, x.meth.name, x.b.index>>

-----------------------------------------------------------------------------
DescriptorsInit ==
  /\ req \in Requests
  /\ phase = "rules"
  /\ rules = << >>
  /\ todo = DOMAIN req.configured
  /\ aliases = << >>
  /\ goPkg = << >>
  /\ services = << >>

\* registerHTTPRulesFromGrpcAPIService: the rules in the order of the file.
AddExternalHTTPRule ==
  /\ phase = "rules" /\ todo # {}
  /\ LET n == CHOOSE k \in todo : \A j \in todo : k <= j
         given == req.configured[n]
     IN  \/ given.wildcard /\ Fail /\ UNCHANGED <<rules, todo>>
         \/ /\ ~given.wildcard
            /\ rules' = [s \in DOMAIN rules \cup {given.selector} |->
                           LET before == IF s \in DOMAIN rules THEN rules[s] ELSE << >>
                           IN  IF s = given.selector THEN Append(before, given.rule) ELSE before]
            /\ todo' = todo \ {n}
            /\ UNCHANGED phase
  /\ UNCHANGED <<req, aliases, goPkg, services>>

\* The second loop of load, also in the order of a map iteration.
LoadServices(f) ==
  /\ phase = "services" /\ f \in ToGenerate \ DOMAIN services
  /\ \/ /\ loadServices(f) = {}
        /\ Fail /\ UNCHANGED services
     \/ /\ loadServices(f) # {}
        /\ services' = [g \in DOMAIN services \cup {f} |->
                          IF g = f THEN CHOOSE s \in loadServices(f) : TRUE ELSE services[g]]
        /\ UNCHANGED phase
  /\ UNCHANGED <<req, rules, todo, aliases, goPkg>>

\* UnboundExternalHTTPRules: every configured rule must be for a method.
CheckUnbound ==
  LET methods == UNION { UNION { { <<s.name, m.name>> : m \in ToSet(s.methods) } :
                                   s \in ToSet(File(f).services) } : f \in DOMAIN goPkg }
  IN  /\ phase = "services" /\ ToGenerate \subseteq DOMAIN services
      /\ phase' = IF DOMAIN rules \subseteq methods THEN "loaded" ELSE "failed"
      /\ UNCHANGED <<req, rules, todo, aliases, goPkg, services>>

Load ==
  \/ AddExternalHTTPRule
  \/ New
  \/ \E f \in DOMAIN req.files : LoadFile(f)
  \/ \E f \in DOMAIN req.files : LoadServices(f)
  \/ CheckUnbound

LoadSpec == DescriptorsInit /\ [][Load]_descriptorVars

-----------------------------------------------------------------------------
(* What ImportsSound (in Generator) rests on, for every request. *)

\* Two packages that go by one name are one package, in whatever order the
\* files came.
NamesDistinct ==
  \A f, g \in DOMAIN goPkg :
    Pkg(goPkg[f]) = Pkg(goPkg[g]) => goPkg[f].path = goPkg[g].path

\* All files of a package agree on the name it goes by, also when others asked
\* for that name in between.
OneNameEach ==
  \A f, g \in DOMAIN goPkg :
    goPkg[f].path = goPkg[g].path /\ goPkg[f].name = goPkg[g].name => goPkg[f] = goPkg[g]

\* No loaded package goes by the name of an import every file has, unless it
\* is that import.
StandardNamesKept ==
  \A f \in DOMAIN goPkg :
    Pkg(goPkg[f]) \in StandardNames => goPkg[f].path = Owner(Pkg(goPkg[f]))

\* A file's package is settled once: code that was resolved with it stays right.
PackagesSettled ==
  [][\A f \in DOMAIN goPkg : f \in DOMAIN goPkg' /\ goPkg'[f] = goPkg[f]]_descriptorVars
=============================================================================
