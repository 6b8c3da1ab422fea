------------------------------- MODULE OpenAPI -------------------------------
(***************************************************************************)
(* protoc-gen-openapiv2: the document written for each target file from    *)
(* the services the registry has loaded, binding after binding, and then   *)
(* the definitions the operations refer to.                                *)
(*                                                                         *)
(* Abstracted: descriptions, formats, patterns, defaults, and the options  *)
(* that put a user's own text into a document.  Bounds: every type of a    *)
(* field is in the request, a variable's name starts with a letter, and a  *)
(* field's JSON name is the one protoc gives it.                           *)
(***************************************************************************)
EXTENDS Descriptors, TLC

CONSTANTS
  Components(_),   \* the names between the dots of a qualified name
  JsonName(_)      \* the JSON name of a field

VARIABLES
  documented,   \* the number of targets done
  rendered,     \* the number of bindings of the current target done
  paths,        \* Paths: the operation of each method of each path
  requestRefs,  \* requestResponseRefs: the names bodies refer to
  customRefs,   \* the types other schemas refer to
  docs,         \* the document of each target done
  docPhase      \* what the writing is at; not "running" when it has ended

docVars == <<documented, rendered, paths, requestRefs, customRefs, docs, docPhase>>

-----------------------------------------------------------------------------
(* Targets. *)

\* With allow_merge the first file with an option for the document, or else
\* the first, takes the services of the others.
leader ==
  LET marked == SelectSeq(req.generate, LAMBDA f : File(f).swagger)
  IN  IF marked = << >> THEN Head(req.generate) ELSE Head(marked)
Targets == IF req.flags.allowMerge THEN << leader >> ELSE req.generate
ServicesOf(t) ==
  LET others == SelectSeq(req.generate, LAMBDA f : f # t)
  IN  services[t] \o (IF req.flags.allowMerge THEN FlattenSeq([k \in DOMAIN others |-> services[others[k]]])
                      ELSE << >>)

\* What is labelled is shown when the document is for one of its labels.
isVisible(x) == x.labels = {} \/ x.labels \cap req.flags.selectors # {}

-----------------------------------------------------------------------------
(* Types and their names. *)

Joined(words, separator) ==
  FoldLeft(LAMBDA text, w : IF text = "" THEN w ELSE text \o separator \o w, "", words)
FieldName(name) == IF req.flags.useJSONNames THEN JsonName(name) ELSE name
ParamName(path) == Joined([k \in DOMAIN path |-> FieldName(path[k])], ".")

\* AddErrorDefs: types that are registered before those of the request.
ErrorDefs ==
  << Message(".google.rpc.Status", << Scalar("code", "int32"), Scalar("message", "string"),
                                      Repeated(Nested("details", ".google.protobuf.Any")) >>),
     Message(".google.protobuf.Any", << Scalar("type_url", "string"), Scalar("value", "bytes") >>) >>
AllMessages ==
  LET loaded == UNION { ToSet(File(f).msgs) : f \in DOMAIN goPkg }
  IN  loaded \cup { e \in ToSet(ErrorDefs) : \A m \in loaded : m.name # e.name }
MessageOf(type) == CHOOSE m \in AllMessages : m.name = type
MessageNames == { m.name : m \in AllMessages }
EnumNames == UNION { File(f).enums : f \in DOMAIN goPkg }
VisibleFields(type) == SelectSeq(MessageOf(type).fields, isVisible)

\* resolveNamesUniqueWithContext: the shortest unique end of a name, and more.
UniqueEnd(type, extraContext, separator) ==
  LET hierarchy(t) == <<"">> \o Components(t)
      h == hierarchy(type)
      End(g, d) == SubSeq(g, Len(g) - d + 1, Len(g))
      Unique(d) == \A t \in (MessageNames \cup EnumNames) \ {type} :
                     Len(hierarchy(t)) > d => End(hierarchy(t), d) # End(h, d)
      enough == { d \in 0..Len(h) : d = Len(h) \/ (d + extraContext > 0 /\ Unique(d)) }
      depth == CHOOSE d \in enough : \A e \in enough : d <= e
      kept == IF depth + extraContext > Len(h) THEN Len(h) ELSE depth + extraContext
  IN  Joined(End(h, kept), separator)

\* fullyQualifiedNameToOpenAPIName
OpenAPIName(type) ==
  CASE req.flags.naming = "fqn" -> Joined(Components(type), ".")
    [] req.flags.naming = "simple" -> UniqueEnd(type, 0, ".")
    [] req.flags.naming = "legacy" -> UniqueEnd(type, 1, "")

\* wktSchemas: well-known types have a schema of their own; Empty's is empty.
wktSchemas ==
  LET Of(type, names) == [n \in { ".google.protobuf." \o x : x \in names } |-> type]
  IN  Of("string", {"FieldMask", "Timestamp", "Duration", "StringValue", "BytesValue", "Int64Value",
                    "UInt64Value", "NullValue"})
      @@ Of("integer", {"Int32Value", "UInt32Value"}) @@ Of("number", {"FloatValue", "DoubleValue"})
      @@ Of("boolean", {"BoolValue"}) @@ Of("", {"Empty"}) @@ Of("object", {"Struct", "Value"})
      @@ Of("array", {"ListValue"})
skipRenderingRef(type) == type \in DOMAIN wktSchemas

Schema(type, items, ref) == [type |-> type, items |-> items, ref |-> ref]
NoItems == "none"

\* schemaOfField: of a map's entry the value counts.  A schema that refers to
\* a type has none of its own.
schemaOfField(f) ==
  LET entry == f.type = "message" /\ f.typeName \in MessageNames /\ MessageOf(f.typeName).mapEntry
      g == IF entry THEN MessageOf(f.typeName).fields[2] ELSE f
      composite == g.type \in {"message", "enum"}
      ref == IF composite /\ ~skipRenderingRef(g.typeName) THEN g.typeName ELSE ""
      type == IF ref # "" THEN "" ELSE IF composite THEN wktSchemas[g.typeName] ELSE g.type
  IN  IF entry THEN Schema("object", NoItems, ref)
      ELSE IF g.repeated THEN Schema("array", type, ref)
      ELSE Schema(type, IF composite /\ g.typeName = ".google.protobuf.ListValue" THEN "object" ELSE NoItems, ref)
RefsOf(fields) == { schemaOfField(f).ref : f \in fields } \ {""}

-----------------------------------------------------------------------------
(* Parameters. *)

\* The field a path leads to, and the message that declares it.
Target(meth, path) ==
  <<IF Len(path) = 1 THEN meth.input
    ELSE (CHOOSE f \in resolveFieldPath(meth.input, Front(path), TRUE) : TRUE).typeName, Last(path)>>

\* Mutant: the field of the body is offered in the query, too.
BoundAbovePath(x) == { Target(x.meth, p.path) : p \in ToSet(x.b.params) }

\* The fields the path or the body of a binding has.
Bound(x) ==
  { Target(x.meth, p.path) : p \in ToSet(x.b.params) }
    \cup (IF x.b.body \in { << >>, <<"*">> } THEN {} ELSE { Target(x.meth, x.b.body) })

\* cycleChecker.Check: how often a message's short name was seen.
ShortName(type) == Last(Components(type))
Seen(cycle, type) == IF ShortName(type) \in DOMAIN cycle THEN cycle[ShortName(type)] ELSE 0

\* nestedQueryParams: the paths of the query parameters of field f in message
\* m, and the count of messages seen, or an error when one was seen too often.
\* The fields of a message share one count.
RECURSIVE nestedQueryParams(_, _, _, _, _)
nestedQueryParams(bound, m, f, prefix, cycle) ==
  LET schema == schemaOfField(f)
      path == Append(prefix, f.name)
      Found(found) == [ok |-> TRUE, found |-> found, cycle |-> cycle]
      expressible == \/ f.type = "enum"
                     \/ schema.type # "object" /\ schema.items \notin {"", "object"}
      within == (ShortName(f.typeName) :> Seen(cycle, f.typeName) + 1) @@ cycle
      Join(acc, g) ==
        LET more == nestedQueryParams(bound, f.typeName, g, path, acc.cycle)
        IN  IF acc.ok THEN [ok |-> more.ok, found |-> acc.found \o more.found, cycle |-> more.cycle] ELSE acc
      inner == FoldLeft(Join, [ok |-> TRUE, found |-> << >>, cycle |-> within], VisibleFields(f.typeName))
  IN  IF <<m, f.name>> \in bound THEN Found(<< >>)
      ELSE IF schema.type # "" \/ f.type = "enum" THEN Found(IF expressible THEN << path >> ELSE << >>)
      ELSE IF Seen(cycle, f.typeName) + 1 > req.flags.recursiveDepth
           THEN [ok |-> FALSE, found |-> << >>, cycle |-> cycle]
      ELSE [inner EXCEPT !.cycle = within]

\* messageToQueryParameters, each field with a count of its own.
QueryParams(x) ==
  LET Of(f) == nestedQueryParams(Bound(x), x.meth.input, f, << >>, << >>)
      all == [k \in DOMAIN VisibleFields(x.meth.input) |-> Of(VisibleFields(x.meth.input)[k])]
  IN  IF x.b.body = <<"*">> THEN [ok |-> TRUE, found |-> << >>]
      ELSE [ok |-> \A k \in DOMAIN all : all[k].ok, found |-> FlattenSeq([k \in DOMAIN all |-> all[k].found])]

\* subPathParams: of the paths that go through name, what is below it.
subPathParams(name, params) ==
  { Tail(p) : p \in { q \in params : Len(q) > 1 /\ Head(q) = name } }

\* renderMessageAsDefinition: the fields shown, as paths, and the types their
\* schemas refer to; parameters of the path are left out.
RECURSIVE renderMessageAsDefinition(_, _)
renderMessageAsDefinition(type, params) ==
  LET shown == { f \in ToSet(VisibleFields(type)) : << f.name >> \notin params }
      Inner(f) == renderMessageAsDefinition(f.typeName, subPathParams(f.name, params))
      plain == { f \in shown : subPathParams(f.name, params) = {} }
  IN  [fields |-> { << f.name >> : f \in plain }
                    \cup UNION { { << f.name >> \o p : p \in Inner(f).fields } : f \in shown \ plain },
       refs |-> RefsOf(plain) \cup UNION { Inner(f).refs : f \in shown \ plain }]

\* The body parameter: a type it refers to, or the fields it shows itself.
NoBody == [name |-> "", ref |-> "", fields |-> {}, refs |-> {}]
BodyParam(x) ==
  LET params == { p.path : p \in ToSet(x.b.params) }
      Ref(name, type) == [name |-> name, ref |-> type, fields |-> {}, refs |-> {}]
      Inline(name, type, ps) ==
        [name |-> name, ref |-> "", fields |-> renderMessageAsDefinition(type, ps).fields,
         refs |-> renderMessageAsDefinition(type, ps).refs]
      field == CHOOSE f \in resolveFieldPath(x.meth.input, x.b.body, FALSE) : TRUE
      bodyFieldName == ParamName(x.b.body)
      below == subPathParams(bodyFieldName, params)
  IN  CASE x.b.body = << >> -> NoBody
        [] x.b.body = <<"*">> /\ skipRenderingRef(x.meth.input) -> Ref("body", "")
        [] x.b.body = <<"*">> /\ ~skipRenderingRef(x.meth.input) ->
             IF params = {} THEN Ref("body", x.meth.input) ELSE Inline("body", x.meth.input, params)
        [] OTHER ->
             IF below = {} THEN [Ref(bodyFieldName, schemaOfField(field).ref) EXCEPT !.refs = RefsOf({field})]
             ELSE Inline(bodyFieldName, field.typeName, below)

-----------------------------------------------------------------------------
(* Paths and operations. *)

Variable(name) == [name |-> name, atom |-> << >>]

\* partsToOpenAPIPath: a variable stands for all it spans.
PathOf(x) ==
  LET t == x.b.tmpl
      Over(k) == { v \in ToSet(t.vars) : v.from <= k /\ k <= v.to }
      Part(k) == IF Over(k) = {} THEN << [name |-> "", atom |-> t.atoms[k]] >>
                 ELSE LET v == CHOOSE v \in Over(k) : TRUE
                      IN  IF v.from = k THEN << Variable(ParamName(v.name)) >> ELSE << >>
  IN  [parts |-> FlattenSeq([k \in DOMAIN t.atoms |-> Part(k)]), verb |-> t.verb]
Renamed(path, old, new) ==
  [path EXCEPT !.parts = [k \in DOMAIN path.parts |->
     IF path.parts[k].name = old THEN Variable(new) ELSE path.parts[k]]]

Standard == {"GET", "POST", "PUT", "DELETE", "PATCH"}
Taken(path, http) == path \in DOMAIN paths /\ http \in DOMAIN paths[path]

\* The name of a parameter that is bound to a path taken: the first free one.
FreeName(path, http, name) ==
  LET free == { k \in 1..(Cardinality(DOMAIN paths) + 1) : ~Taken(Renamed(path, name, Numbered(name, k)), http) }
  IN  Numbered(name, CHOOSE k \in free : \A j \in free : k <= j)

\* Mutant: an operation takes the place of another at its path.
PlaceOver(x) == [path |-> PathOf(x), names |-> [k \in DOMAIN x.b.params |-> ParamName(x.b.params[k].path)]]

\* Where the operation goes and what its path parameters are called there.
\* One without path parameters takes the place of the other.
Place(x) ==
  LET names == [k \in DOMAIN x.b.params |-> ParamName(x.b.params[k].path)]
      fresh == FreeName(PathOf(x), x.b.http, names[1])
  IN  IF Taken(PathOf(x), x.b.http) /\ names # << >>
      THEN [path |-> Renamed(PathOf(x), names[1], fresh), names |-> [names EXCEPT ![1] = fresh]]
      ELSE [path |-> PathOf(x), names |-> names]

ResponseRef(x) ==
  IF x.b.resp # << >> THEN RefsOf({ CHOOSE f \in resolveFieldPath(x.meth.output, x.b.resp, FALSE) : TRUE })
  ELSE IF skipRenderingRef(x.meth.output) THEN {} ELSE {x.meth.output}
ErrorRef(x) ==
  IF x.meth.serverStreaming \/ ~req.flags.disableDefaultErrors THEN {".google.rpc.Status"} ELSE {}

OperationID(x) ==
  (IF req.flags.simpleOperationIDs THEN x.meth.name ELSE ShortName(x.svc.name) \o "_" \o x.meth.name)
    \o (IF x.b.index = 0 THEN "" ELSE ToString(x.b.index + 1))

Operation(x) ==
  [key |-> Key(x), id |-> OperationID(x), pathParams |-> Place(x).names, body |-> BodyParam(x),
   query |-> QueryParams(x).found,
   refs |-> ResponseRef(x) \cup ErrorRef(x) \cup ({BodyParam(x).ref} \ {""})]

\* What renderServices returns an error for, or dereferences nil.
Failing(x) ==
  \/ x.b = NoBinding
  \/ \E p \in ToSet(x.b.params) : p.field.type = "message" /\ p.field.repeated
  \/ Len(x.b.body) > 1
  \/ ~QueryParams(x).ok
  \/ x.b.http \notin Standard /\ PathOf(x) \in DOMAIN paths

-----------------------------------------------------------------------------
(* Definitions. *)

\* Whatever Grow adds, again and again, at most once for every type.
Closure(start, Grow(_)) ==
  FoldLeft(LAMBDA all, n : all \cup Grow(all), start, [n \in 1..Cardinality(MessageNames \cup EnumNames) |-> n])

TypesBelow(type) ==
  IF type \in MessageNames THEN { f.typeName : f \in ToSet(VisibleFields(type)) } \ {""} ELSE {}
Rendered(type) == ~(type \in MessageNames /\ (skipRenderingRef(type) \/ MessageOf(type).mapEntry))

\* Of every method, shown or not: the request when a body refers to it, the
\* response, and all types of the fields below both; and the error.
findServicesMessagesAndEnumerations(t) ==
  LET methods == UNION { ToSet(svc.methods) : svc \in ToSet(ServicesOf(t)) }
      tops == UNION { {m.input, m.output} : m \in methods }
      below == Closure(UNION { TypesBelow(type) : type \in tops },
                       LAMBDA all : UNION { TypesBelow(type) : type \in all })
  IN  { type \in below : Rendered(type) }
        \cup { m.input : m \in { n \in methods : OpenAPIName(n.input) \in requestRefs
                                                   /\ ~skipRenderingRef(n.input) } }
        \cup { m.output : m \in { n \in methods : ~skipRenderingRef(n.output) } }
        \cup (IF req.flags.disableDefaultErrors THEN {} ELSE {".google.rpc.Status"})

DefinitionRefs(type) ==
  IF type \in MessageNames THEN RefsOf(ToSet(VisibleFields(type))) ELSE {}

\* Mutant: only what the methods mention is defined.
DefinitionsMentioned(t) == findServicesMessagesAndEnumerations(t)

\* The types defined: those found, and what schemas refer to beyond them as
\* long as nothing has its name (addCustomRefs).
Definitions(t) ==
  LET Missing(all) ==
        LET names == { OpenAPIName(type) : type \in all }
        IN  { r \in customRefs \cup UNION { DefinitionRefs(type) : type \in all } : OpenAPIName(r) \notin names }
  IN  Closure(findServicesMessagesAndEnumerations(t), Missing)

-----------------------------------------------------------------------------
OpenAPIInit ==
  /\ documented = 0 /\ rendered = 0 /\ paths = << >> /\ requestRefs = {} /\ customRefs = {}
  /\ docs = << >> /\ docPhase = "running"

Current == Targets[documented + 1]
Writing == ToGenerate \subseteq DOMAIN services /\ docPhase = "running"

\* renderServices, for the next binding.  A method that is none of OpenAPI's
\* leaves a path without an operation for it.
RenderBinding ==
  /\ Writing /\ rendered < Len(Ordered(ServicesOf(Current)))
  /\ LET x == Ordered(ServicesOf(Current))[rendered + 1]
         place == Place(x).path
         item == IF place \in DOMAIN paths THEN paths[place] ELSE << >>
     IN  \/ /\ ~(isVisible(x.svc) /\ isVisible(x.meth))
            /\ UNCHANGED <<paths, requestRefs, customRefs, docPhase>>
         \/ /\ isVisible(x.svc) /\ isVisible(x.meth)
            /\ IF Failing(x)
               THEN docPhase' = "panicked" /\ UNCHANGED <<paths, requestRefs, customRefs>>
               ELSE /\ paths' = (place :> IF x.b.http \in Standard THEN (x.b.http :> Operation(x)) @@ item ELSE item)
                                  @@ paths
                    /\ requestRefs' = requestRefs \cup
                         (IF BodyParam(x).ref = "" THEN {} ELSE {OpenAPIName(BodyParam(x).ref)})
                    /\ customRefs' = customRefs \cup BodyParam(x).refs
                         \cup RefsOf({ p.field : p \in ToSet(x.b.params) })
                         \cup (IF x.b.resp = << >> THEN {} ELSE ResponseRef(x))
                    /\ UNCHANGED docPhase
  /\ rendered' = rendered + 1
  /\ UNCHANGED <<documented, docs>>

\* The rest of applyTemplate: the document is complete.
RenderDefinitions ==
  /\ Writing /\ rendered = Len(Ordered(ServicesOf(Current)))
  /\ docs' = (Current :> [paths |-> paths, definitions |-> Definitions(Current),
                          tags |-> { ShortName(s.name) : s \in { t \in ToSet(ServicesOf(Current)) : isVisible(t) } }])
               @@ docs
  /\ documented' = documented + 1
  /\ rendered' = 0 /\ paths' = << >> /\ requestRefs' = {} /\ customRefs' = {}
  /\ docPhase' = IF documented' = Len(Targets) THEN "done" ELSE docPhase

Document == (RenderBinding \/ RenderDefinitions) /\ UNCHANGED descriptorVars
=============================================================================
