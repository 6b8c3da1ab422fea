------------------------------ MODULE Generator ------------------------------
(***************************************************************************)
(* protoc-gen-grpc-gateway: what it generates, once Descriptors has loaded *)
(* the files, for one target after the other.  A binding's code is the     *)
(* list of its steps; what the steps do in a request is the subject of     *)
(* RequestHandler, Streaming and Decoding.                                 *)
(*                                                                         *)
(* Bounds: files have proto3 syntax, message names are in camel case, and  *)
(* the plug-in is not run with standalone.                                 *)
(***************************************************************************)
EXTENDS Descriptors

PathTemplate == INSTANCE PathTemplate

VARIABLES
  annotations,  \* annotationMap: the method, template and service of every binding
  checked,      \* CheckedFields of the messages, the memory of HasRule
  generated,    \* the number of targets done
  gen,          \* what the generation is at; not "running" when it has ended
  code          \* the code of each file that has some

generatorVars == <<annotations, checked, generated, gen, code>>

-----------------------------------------------------------------------------
(* Imports. *)

\* The bindings of a file, as in Ordered; here their order does not matter.
BindingsOf(f) ==
  UNION { UNION { { [svc |-> svc, meth |-> meth, b |-> b] : b \in ToSet(meth.bindings) } :
                    meth \in ToSet(svc.methods) } : svc \in ToSet(services[f]) }
FileOf(message) == (CHOOSE m \in LookupMsg(message) : TRUE).file

\* addEnumPathParamImports, and the packages of the request messages.  A
\* package is imported once, however many methods name it.
Imports(f) ==
  LET needed == { goPkg[FileOf(x.meth.input)] : x \in BindingsOf(f) }
        \cup (UNION { { goPkg[e] : e \in UNION { LookupEnum(x.b.params[k].field.typeName) : k \in DOMAIN x.b.params } } :
                        x \in BindingsOf(f) })
  IN  BaseImports \cup
      { p \in needed : p # goPkg[f] /\ \A q \in BaseImports : q.path # p.path }

-----------------------------------------------------------------------------
(* Validators. *)

\* Mutant: the first field decides.
HasRuleFirst(name, memo) ==
  [has |-> (CHOOSE r \in LookupMsg(name) : TRUE).fields[1].rules # << >>, memo |-> memo]

\* What is remembered: the fields asked, by message and type, and the ones with a rule.
Memos == LET Fields == STRING \X STRING IN [asked : SUBSET Fields, ruled : SUBSET Fields]

\* HasRule: some field has a rule, or a message below it has.  What a field's
\* message answered is remembered, and is no while it is being asked.
HasRule(name, memo) ==
  LET answer[n \in STRING, known \in Memos] ==
        LET AskField(acc, f) ==
              LET key == <<n, f.typeName>>
                  asking == [acc.memo EXCEPT !.asked = @ \cup {key}]
                  inner == IF f.typeName = n \/ LookupMsg(f.typeName) = {}
                           THEN [has |-> FALSE, memo |-> asking]
                           ELSE answer[f.typeName, asking]
              IN  IF acc.has THEN acc
                  ELSE IF f.rules # << >> THEN [acc EXCEPT !.has = TRUE]
                  ELSE IF f.type # "message" THEN acc
                  ELSE IF key \in acc.memo.asked THEN [acc EXCEPT !.has = key \in acc.memo.ruled]
                  ELSE IF inner.has THEN [inner EXCEPT !.memo.ruled = @ \cup {key}]
                  ELSE inner
        IN  FoldLeft(AskField, [has |-> FALSE, memo |-> known],
                     (CHOOSE r \in LookupMsg(n) : TRUE).fields)
  IN  answer[name, memo]

\* HasRule of one message after the other; the first answer is nobody's.
Ask(names, memo) ==
  FoldLeft(LAMBDA answers, n : Append(answers, HasRule(n, Last(answers).memo)),
           << [has |-> FALSE, memo |-> memo] >>, names)

\* The test generated for a rule: none when its operator does not fit its type.
Fits(rule) ==
  CASE rule.op = "EQ" -> TRUE
    [] rule.op \in {"GT", "LT"} -> rule.type = "NUMBER"
    [] rule.op = "NON_NIL" -> rule.type = "OBJ"
    [] OTHER -> rule.type = "STRING"
Validator(m) ==
  FlattenSeq([k \in DOMAIN m.fields |->
    LET kept == SelectSeq(m.fields[k].rules, Fits)
    IN  [j \in DOMAIN kept |-> [field |-> m.fields[k].name, rule |-> kept[j]]]])

-----------------------------------------------------------------------------
(* The code of a binding. *)

Step(do, at) == [do |-> do, at |-> at, as |-> ""]
Assign(at, type) == [do |-> "assign", at |-> at, as |-> type]
Populate(at) == Step("populate", at)
Body(at) == Step("body", at)
Mask(at) == Step("mask", at)
Query == Step("query", << >>)
Validate(message) == [do |-> "validate", at |-> << >>, as |-> message]
Call == Step("call", << >>)
Hooked == << Step("parsed", << >>), Step("balance", << >>), Call, Step("handled", << >>) >>

\* FieldMaskField: the only field that is a mask.
FieldMaskField(message) ==
  LET masks == { f \in UNION { ToSet(m.fields) : m \in LookupMsg(message) } :
                   f.typeName = ".google.protobuf.FieldMask" }
  IN  { f.name : f \in { g \in masks : masks = {g} } }

BodySteps(meth, b) ==
  IF b.body = << >> THEN << >>
  ELSE << Body(b.body) >> \o
       (IF req.flags.allowPatchFeature /\ b.http = "PATCH" /\ FieldMaskField(meth.input) # {} /\ b.body # <<"*">>
        THEN << Mask(<< CHOOSE n \in FieldMaskField(meth.input) : TRUE >>) >>
        ELSE << >>)

ParamSteps(p) ==
  LET enum == LookupEnum(p.field.typeName) # {}
  IN  IF Len(p.path) > 1 THEN << Populate(p.path) >> \o (IF enum THEN << Assign(p.path, "enum") >> ELSE << >>)
      ELSE << Assign(p.path, IF enum THEN "enum" ELSE p.field.type) >>

\* HasQueryParam: some field of the request is neither the body nor a parameter.
HasQueryParam(meth, b) ==
  LET fields == UNION { { <<f.name>> : f \in ToSet(m.fields) } : m \in LookupMsg(meth.input) }
  IN  b.body # <<"*">> /\ fields \ ({b.body} \cup { p.path : p \in ToSet(b.params) }) # {}

\* Mutant: the query may set what the body has set.
QueryParamFilterOfParams(b) == { p.path : p \in ToSet(b.params) }

\* What the query may not set: the body and the parameters.
QueryParamFilter(b) == ({b.body} \ {<< >>}) \cup { p.path : p \in ToSet(b.params) }

ParseSteps(meth, b) ==
  BodySteps(meth, b)
    \o FlattenSeq([k \in DOMAIN b.params |-> ParamSteps(b.params[k])])
    \o (IF HasQueryParam(meth, b) THEN << Query >> ELSE << >>)

\* handlerTemplate: what a request of the binding does.
RequestFunc(meth, b, validated) ==
  IF meth.clientStreaming THEN << Step("stream", << >>) >>
  ELSE ParseSteps(meth, b)
         \o (IF meth.serverStreaming THEN << Call >>
             ELSE (IF validated THEN << Validate(meth.input) >> ELSE << >>) \o Hooked)

\* localHandlerTemplate: the server is called in the process; no streams.
LocalRequestFunc(meth, b) ==
  IF meth.clientStreaming \/ meth.serverStreaming THEN << >> ELSE ParseSteps(meth, b) \o << Call >>

\* The external compiler puts a text into the pool where it first uses it.
Pool(tmpl) ==
  LET atom(k) == IF tmpl.atoms[k].kind = "lit" THEN << tmpl.atoms[k].text >> ELSE << >>
      ends(k) == LET v == SelectSeq(tmpl.vars, LAMBDA x : x.to = k) IN [j \in DOMAIN v |-> v[j].name]
      texts == FlattenSeq([k \in DOMAIN tmpl.atoms |-> atom(k) \o ends(k)])
  IN  FoldLeft(LAMBDA pool, t : IF t \in ToSet(pool) THEN pool ELSE Append(pool, t), << >>, texts)
Pattern(tmpl) ==
  [ops |-> PathTemplate!Compile(tmpl, Pool(tmpl)), pool |-> Pool(tmpl), verb |-> tmpl.verb]

-----------------------------------------------------------------------------
(* The code of a file. *)

Table(bindings, Value(_)) ==
  [k \in { Key(x) : x \in ToSet(bindings) } |-> Value(CHOOSE x \in ToSet(bindings) : Key(x) = k)]

\* The messages whose HasRule is asked: for the imports, by the validators'
\* template, and for each unary handler.
Asked(f) ==
  LET inputs == FlattenSeq([s \in DOMAIN services[f] |->
                  [m \in DOMAIN services[f][s].methods |-> services[f][s].methods[m].input]])
      unary == SelectSeq(Ordered(services[f]), LAMBDA x : ~x.meth.clientStreaming /\ ~x.meth.serverStreaming)
  IN  [inputs |-> inputs, messages |-> [k \in DOMAIN File(f).msgs |-> File(f).msgs[k].name],
       handlers |-> [k \in DOMAIN unary |-> unary[k].meth.input]]

\* init: a service is registered when one of its methods has a binding.
InitServices(f) == { x.svc : x \in ToSet(Ordered(services[f])) }

\* Register...Server: a binding is answered by its local function; streams are
\* not implemented there.
ServerHandler(x) ==
  [key |-> Key(x), http |-> x.b.http, streams |-> x.meth.clientStreaming \/ x.meth.serverStreaming]

\* Register...Client: an AddMethod and a Handle for each binding.
ClientHandler(x) == [key |-> Key(x), http |-> x.b.http, path |-> x.b.tmpl.text, login |-> x.meth.loginRequired]

Forward(x) == IF x.meth.serverStreaming THEN "stream" ELSE "message"

CodeOf(f, defined, validated) ==
  LET bindings == Ordered(services[f])
  IN  [imports |-> Imports(f),
       validators |-> [m \in defined |-> Validator(CHOOSE r \in LookupMsg(m) : TRUE)],
       filter |-> Table(SelectSeq(bindings, LAMBDA x : ~x.meth.clientStreaming /\ HasQueryParam(x.meth, x.b)),
                        LAMBDA x : QueryParamFilter(x.b)),
       request |-> Table(bindings, LAMBDA x : RequestFunc(x.meth, x.b, x.meth.input \in validated)),
       local |-> Table(SelectSeq(bindings, LAMBDA x : ~x.meth.clientStreaming /\ ~x.meth.serverStreaming),
                       LAMBDA x : LocalRequestFunc(x.meth, x.b)),
       server |-> [k \in DOMAIN bindings |-> ServerHandler(bindings[k])],
       client |-> [k \in DOMAIN bindings |-> ClientHandler(bindings[k])],
       pattern |-> Table(bindings, LAMBDA x : Pattern(x.b.tmpl)),
       forward |-> Table(bindings, Forward),
       response |-> Table(SelectSeq(bindings, LAMBDA x : x.b.resp # << >>), LAMBDA x : x.b.resp),
       services |-> { s.name : s \in InitServices(f) },
       groups |-> { s.name : s \in { t \in InitServices(f) : t.controller } }]

\* CheckDuplicateAnnotation: the same method and template twice in a service,
\* or again when the file is generated a second time.
Annotation(x) == <<x.b.http, x.b.tmpl.text, x.svc.name>>
Duplicated(bindings) ==
  \/ \E i, j \in DOMAIN bindings : i < j /\ Annotation(bindings[i]) = Annotation(bindings[j])
  \/ \E i \in DOMAIN bindings : Annotation(bindings[i]) \in annotations

\* A controlled group with the balancer CONSISTENT is generated as code that
\* does not parse, which format.Source reports.
Unparsable(f) == \E s \in InitServices(f) : s.controller /\ s.balancer = "CONSISTENT"

\* generate and applyTemplate for the next target.  Nothing is written unless
\* every target succeeds; a file without bindings has no code.
Generate(f) ==
  /\ phase = "loaded" /\ gen = "running" /\ f = req.generate[generated + 1]
  /\ LET bindings == Ordered(services[f])
         asked == Ask(Asked(f).inputs \o Asked(f).messages \o Asked(f).handlers, checked)
         from == 1 + Len(Asked(f).inputs)
         to == from + Len(Asked(f).messages)
         defined == { Asked(f).messages[k] : k \in { j \in DOMAIN Asked(f).messages : asked[from + j].has } }
         validated == { Asked(f).handlers[k] : k \in { j \in DOMAIN Asked(f).handlers : asked[to + j].has } }
     IN  \/ /\ \E x \in ToSet(bindings) : x.b = NoBinding
            /\ gen' = "panicked" /\ UNCHANGED <<annotations, checked, generated, code>>
         \/ /\ \A x \in ToSet(bindings) : x.b # NoBinding
            /\ generated' = generated + 1
            /\ checked' = Last(asked).memo
            /\ annotations' = annotations \cup { Annotation(x) : x \in ToSet(bindings) }
            /\ \/ /\ Duplicated(bindings) \/ Unparsable(f)
                  /\ gen' = "failed" /\ code' = << >>
               \/ /\ ~Duplicated(bindings) /\ ~Unparsable(f)
                  /\ code' = IF bindings = << >> THEN code
                             ELSE [g \in DOMAIN code \cup {f} |->
                                     IF g = f THEN CodeOf(f, defined, validated) ELSE code[g]]
                  /\ gen' = IF generated' = Len(req.generate) THEN "done" ELSE gen
  /\ UNCHANGED descriptorVars

-----------------------------------------------------------------------------
GeneratorInit ==
  /\ annotations = {} /\ checked = [asked |-> {}, ruled |-> {}]
  /\ generated = 0 /\ gen = "running" /\ code = << >>

GeneratorNext ==
  \/ Load /\ UNCHANGED generatorVars
  \/ \E f \in ToGenerate : Generate(f)

\* The gateway's plug-in alone.
GeneratorSpec ==
  DescriptorsInit /\ GeneratorInit /\ [][GeneratorNext]_<<descriptorVars, generatorVars>>

-----------------------------------------------------------------------------
(* Properties. *)

\* The packages whose types the code of a file names.
PackagesNamed(f) ==
  LET files(x) == {FileOf(x.meth.input)}
        \cup (UNION { LookupEnum(p.field.typeName) : p \in ToSet(x.b.params) })
        \cup (IF x.b.resp = << >> THEN {} ELSE {FileOf(x.meth.output)})
  IN  { p \in UNION { { goPkg[g] : g \in files(x) } : x \in BindingsOf(f) } : p.path # goPkg[f].path }

\* No loaded package has the name of an alias New did not reserve or is one of
\* its imports, and no binding picks a response's field from another package.
WellNamed(f) ==
  /\ \A g \in DOMAIN goPkg : \A p \in BaseImports :
       goPkg[g].path # p.path /\ (p.alias # "" => goPkg[g].name # p.alias)
  /\ \A x \in BindingsOf(f) : x.b.resp # << >> => goPkg[FileOf(x.meth.output)].path = goPkg[f].path

\* The code of a file imports every package it names, once and under the name
\* it uses, no two packages under one name and none it does not name, in
\* whatever order the files were loaded.
ImportsSound ==
  \A f \in DOMAIN code : WellNamed(f) =>
    LET imports == code[f].imports
    IN  /\ PackagesNamed(f) = imports \ BaseImports
        /\ \A p, q \in imports : Pkg(p) = Pkg(q) \/ p.path = q.path => p = q

\* A unary binding whose request message has a rule of its own checks it before
\* the hook sees the request as parsed, with a validator that its file defines
\* and that tests every rule whose operator fits, whatever messages contain
\* each other and were asked before.  The message is one of the file's own.
RulesGuarded ==
  \A f \in DOMAIN code : \A x \in BindingsOf(f) :
    LET input == x.meth.input
        rules_ == UNION { { <<fd.name, r>> : r \in ToSet(fd.rules) } :
                            fd \in UNION { ToSet(m.fields) : m \in LookupMsg(input) } }
        steps == code[f].request[Key(x)]
        checks == \E i, j \in DOMAIN steps : i < j /\ steps[i] = Validate(input) /\ steps[j].do = "parsed"
    IN  f = FileOf(input) /\ ~x.meth.clientStreaming /\ ~x.meth.serverStreaming =>
          /\ rules_ # {} => checks
          /\ checks => /\ input \in DOMAIN code[f].validators
                       /\ { <<c.field, c.rule>> : c \in ToSet(code[f].validators[input]) }
                            = { r \in rules_ : Fits(r[2]) }

\* What a service declares: per method the configured rules in their order and
\* the annotation, each with its additional bindings; or the default.
DeclaredRules(svc, meth) ==
  LET Mine(c) == IF c.selector = <<svc.name, meth.name>> THEN << c.rule >> ELSE << >>
  IN  FlattenSeq([k \in DOMAIN req.configured |-> Mine(req.configured[k])]) \o meth.rule
DeclaredBy(svc, meth) ==
  LET declared == DeclaredRules(svc, meth)
      Handler(http, path) == << <<svc.name, meth.name, http, path>> >>
      Given(r) == IF r.http = "none" THEN << >> ELSE Handler(r.http, r.tmpl.text)
      More(r) == FlattenSeq([k \in DOMAIN r.additional |-> Given(r.additional[k])])
  IN  IF declared = << >> /\ req.flags.generateUnboundMethods
      THEN Handler("POST", "/" \o svc.name \o "/" \o meth.name)
      ELSE FlattenSeq([k \in DOMAIN declared |-> Given(declared[k]) \o More(declared[k])])
DeclaredHandlers(f) ==
  FlattenSeq([s \in DOMAIN File(f).services |->
    LET svc == File(f).services[s]
    IN  FlattenSeq([m \in DOMAIN svc.methods |-> DeclaredBy(svc, svc.methods[m])])])

\* A run that succeeds generates a handler for every declared rule, in order,
\* each with names of its own, and none that another of its service would hide.
ServesDeclared ==
  gen = "done" =>
    \A f \in ToGenerate :
      LET handlers == IF f \in DOMAIN code THEN code[f].client ELSE << >>
          Named(h) == <<h.key[1], h.key[2], h.http, h.path>>
      IN  /\ [k \in DOMAIN handlers |-> Named(handlers[k])] = DeclaredHandlers(f)
          /\ \A i, j \in DOMAIN handlers : i # j =>
               /\ handlers[i].key # handlers[j].key
               /\ <<handlers[i].key[1], handlers[i].http, handlers[i].path>>
                    # <<handlers[j].key[1], handlers[j].http, handlers[j].path>>
=============================================================================
