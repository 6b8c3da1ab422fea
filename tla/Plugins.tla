------------------------------- MODULE Plugins -------------------------------
(***************************************************************************)
(* Both plug-ins on one request, with the same configuration and flags, as *)
(* protoc is run with them: the gateway's code and the document that       *)
(* describes it.  Each is a process of its own and loads the request       *)
(* itself.  What is loaded depends on the request alone but for the names  *)
(* of packages, which documents do not contain, so one loading stands for  *)
(* both.  Documents are written although a configured rule has no method.  *)
(***************************************************************************)
EXTENDS Generator, OpenAPI

vars == <<descriptorVars, generatorVars, docVars>>

Init == DescriptorsInit /\ GeneratorInit /\ OpenAPIInit

Next ==
  \/ GeneratorNext /\ UNCHANGED docVars
  \/ Document /\ UNCHANGED generatorVars

Spec == Init /\ [][Next]_vars

-----------------------------------------------------------------------------
(* Properties of documents. *)

Documented == DOMAIN docs
Operations(t) ==
  UNION { { [path |-> p, http |-> h, op |-> docs[t].paths[p][h]] : h \in DOMAIN docs[t].paths[p] } :
            p \in DOMAIN docs[t].paths }

\* Two types whose names differ only in where their dots are share a name in
\* the legacy scheme, although it is to yield unique names.
Ambiguous(t) == \E a, b \in docs[t].definitions : a # b /\ OpenAPIName(a) = OpenAPIName(b)

\* Every type an operation or a definition of a finished document refers to is
\* defined there, under a name nothing else is defined under, whatever the
\* fields shown and however deep the types are nested.  Excepted are names the
\* scheme makes ambiguous, and the error of a stream without default errors.
RefsResolve ==
  \A t \in Documented :
    LET referred == UNION { o.op.refs \cup o.op.body.refs : o \in Operations(t) }
          \cup UNION { DefinitionRefs(type) : type \in docs[t].definitions }
        excepted == IF req.flags.disableDefaultErrors THEN {".google.rpc.Status"} ELSE {}
    IN  ~Ambiguous(t) => referred \ excepted \subseteq docs[t].definitions

\* The visible bindings of a target that have a standard method.
Shown(t) ==
  { x \in ToSet(Ordered(ServicesOf(t))) : isVisible(x.svc) /\ isVisible(x.meth) /\ x.b.http \in Standard }

\* Every handler that is shown has exactly one operation, with its method, at
\* a path that has the parts of its template and names its parameters, in
\* however many ways templates coincide once their variables lose what they
\* span; and there is no operation besides.  Only one without parameters makes
\* place for another of the same method and path.
HandlersDocumented ==
  \A t \in Documented :
    LET Of(x) == { o \in Operations(t) : o.op.key = Key(x) }
        Literals(p) == [k \in DOMAIN p.parts |-> p.parts[k].atom]
        Names(p) == { p.parts[k].name : k \in DOMAIN p.parts } \ {""}
        Describes(x, o) ==
          /\ o.http = x.b.http /\ o.path.verb = x.b.tmpl.verb
          /\ Literals(o.path) = Literals(PathOf(x))
          /\ Names(o.path) = ToSet(o.op.pathParams) /\ Len(o.op.pathParams) = Len(x.b.params)
        replaced(x) == /\ x.b.params = << >>
                       /\ \E o \in Operations(t) : o.http = x.b.http /\ o.path = PathOf(x)
    IN  /\ \A x \in Shown(t) : \/ Cardinality(Of(x)) = 1 /\ \A o \in Of(x) : Describes(x, o)
                               \/ Of(x) = {} /\ replaced(x)
        /\ \A o \in Operations(t) : \E x \in Shown(t) : Key(x) = o.op.key

\* The paths, of one or two fields, that end in a visible field the query can
\* set: one that has a text form.
Text(f) == f.type = "message" => f.typeName \in WellKnown
QueryPaths(type) ==
  LET fields == ToSet(VisibleFields(type))
      Below(f) == { << f.name, g.name >> : g \in { h \in ToSet(VisibleFields(f.typeName)) : Text(h) } }
  IN  { << f.name >> : f \in { g \in fields : Text(g) } }
        \cup UNION { Below(f) : f \in { g \in fields : ~Text(g) /\ ~g.repeated } }

\* What the generated handler reads of a path in the query.
Accepts(x, path) ==
  /\ ~x.meth.clientStreaming /\ Query \in ToSet(ParseSteps(x.meth, x.b))
  /\ \A q \in QueryParamFilter(x.b) : ~IsPrefix(q, path)

\* An operation offers in the query what the generated handler accepts there,
\* each field once, and its body shows no field that the path sets.  Excepted
\* are fields whose declaration the path or the body binds elsewhere in the
\* request, which are left out, a client stream's, which are offered, and the
\* body of a field whose JSON name is not its name.
FieldsAgree ==
  \A t \in Documented : \A o \in Operations(t) :
    LET x == CHOOSE y \in Shown(t) : Key(y) = o.op.key
        offered == ToSet(o.op.query)
        accepted == { p \in QueryPaths(x.meth.input) : Accepts(x, p) }
        boundElsewhere(p) == \E n \in DOMAIN p : Target(x.meth, SubSeq(p, 1, n)) \in Bound(x)
        renamed == x.b.body \notin { << >>, <<"*">> } /\ ParamName(x.b.body) # x.b.body[1]
        shown == IF x.b.body = <<"*">> THEN o.op.body.fields ELSE { x.b.body \o p : p \in o.op.body.fields }
    IN  /\ Len(o.op.query) = Cardinality(offered)
        /\ x.meth.clientStreaming \/ { p \in offered : Len(p) <= 2 } \subseteq accepted
        /\ { p \in accepted : ~boundElsewhere(p) } \subseteq offered
        /\ ~renamed => \A k \in DOMAIN x.b.params : x.b.params[k].path \notin shown
=============================================================================
