------------------------------ MODULE Decoding ------------------------------
(***************************************************************************)
(* What a request is decoded to, stage by stage as the generated handler   *)
(* runs them: the hook's check of the headers, the metadata and the        *)
(* deadline of the outgoing call, the body and its field mask, the path    *)
(* parameters, the query, the validation rules and the load-balancing key. *)
(* RequestHandler has the same stages as steps that succeed or fail; here  *)
(* they are taken by value.                                                *)
(*                                                                         *)
(* A message is a function from the paths of its present fields to their   *)
(* values; a value is a sequence of strings, empty for a message.  Texts   *)
(* are a few tokens that the conversions tell apart.                       *)
(***************************************************************************)
EXTENDS Integers, Sequences, FiniteSets, SequencesExt

CONSTANTS
  Requests,  \* requests with their bindings: see the MC module
  Schema,    \* message type -> field -> [json, kind, msg, card, oneof, rules]
  Units,     \* Grpc-Timeout's units in nanoseconds, scaled down
  Wide       \* time.Duration counts from -Wide to Wide - 1

\* Durations are counted in some units; a Struct's fields are not in the schema.
ASSUME UnitsAssumption ==
  Wide \in Nat \ {0} /\ \A u \in DOMAIN Units : Units[u] \in Nat

ASSUME SchemaAssumption ==
  "Struct" \notin DOMAIN Schema /\ \A type \in DOMAIN Schema : DOMAIN Schema[type] \subseteq STRING

VARIABLES
  req,
  pc,        \* the stage, or how the request ended
  timeout,   \* 0 is none
  pairs,     \* metadata of the outgoing call, in order
  todo,      \* what the stage has not visited: headers, keys, messages
  msg,       \* protoReq
  walk,      \* populateFieldValueFromPath: [type, base, rest, values]
  mask,      \* the field mask's paths
  hashKey

vars == <<req, pc, timeout, pairs, todo, msg, walk, mask, hashKey>>

NoWalk == [type |-> "none", base |-> << >>, rest |-> << >>, values |-> << >>]
Ended == {"refused", "panicked", "called"}

Init ==
  /\ req \in Requests
  /\ pc = "hook" /\ timeout = 0 /\ pairs = << >> /\ todo = {}
  /\ msg = << >> /\ walk = NoWalk /\ mask = {} /\ hashKey = "none"

-----------------------------------------------------------------------------
\* Texts and what the conversions of package runtime make of them.  "long" is
\* a number of 40 bits.
Texts == {"1", "010", "0x7", "-1", "long", "true", "RED", "YWE=", "/w==", "_w==", "1.5s", "1m",
          "null", "hello"}

Same(ts) == [t \in ts |-> t]
Decimal == [t \in {"1", "010", "-1", "long"} |-> IF t = "010" THEN "10" ELSE t]
\* Base 0: the text's prefix chooses the base.
AnyBase == [t \in {"1", "010", "0x7", "-1", "long"} |->
              IF t = "010" THEN "8" ELSE IF t = "0x7" THEN "7" ELSE t]
Only(table, ts) == [t \in DOMAIN table \cap ts |-> table[t]]
Small == Texts \ {"long"}
Positive == Texts \ {"-1"}

\* ParseBool.
Bool == [t \in {"1", "true"} |-> "true"]

\* base64: standard, and the alphabet for URLs.
StdEncoding == Same({"YWE=", "/w==", "true", "null"})
URLEncoding == Same({"YWE=", "_w==", "true", "null"})

\* A path parameter: the functions of convert.go.
PathInteger ==
  [int32 |-> Only(AnyBase, Small), int64 |-> AnyBase,
   uint32 |-> Only(AnyBase, Small \cap Positive), uint64 |-> Only(AnyBase, Positive)]
PathPlain == [string |-> Same(Texts), bool |-> Bool, double |-> Decimal]
PathBytes == [bytes |-> Same(DOMAIN StdEncoding \cup DOMAIN URLEncoding)]
PathTime == [duration |-> Same({"1.5s"})]
PathEnum == [enum |-> [t \in {"RED", "1"} |-> "1"]]
PathWrapper == [boolValue |-> Bool, int32Value |-> PathInteger.int32]
PathValue ==
  [k \in DOMAIN PathInteger \cup DOMAIN PathPlain \cup {"bytes", "duration", "enum", "boolValue", "int32Value"} |->
     CASE k \in DOMAIN PathInteger -> PathInteger[k]
       [] k \in DOMAIN PathPlain -> PathPlain[k]
       [] k \in DOMAIN PathWrapper -> PathWrapper[k]
       [] k = "bytes" -> PathBytes.bytes
       [] k = "duration" -> PathTime.duration
       [] OTHER -> PathEnum.enum]

\* A query parameter, or a nested path parameter: parseField.
QueryScalar ==
  [bool |-> Bool, enum |-> PathEnum.enum, int32 |-> Only(Decimal, Small), int64 |-> Decimal,
   uint32 |-> Only(Decimal, Small \cap Positive), uint64 |-> Only(Decimal, Positive),
   double |-> Decimal, string |-> Same(Texts), bytes |-> URLEncoding]

\* parseMessage.  "null" leaves msg nil, and msg.ProtoReflect() panics.
QueryMessage ==
  [duration |-> Same({"1.5s", "1m", "null"}), boolValue |-> Bool,
   int32Value |-> Only(Decimal, Small), fieldMask |-> Same(Texts), message |-> << >>]

QueryValue == [k \in DOMAIN QueryScalar \cup DOMAIN QueryMessage |->
                 IF k \in DOMAIN QueryScalar THEN QueryScalar[k] ELSE QueryMessage[k]]
ParsePanics(kind, text) == kind = "duration" /\ text = "null"

-----------------------------------------------------------------------------
\* Messages.  A field is found by its name, or else by its JSON name.
getFieldByName(type, name) ==
  IF type \notin DOMAIN Schema THEN {}
  ELSE IF name \in DOMAIN Schema[type] THEN {name}
  ELSE { f \in DOMAIN Schema[type] : Schema[type][f].json = name }

\* The members of f's oneof.
Oneof(type, f) ==
  IF Schema[type][f].oneof = "none" THEN {}
  ELSE { g \in DOMAIN Schema[type] : Schema[type][g].oneof = Schema[type][f].oneof }

\* Setting a member of a oneof clears the others, and all that is in them.
Cleared(m, type, base, f) ==
  LET others == { Append(base, g) : g \in Oneof(type, f) \ {f} } IN
  [p \in { q \in DOMAIN m : \A o \in others : ~IsPrefix(o, q) } |-> m[p]]

Store(m, type, base, f, values) ==
  LET c == Cleared(m, type, base, f)
      p == Append(base, f)
  IN [q \in DOMAIN c \cup {p} |-> IF q = p THEN values ELSE c[q]]

\* Mutable(f).Message().
Mutable(m, type, base, f) ==
  LET p == Append(base, f) IN Store(m, type, base, f, IF p \in DOMAIN m THEN m[p] ELSE << >>)

\* The field a path of names leads to, as [type, path, known, field].
Root == [type |-> "Request", path |-> << >>, known |-> TRUE, field |-> << >>]
Into(r, name) ==
  LET fs == IF r.known THEN getFieldByName(r.type, name) ELSE {}
      f == CHOOSE g \in fs : TRUE
  IN  IF fs = {} THEN [r EXCEPT !.known = FALSE]
      ELSE [type |-> Schema[r.type][f].msg, path |-> Append(r.path, f), known |-> TRUE,
            field |-> Schema[r.type][f]]
Resolve(names) ==
  LET at[k \in 0..Len(names)] == IF k = 0 THEN Root ELSE Into(at[k - 1], names[k])
  IN  at[Len(names)]

\* Grpc-Timeout is a number of units (negative too), in one header at most, and headers have
\* finitely many values.  A body is a tree whose inner nodes are objects, for a
\* field of the request.
RequestOk(r) ==
  /\ \A t \in r.timeout : t.digits \in Int /\ r.timeout = {t}
  /\ \A h \in r.headers : IsFiniteSet(h.values)
  /\ r.body \in Seq(STRING) /\ Resolve(r.body).known
  /\ << >> \in DOMAIN r.tree /\ DOMAIN r.tree \subseteq Seq(STRING)
  /\ \A p \in DOMAIN r.tree : p # << >> => Front(p) \in DOMAIN r.tree /\ r.tree[Front(p)] = "object"

ASSUME RequestsAssumption == \A r \in Requests : RequestOk(r)

Refuse ==
  /\ pc' = "refused"
  /\ UNCHANGED <<req, timeout, pairs, todo, msg, walk, mask, hashKey>>
Crash ==
  /\ pc' = "panicked"
  /\ UNCHANGED <<req, timeout, pairs, todo, msg, walk, mask, hashKey>>

-----------------------------------------------------------------------------
\* The hook: requestAccepted and verifyHeader.
KnownSources == {"client", "third", "web"}
HeaderOk ==
  /\ req.source \in KnownSources
  /\ req.source = "third" => req.thirdParty
  /\ req.source = "client" => req.has = {"client", "version", "did"}

VerifyHeader ==
  /\ pc = "hook"
  /\ \/ ~req.debug /\ ~HeaderOk /\ Refuse
     \/ /\ req.debug \/ HeaderOk
        /\ pc' = "timeout"
        /\ UNCHANGED <<req, timeout, pairs, todo, msg, walk, mask, hashKey>>

\* timeoutDecode: the product wraps around.
Wrapped(n) == ((n + Wide) % (2 * Wide)) - Wide
timeoutDecode(t) == Wrapped(t.digits * Units[t.unit])

DecodeTimeout ==
  /\ pc = "timeout"
  /\ \/ \E t \in req.timeout : t.unit \notin DOMAIN Units /\ Refuse
     \/ /\ \A t \in req.timeout : t.unit \in DOMAIN Units
        /\ timeout' = IF req.timeout = {} THEN 0 ELSE timeoutDecode(CHOOSE t \in req.timeout : TRUE)
        /\ pc' = "headers"
        /\ todo' = req.headers
        /\ UNCHANGED <<req, pairs, msg, walk, mask, hashKey>>

\* DefaultHeaderMatcher, and authorization a second time, without a prefix.
MetadataKeys(h) ==
  CASE h.name = "authorization" -> << "authorization", "grpcgateway-authorization" >>
    [] h.name # "authorization" /\ h.class = "permanent" -> << "grpcgateway-" \o h.name >>
    [] h.name # "authorization" /\ h.class = "custom" -> << h.name >>
    [] OTHER -> << >>

Matched(h) == { [key |-> MetadataKeys(h)[i], value |-> v] : i \in DOMAIN MetadataKeys(h), v \in h.values }

\* Headers in the order of a map iteration, each with one value or more.
AddHeader ==
  /\ pc = "headers"
  /\ \E h \in todo :
       \/ h.class = "custom" /\ h.bin /\ "%" \in h.values /\ Refuse
       \/ /\ ~(h.class = "custom" /\ h.bin /\ "%" \in h.values)
          /\ pairs' = pairs \o SetToSeq(Matched(h))
          /\ todo' = todo \ {h}
          /\ UNCHANGED <<req, pc, timeout, msg, walk, mask, hashKey>>

\* What the gateway knows of the client itself.
Forwarded ==
  (IF req.host THEN << [key |-> "x-forwarded-host", value |-> "host"] >> ELSE << >>)
  \o (IF req.remote THEN << [key |-> "x-forwarded-for", value |-> "remote"] >> ELSE << >>)

\* Mutant: it comes before the client's headers.
ForwardFirst ==
  /\ pc = "headers" /\ todo = {}
  /\ pairs' = Forwarded \o pairs
  /\ pc' = "body"
  /\ UNCHANGED <<req, timeout, todo, msg, walk, mask, hashKey>>

\* It comes behind them.
Forward ==
  /\ pc = "headers" /\ todo = {}
  /\ pairs' = pairs \o Forwarded
  /\ pc' = "body"
  /\ UNCHANGED <<req, timeout, todo, msg, walk, mask, hashKey>>

-----------------------------------------------------------------------------
\* The body: a tree, from paths of JSON names to "object" or a text, for the
\* field req.body or for the whole message.  The decoder is a marshaler.
IsObject(at) == req.tree[at] = "object"
BodyPaths == { Resolve(req.body \o p).path : p \in DOMAIN req.tree } \ {<< >>}
BodyValue(path) ==
  { << req.tree[p] >> : p \in { q \in DOMAIN req.tree : ~IsObject(q) /\ Resolve(req.body \o q).path = path } }
DecodedBody ==
  [p \in BodyPaths |-> IF BodyValue(p) = {} THEN << >> ELSE CHOOSE v \in BodyValue(p) : TRUE]

\* The field mask is made for a PATCH whose body is one field.
DecodeBody ==
  /\ pc = "body"
  /\ \/ req.bodyBad /\ Refuse
     \/ /\ ~req.bodyBad
        /\ msg' = DecodedBody
        /\ IF req.patch /\ req.body # << >>
           THEN pc' = "mask" /\ todo' = {[path |-> << >>, at |-> << >>, type |-> Resolve(req.body).type]}
           ELSE pc' = "params" /\ todo' = DOMAIN req.params
        /\ UNCHANGED <<req, timeout, pairs, walk, mask, hashKey>>

Children(at) == { p \in DOMAIN req.tree : Len(p) = Len(at) + 1 /\ IsPrefix(at, p) }

\* All paths below a node, by its JSON names.
buildPathsBlindly(at) ==
  { SubSeq(p, Len(at), Len(p)) : p \in { q \in DOMAIN req.tree : IsPrefix(at, q) /\ ~IsObject(q) } }

\* Mutant: the path of a field below the first level loses its beginning.
MaskChildShort(item, child) ==
  LET fs == getFieldByName(item.type, Last(child))
      f == CHOOSE g \in fs : TRUE
      field == Schema[item.type][f]
  IN IF fs = {} THEN [is |-> "error", paths |-> {}, items |-> {}]
     ELSE IF field.card # "one" THEN [is |-> "ok", paths |-> {<< f >>}, items |-> {}]
     ELSE [is |-> "ok", paths |-> {}, items |->
             {[path |-> << f >>, at |-> child, type |-> field.msg]}]

Failing(how) == [is |-> how, paths |-> {}, items |-> {}]
Gives(paths) == [is |-> "ok", paths |-> paths, items |-> {}]

\* An Any is to be an object with its type in it; a type assertion fails on
\* another.  Its path is the name alone.
MaskAny(child) ==
  IF ~IsObject(child) THEN Failing("panic")
  ELSE IF Append(child, "@type") \notin DOMAIN req.tree THEN Failing("error")
  ELSE Gives({<< Last(child) >>})

\* What the loop makes of an item's child: paths of the mask and items to visit.
MaskChild(item, child) ==
  LET fs == getFieldByName(item.type, Last(child))
      f == CHOOSE g \in fs : TRUE
      field == Schema[item.type][f]
  IN IF fs = {} THEN Failing("error")
     ELSE CASE field.msg = "Struct" -> Gives({ item.path \o p : p \in buildPathsBlindly(child) })
            [] field.msg = "Any" -> MaskAny(child)
            [] field.msg \notin {"Struct", "Any"} /\ field.card # "one" -> Gives({ Append(item.path, f) })
            [] field.msg \notin {"Struct", "Any"} /\ field.card = "one" ->
                 [is |-> "ok", paths |-> {}, items |->
                   {[path |-> Append(item.path, f), at |-> child, type |-> field.msg]}]

\* FieldMaskFromRequestBody, a level of the tree at a time.  Within a level the
\* order of the map decides which of two failures ends it.
MaskLevel ==
  /\ pc = "mask"
  /\ LET Made == UNION { { MaskChild(i, c) : c \in Children(i.at) } : i \in todo }
         leaves == { i.path : i \in { j \in todo : ~IsObject(j.at) } } \ {<< >>}
     IN \/ \E r \in Made : r.is = "error" /\ Refuse
        \/ \E r \in Made : r.is = "panic" /\ Crash
        \/ /\ \A r \in Made : r.is = "ok"
           /\ mask' = mask \cup leaves \cup UNION { r.paths : r \in Made }
           /\ LET next == UNION { r.items : r \in Made } IN
              IF next # {} THEN todo' = next /\ pc' = pc
              ELSE todo' = DOMAIN req.params /\ pc' = "params"
           /\ UNCHANGED <<req, timeout, pairs, msg, walk, hashKey>>

-----------------------------------------------------------------------------
\* The path parameters, each [path, values]: a nested one goes the way of the
\* query, another has its conversion and its assignment generated.  A list is
\* split at a comma; a member of a oneof is not assigned over another.
Converted(table, values) == [i \in DOMAIN values |-> table[values[i]]]

OtherMemberSet(f) == \E g \in Oneof("Request", f) \ {f} : << g >> \in DOMAIN msg

BindParam ==
  /\ pc = "params"
  /\ \E n \in todo :
       LET p == req.params[n]
           table == PathValue[Resolve(p.path).field.kind]
           assignable == ToSet(p.values) \subseteq DOMAIN table /\ ~OtherMemberSet(p.path[1])
       IN /\ \A k \in todo : n <= k
          /\ \/ /\ Len(p.path) > 1
                /\ walk' = [type |-> "Request", base |-> << >>, rest |-> p.path, values |-> p.values]
                /\ pc' = "nested"
                /\ todo' = todo \ {n}
                /\ UNCHANGED <<req, timeout, pairs, msg, mask, hashKey>>
             \/ /\ Len(p.path) = 1 /\ assignable
                /\ msg' = Store(msg, "Request", << >>, p.path[1], Converted(table, p.values))
                /\ todo' = todo \ {n}
                /\ UNCHANGED <<req, pc, timeout, pairs, walk, mask, hashKey>>
             \/ Len(p.path) = 1 /\ ~assignable /\ Refuse

\* The filter: the path parameters and the body's field.
QueryParamFilter == { req.params[n].path : n \in DOMAIN req.params } \cup ({req.body} \ {<< >>})

\* ParseForm: an escape in the query that does not decode is an error.
StartQuery ==
  /\ pc = "params" /\ todo = {}
  /\ \/ req.queryBad /\ Refuse
     \/ /\ ~req.queryBad
        /\ pc' = "query"
        /\ todo' = req.query
        /\ UNCHANGED <<req, timeout, pairs, msg, walk, mask, hashKey>>

\* Mutant: a key is left out when all of it is in the filter.
HasCommonPrefixExact(path) == path \in QueryParamFilter /\ Len(path) = 1

\* A key is left out when one of the filter's paths is a prefix of it.
HasCommonPrefix(path) == \E q \in QueryParamFilter : IsPrefix(q, path)

\* Parse: the keys in the order of a map iteration; in f[x] the x is a value.
ParseKey ==
  /\ pc = "query" /\ walk = NoWalk
  /\ \E k \in todo :
       /\ todo' = todo \ {k}
       /\ walk' = IF HasCommonPrefix(k.path) THEN NoWalk
                  ELSE [type |-> "Request", base |-> << >>, rest |-> k.path, values |-> k.sub \o k.values]
  /\ UNCHANGED <<req, pc, timeout, pairs, msg, mask, hashKey>>

-----------------------------------------------------------------------------
\* populateFieldValueFromPath, a name of the path at a time.
Walking == pc \in {"nested", "query"} /\ walk # NoWalk
Names == getFieldByName(walk.type, Head(walk.rest))
Field == CHOOSE f \in Names : TRUE
Described == Schema[walk.type][Field]
BackToStage == pc' = IF pc = "nested" THEN "params" ELSE pc

\* An unknown name is ignored: it may be meant for somebody else.
SkipUnknown ==
  /\ Walking /\ Names = {}
  /\ walk' = NoWalk
  /\ BackToStage
  /\ UNCHANGED <<req, timeout, pairs, todo, msg, mask, hashKey>>

\* On the way only singular messages are allowed.
Descend ==
  /\ Walking /\ Names # {} /\ Len(walk.rest) > 1
  /\ \/ (Described.msg = "none" \/ Described.card # "one") /\ Refuse
     \/ /\ Described.msg # "none" /\ Described.card = "one"
        /\ msg' = Mutable(msg, walk.type, walk.base, Field)
        /\ walk' = [walk EXCEPT !.type = Described.msg, !.base = Append(@, Field), !.rest = Tail(@)]
        /\ UNCHANGED <<req, pc, timeout, pairs, todo, mask, hashKey>>

OneofTaken == \E g \in Oneof(walk.type, Field) : Append(walk.base, g) \in DOMAIN msg

Table == QueryValue[Described.kind]
Fits ==
  CASE Described.card = "map" -> Len(walk.values) = 2 /\ walk.values[2] \in DOMAIN Table
    [] Described.card = "list" -> \A i \in DOMAIN walk.values : walk.values[i] \in DOMAIN Table
    [] OTHER -> Len(walk.values) = 1 /\ walk.values[1] \in DOMAIN Table
Before == LET p == Append(walk.base, Field) IN IF p \in DOMAIN msg THEN msg[p] ELSE << >>

\* A map gets an entry and a list new elements.
NewValue ==
  CASE Described.card = "map" -> Before \o << walk.values[1], Table[walk.values[2]] >>
    [] Described.card = "list" -> Before \o Converted(Table, walk.values)
    [] OTHER -> Converted(Table, walk.values)

SetLast ==
  /\ Walking /\ Names # {} /\ Len(walk.rest) = 1
  /\ \/ (OneofTaken \/ ~Fits) /\ Refuse
     \/ ~OneofTaken /\ Fits /\ (\E i \in DOMAIN walk.values : ParsePanics(Described.kind, walk.values[i])) /\ Crash
     \/ /\ ~OneofTaken /\ Fits /\ \A i \in DOMAIN walk.values : ~ParsePanics(Described.kind, walk.values[i])
        /\ msg' = Store(msg, walk.type, walk.base, Field, NewValue)
        /\ walk' = NoWalk
        /\ BackToStage
        /\ UNCHANGED <<req, timeout, pairs, todo, mask, hashKey>>

-----------------------------------------------------------------------------
\* Validation.  A rule is [type, op, allowed]: of the operators each is
\* generated for one type of field only, and left out silently for another.
Generated(r) ==
  CASE r.op \in {"match", "lenEq", "lenGt", "lenLt"} -> r.type = "string"
    [] r.op \in {"gt", "lt"} -> r.type = "number"
    [] r.op = "notNil" -> r.type = "object"
    [] OTHER -> r.op = "eq"

\* The values a rule of field f looks at: the elements of a list, nothing of a
\* oneof's member that is not set, and else the value or its default.
Looked(m, base, type, f) ==
  LET p == Append(base, f) IN
  IF p \in DOMAIN m THEN IF Schema[type][f].kind = "message" THEN {"set"} ELSE ToSet(m[p])
  ELSE IF Schema[type][f].card # "one" \/ Schema[type][f].oneof # "none" THEN {} ELSE {"unset"}

Broken(m, base, type) ==
  \E f \in DOMAIN Schema[type] : \E r \in Schema[type][f].rules :
    Generated(r) /\ ~(Looked(m, base, type, f) \subseteq r.allowed)

EndQuery ==
  /\ pc = "query" /\ todo = {} /\ walk = NoWalk
  /\ pc' = "validate"
  /\ UNCHANGED <<req, timeout, pairs, todo, msg, walk, mask, hashKey>>

\* The method generated for the request's type.  The calls for the messages in
\* it are generated from Field.FieldMessage, which nothing sets: there are none.
Validate ==
  /\ pc = "validate"
  /\ \/ Broken(msg, << >>, "Request") /\ Refuse
     \/ /\ ~Broken(msg, << >>, "Request")
        /\ pc' = "balance"
        /\ UNCHANGED <<req, timeout, pairs, todo, msg, walk, mask, hashKey>>

\* PreLoadBalance.  The key of a proto field is the empty string.
PreLoadBalance ==
  /\ pc = "balance"
  /\ hashKey' = IF req.balancer # "CONSISTENT" \/ req.hashKey = "@session" THEN "none"
                ELSE IF req.hashKey = "@uuid" THEN "uuid" ELSE "empty"
  /\ pc' = "called"
  /\ UNCHANGED <<req, timeout, pairs, todo, msg, walk, mask>>

Done == pc \in Ended /\ UNCHANGED vars

Next ==
  \/ VerifyHeader \/ DecodeTimeout \/ AddHeader \/ Forward
  \/ DecodeBody \/ MaskLevel \/ BindParam \/ StartQuery
  \/ ParseKey \/ SkipUnknown \/ Descend \/ SetLast
  \/ EndQuery \/ Validate \/ PreLoadBalance \/ Done

Spec == Init /\ [][Next]_vars

-----------------------------------------------------------------------------
\* The keys of the query that are meant for this request, by their fields.
Bound(path) ==
  \E q \in { req.params[n].path : n \in DOMAIN req.params } \cup ({req.body} \ {<< >>}) : IsPrefix(q, path)
Applied == { k \in req.query : ~Bound(k.path) /\ Resolve(k.path).known }
Given == { Resolve(k.path).path : k \in Applied }
           \cup { req.params[n].path : n \in DOMAIN req.params } \cup BodyPaths

\* Two paths part at two members of one oneof.
Clash(p, q) ==
  \E i \in 1..Len(p) :
    /\ i <= Len(q) /\ SubSeq(p, 1, i - 1) = SubSeq(q, 1, i - 1) /\ p[i] # q[i]
    /\ q[i] \in Oneof(Resolve(SubSeq(p, 1, i - 1)).type, p[i])

\* No field is given twice, and of no oneof two members.
Independent ==
  /\ \A k, l \in Applied : k # l => Resolve(k.path).path # Resolve(l.path).path
  /\ \A k \in Applied : ~Bound(Resolve(k.path).path)
  /\ \A p, q \in Given : ~Clash(p, q)

\* The value a field should have: a key's, or a path parameter's, or the body's.
QueryGives(k) ==
  LET f == Resolve(k.path).field
      vs == k.sub \o k.values
  IN IF f.card = "map" THEN << vs[1], QueryValue[f.kind][vs[2]] >> ELSE Converted(QueryValue[f.kind], vs)
ParamGives(p) ==
  Converted((IF Len(p.path) > 1 THEN QueryValue ELSE PathValue)[Resolve(p.path).field.kind], p.values)
Wanted(path) ==
  { QueryGives(k) : k \in { l \in Applied : Resolve(l.path).path = path } }
  \cup { ParamGives(req.params[n]) : n \in { m \in DOMAIN req.params : req.params[m].path = path } }
WantedPaths == UNION { { SubSeq(p, 1, i) : i \in 1..Len(p) } : p \in Given }

\* A request whose fields are each given once is decoded to exactly what it
\* says: every key that is not bound by the path or the body is applied, to the
\* field it names, whatever the order of the keys (populateFieldValueFromPath,
\* HasCommonPrefix, the conversions).
DecodesExactly ==
  pc = "called" /\ Independent =>
    /\ DOMAIN msg = WantedPaths
    /\ \A p \in WantedPaths : Wanted(p) # {} => msg[p] \in Wanted(p)
    /\ \A p \in BodyPaths : Wanted(p) = {} /\ BodyValue(p) # {} => msg[p] \in BodyValue(p)

\* The fields a body sets: what is in the tree up to a field that stands for all
\* that is in it, a list, a map or an Any.  A Struct has no fields of its own.
AsWhole(field) == field.msg # "Struct" /\ (field.card # "one" \/ field.msg = "Any")
AtField(p) == Resolve(req.body \o p)
FieldName(p) == SubSeq(AtField(p).path, Len(req.body) + 1, Len(AtField(p).path))
Above(p) == { SubSeq(p, 1, i) : i \in 1..(Len(p) - 1) }
SetFields == { p \in DOMAIN req.tree : /\ p # << >> /\ AtField(p).known
                                      /\ \A r \in Above(p) : ~AsWhole(AtField(r).field) }
IsStruct(p) == AtField(p).field.msg = "Struct"

\* The paths the mask should have: every leaf by its name in the message, or the
\* field that stands for it, and a Struct by what is in it, in JSON's names.
MaskReference ==
  { FieldName(p) : p \in { q \in SetFields : ~IsStruct(q) /\ (AsWhole(AtField(q).field) \/ ~IsObject(q)) } }
  \cup UNION { { FieldName(q) \o SubSeq(p, Len(q) + 1, Len(p)) :
                   p \in { l \in DOMAIN req.tree : ~IsObject(l) /\ IsPrefix(q, l) } } :
                 q \in { r \in SetFields : IsStruct(r) } }

\* An Any is given without the path to it, and both kinds by the name JSON has
\* for the field: right where that name is the field's own.
NamedAlike ==
  \A p \in SetFields :
    /\ AtField(p).field.msg \in {"Struct", "Any"} => Last(FieldName(p)) = Last(p)
    /\ AtField(p).field.msg = "Any" => Len(p) = 1

\* The field mask of a body names exactly the fields the body sets: the leaves
\* of its tree by their names in the message, a list, a map or an Any as a whole,
\* a Struct by what is in it (FieldMaskFromRequestBody).
MaskExact ==
  pc = "called" /\ req.patch /\ req.body # << >> /\ NamedAlike => mask = MaskReference

\* "validtion will pass only if all the rules are complied": every rule of every
\* message that is present holds of what the backend is called with, however
\* deep the message and whichever stage put it there.
RulesEnforced ==
  pc = "called" =>
    /\ ~Broken(msg, << >>, "Request")
    /\ \A p \in DOMAIN msg :
         LET r == Resolve(p) IN r.field.kind = "message" /\ r.field.card = "one" /\ r.type \in DOMAIN Schema =>
           ~Broken(msg, p, r.type)

\* The call carries what the headers say: a deadline that fits into 64 bits is
\* the client's; all matching headers arrive, and no header of the client comes
\* behind the gateway's own word on where the request is from.
CallFaithful ==
  pc = "called" =>
    /\ \A t \in req.timeout : LET n == t.digits * Units[t.unit] IN n \in -Wide..(Wide - 1) => timeout = n
    /\ ToSet(pairs) = (UNION { Matched(h) : h \in req.headers }) \cup ToSet(Forwarded)
    /\ req.remote => \E i \in DOMAIN pairs :
         pairs[i].value = "remote" /\ \A j \in DOMAIN pairs : pairs[j].key = "x-forwarded-for" => j <= i
=============================================================================
