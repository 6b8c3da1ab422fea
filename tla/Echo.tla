-------------------------------- MODULE Echo --------------------------------
(***************************************************************************)
(* The example of the repository: echo_service.proto, and what the checked *)
(* in echo_service.pb.gw.go and echo_service.swagger.json contain.  The    *)
(* gateway is built with the former, function by function, and not with    *)
(* what the generator would write today.                                   *)
(***************************************************************************)
EXTENDS Plugins

\* Templates and rules.
Tmpl(text, atoms, vs, verb) ==
  [text |-> text, atoms |-> atoms, vars |-> vs, verb |-> verb, wellFormed |-> TRUE]
Http(method, tmpl, body) ==
  [http |-> method, tmpl |-> tmpl, body |-> body, resp |-> << >>, additional |-> << >>]

L(word) == PathTemplate!Lit(<< word >>)
Star == PathTemplate!Star
At(path, k) == PathTemplate!Var(path, k, k)
V1 == << L("v1"), L("example") >>

-----------------------------------------------------------------------------
(* echo_service.proto. *)

Ex(name) == ".examplepb." \o name

Embedded == Message(Ex("Embedded"), << Scalar("progress", "int64"), Scalar("note", "string") >>)
SimpleMessage == Message(Ex("SimpleMessage"),
  << Scalar("id", "string"), Scalar("num", "int64"), Scalar("line_num", "int64"), Scalar("lang", "string"),
     Nested("status", Ex("Embedded")), Scalar("en", "int64"), Nested("no", Ex("Embedded")) >>)
ValidationRuleTestRequest == Message(Ex("ValidationRuleTestRequest"),
  << Ruled(Scalar("id", "string"), << Rule("STRING", "NON_NIL", FALSE, ""), Rule("STRING", "LEN_GT", TRUE, "2"),
                                      Rule("STRING", "LEN_LT", TRUE, "61") >>),
     Ruled(Scalar("num", "int64"), << Rule("NUMBER", "GT", FALSE, "0") >>) >>)
ValidationRuleTestResponse == Message(Ex("ValidationRuleTestResponse"), << >>)
DynamicMessage == Message(Ex("DynamicMessage"),
  << Nested("struct_field", ".google.protobuf.Struct"), Nested("value_field", ".google.protobuf.Value") >>)
DynamicMessageUpdate == Message(Ex("DynamicMessageUpdate"),
  << Nested("body", Ex("DynamicMessage")), Nested("update_mask", ".google.protobuf.FieldMask") >>)

\* google/protobuf/struct.proto and field_mask.proto, which it imports.
Pb(name) == ".google.protobuf." \o name
StructFile == ProtoFile("structpb", "structpb",
  << Message(Pb("Struct"), << Repeated(Nested("fields", Pb("Struct.FieldsEntry"))) >>),
     [Message(Pb("Struct.FieldsEntry"), << Scalar("key", "string"), Nested("value", Pb("Value")) >>)
        EXCEPT !.mapEntry = TRUE],
     Message(Pb("Value"), << Field("null_value", "enum", Pb("NullValue")), Scalar("string_value", "string"),
                             Nested("struct_value", Pb("Struct")), Nested("list_value", Pb("ListValue")) >>),
     Message(Pb("ListValue"), << Repeated(Nested("values", Pb("Value"))) >>) >>, {Pb("NullValue")}, << >>)
MaskFile == ProtoFile("fieldmaskpb", "fieldmaskpb",
  << Message(Pb("FieldMask"), << Repeated(Scalar("paths", "string")) >>) >>, {}, << >>)

EchoMethod == Method("Echo", Ex("SimpleMessage"), Ex("SimpleMessage"),
  << [Http("POST", Tmpl("/v1/example/echo/{id}", V1 \o << L("echo"), Star >>, << At(<<"id">>, 4) >>, << >>), << >>)
      EXCEPT !.additional =
        << Http("GET", Tmpl("/v1/example/echo/{id}/{num}", V1 \o << L("echo"), Star, Star >>,
                            << At(<<"id">>, 4), At(<<"num">>, 5) >>, << >>), << >>),
           Http("GET", Tmpl("/v1/example/echo/{id}/{num}/{lang}", V1 \o << L("echo"), Star, Star, Star >>,
                            << At(<<"id">>, 4), At(<<"num">>, 5), At(<<"lang">>, 6) >>, << >>), << >>),
           Http("GET", Tmpl("/v1/example/echo1/{id}/{line_num}/{status.note}",
                            V1 \o << L("echo1"), Star, Star, Star >>,
                            << At(<<"id">>, 4), At(<<"line_num">>, 5), At(<<"status", "note">>, 6) >>, << >>), << >>),
           Http("GET", Tmpl("/v1/example/echo2/{no.note}", V1 \o << L("echo2"), Star >>,
                            << At(<<"no", "note">>, 4) >>, << >>), << >>) >>] >>)
EchoBody == Method("EchoBody", Ex("SimpleMessage"), Ex("SimpleMessage"),
  << Http("POST", Tmpl("/v1/example/echo_body", V1 \o << L("echo_body") >>, << >>, << >>), <<"*">>) >>)
EchoDelete == Method("EchoDelete", Ex("SimpleMessage"), Ex("SimpleMessage"),
  << Http("DELETE", Tmpl("/v1/example/echo_delete", V1 \o << L("echo_delete") >>, << >>, << >>), << >>) >>)
EchoPatch == Method("EchoPatch", Ex("DynamicMessageUpdate"), Ex("DynamicMessageUpdate"),
  << Http("PATCH", Tmpl("/v1/example/echo_patch", V1 \o << L("echo_patch") >>, << >>, << >>), <<"body">>) >>)
EchoValidationRule == Method("EchoValidationRule", Ex("ValidationRuleTestRequest"), Ex("ValidationRuleTestResponse"),
  << Http("POST", Tmpl("/v1/example/echo:validationRules", V1 \o << L("echo") >>, << >>, <<"validationRules">>),
          <<"*">>) >>)

EchoService == [Service(Ex("EchoService"), << EchoMethod, EchoBody, EchoDelete, EchoPatch, EchoValidationRule >>)
                 EXCEPT !.controller = TRUE]
EchoFile == ProtoFile("examplepb", "examplepb",
  << Embedded, SimpleMessage, ValidationRuleTestRequest, ValidationRuleTestResponse, DynamicMessage,
     DynamicMessageUpdate >>, {}, << EchoService >>)

-----------------------------------------------------------------------------
(* echo_service.pb.gw.go. *)

\* Validate_..._ValidationRuleTestRequest: the first rule of id is a comment.
ValidateRequest ==
  << [field |-> "id", rule |-> Rule("STRING", "LEN_GT", TRUE, "2")],
     [field |-> "id", rule |-> Rule("STRING", "LEN_LT", TRUE, "61")],
     [field |-> "num", rule |-> Rule("NUMBER", "GT", FALSE, "0")] >>

\* A utilities.DoubleArray: its words in the order of their codes.
DoubleArray(words, base, check) == [words |-> words, base |-> base, check |-> check]
filter_Echo_0 == DoubleArray(<<"id">>, <<1, 1, 0>>, <<0, 1, 2>>)
filter_Echo_1 == DoubleArray(<<"id", "num">>, <<1, 1, 2, 0, 0>>, <<0, 1, 1, 2, 3>>)
filter_Echo_2 == DoubleArray(<<"id", "num", "lang">>, <<1, 1, 2, 3, 0, 0, 0>>, <<0, 1, 1, 1, 2, 3, 4>>)
filter_Echo_3 == DoubleArray(<<"id", "line_num", "status", "note">>, <<1, 1, 2, 1, 3, 0, 0, 0>>,
                             <<0, 1, 1, 1, 4, 2, 3, 5>>)
filter_Echo_4 == DoubleArray(<<"no", "note">>, <<1, 1, 1, 0>>, <<0, 1, 2, 3>>)
filter_EchoDelete_0 == DoubleArray(<< >>, << >>, << >>)
filter_EchoPatch_0 == DoubleArray(<<"body">>, <<1, 1, 0>>, <<0, 1, 2>>)

local_request_Echo_0 == << Assign(<<"id">>, "string"), Query, Call >>
local_request_Echo_1 == << Assign(<<"id">>, "string"), Assign(<<"num">>, "int64"), Query, Call >>
local_request_Echo_2 ==
  << Assign(<<"id">>, "string"), Assign(<<"num">>, "int64"), Assign(<<"lang">>, "string"), Query, Call >>
local_request_Echo_3 ==
  << Assign(<<"id">>, "string"), Assign(<<"line_num">>, "int64"), Populate(<<"status", "note">>), Query, Call >>
local_request_Echo_4 == << Populate(<<"no", "note">>), Query, Call >>
local_request_EchoBody_0 == << Body(<<"*">>), Call >>
local_request_EchoDelete_0 == << Query, Call >>
local_request_EchoPatch_0 == << Body(<<"body">>), Mask(<<"update_mask">>), Query, Call >>
local_request_EchoValidationRule_0 == << Body(<<"*">>), Call >>

request_Echo_0 == << Assign(<<"id">>, "string"), Query >> \o Hooked
request_Echo_1 == << Assign(<<"id">>, "string"), Assign(<<"num">>, "int64"), Query >> \o Hooked
request_Echo_2 ==
  << Assign(<<"id">>, "string"), Assign(<<"num">>, "int64"), Assign(<<"lang">>, "string"), Query >> \o Hooked
request_Echo_3 ==
  << Assign(<<"id">>, "string"), Assign(<<"line_num">>, "int64"), Populate(<<"status", "note">>), Query >> \o Hooked
request_Echo_4 == << Populate(<<"no", "note">>), Query >> \o Hooked
request_EchoBody_0 == << Body(<<"*">>) >> \o Hooked
request_EchoDelete_0 == << Query >> \o Hooked
request_EchoPatch_0 == << Body(<<"body">>), Mask(<<"update_mask">>), Query >> \o Hooked
request_EchoValidationRule_0 == << Body(<<"*">>), Validate(Ex("ValidationRuleTestRequest")) >> \o Hooked

EchoKey(method, n) == << Ex("EchoService"), method, n >>
EchoKeys == [n \in 1..9 |-> IF n <= 5 THEN EchoKey("Echo", n - 1)
                            ELSE EchoKey(<<"EchoBody", "EchoDelete", "EchoPatch", "EchoValidationRule">>[n - 5], 0)]
Row(values) == [k \in ToSet(EchoKeys) |-> values[CHOOSE n \in 1..9 : EchoKeys[n] = k]]

EchoFilters == << filter_Echo_0, filter_Echo_1, filter_Echo_2, filter_Echo_3, filter_Echo_4 >>
EchoFilter == [k \in { EchoKeys[n] : n \in {1, 2, 3, 4, 5, 7, 8} } |->
  IF k[2] = "Echo" THEN EchoFilters[k[3] + 1]
  ELSE IF k[2] = "EchoDelete" THEN filter_EchoDelete_0 ELSE filter_EchoPatch_0]

\* RegisterEchoServiceHandlerServer: the bindings of Echo, then the others.
ServeEcho == << "POST", "GET", "GET", "GET", "GET" >>
ServeOthers == << "POST", "DELETE", "PATCH", "POST" >>
EchoServer == ServeEcho \o ServeOthers

\* RegisterEchoServiceHandlerClient: an AddMethod and a Handle for each binding.
AddEcho_0 == <<"POST", "/v1/example/echo/{id}", TRUE>>
AddEcho_1 == <<"GET", "/v1/example/echo/{id}/{num}", TRUE>>
AddEcho_2 == <<"GET", "/v1/example/echo/{id}/{num}/{lang}", TRUE>>
AddEcho_3 == <<"GET", "/v1/example/echo1/{id}/{line_num}/{status.note}", TRUE>>
AddEcho_4 == <<"GET", "/v1/example/echo2/{no.note}", TRUE>>
AddEchoBody_0 == <<"POST", "/v1/example/echo_body", TRUE>>
AddEchoDelete_0 == <<"DELETE", "/v1/example/echo_delete", TRUE>>
AddEchoPatch_0 == <<"PATCH", "/v1/example/echo_patch", TRUE>>
AddEchoValidationRule_0 == <<"POST", "/v1/example/echo:validationRules", TRUE>>

\* An op list as it is written: codes and operands in turn.
OpCodes == << "OpNop", "OpPush", "OpLitPush", "OpPushM", "OpConcatN", "OpCapture" >>
Ops(ints) == [k \in 1..(Len(ints) \div 2) |-> [code |-> OpCodes[ints[2 * k - 1] + 1], operand |-> ints[2 * k]]]
Compiled(ints, words, verb) == [ops |-> Ops(ints), pool |-> words, verb |-> verb]
Prefix == <<2, 0, 2, 1, 2, 2>>
Capture(n) == <<1, 0, 4, 1, 5, n>>
Pooled(word) == << <<"v1">>, <<"example">>, << word >> >>
EchoPattern == Row(<<
  Compiled(Prefix \o Capture(3), Pooled("echo") \o << <<"id">> >>, << >>),
  Compiled(Prefix \o Capture(3) \o Capture(4), Pooled("echo") \o << <<"id">>, <<"num">> >>, << >>),
  Compiled(Prefix \o Capture(3) \o Capture(4) \o Capture(5),
           Pooled("echo") \o << <<"id">>, <<"num">>, <<"lang">> >>, << >>),
  Compiled(Prefix \o Capture(3) \o Capture(4) \o Capture(5),
           Pooled("echo1") \o << <<"id">>, <<"line_num">>, <<"status", "note">> >>, << >>),
  Compiled(Prefix \o Capture(3), Pooled("echo2") \o << <<"no", "note">> >>, << >>),
  Compiled(Prefix, Pooled("echo_body"), << >>),
  Compiled(Prefix, Pooled("echo_delete"), << >>),
  Compiled(Prefix, Pooled("echo_patch"), << >>),
  Compiled(Prefix, Pooled("echo"), <<"validationRules">>) >>)

EchoForward == Row([n \in 1..9 |-> "message"])

\* init: the service is added, with the functions of its group.
EchoRegistered == {Ex("EchoService")}

-----------------------------------------------------------------------------
\* The external DoubleArray.HasCommonPrefix, on what the file contains.
HasCommonPrefix(da, path) ==
  LET Code(word) == { k \in DOMAIN da.words : da.words[k] = word }
      Ends(i) == LET j == da.base[i] + Len(da.words) + 1
                 IN  j \in DOMAIN da.check /\ da.check[j] = i
      Follow(at, word) ==
        IF at.stopped \/ Code(word) = {} THEN [at EXCEPT !.stopped = TRUE]
        ELSE LET j == da.base[at.i] + CHOOSE k \in Code(word) : TRUE
             IN  IF j \in DOMAIN da.check /\ da.check[j] = at.i THEN [at EXCEPT !.i = j]
                 ELSE [at EXCEPT !.stopped = TRUE]
  IN  da.check # << >> /\ Ends(FoldLeft(Follow, [i |-> 1, stopped |-> FALSE], path).i)

EchoPaths == BoundedSeq({"id", "num", "lang", "line_num", "status", "note", "no", "body", "other"}, 2)

CodeReproduced ==
  gen = "done" /\ "echo" \in DOMAIN code =>
    LET c == code["echo"]
        Added == [k \in 1..9 |-> <<c.client[k].http, c.client[k].path, c.client[k].login>>]
    IN  /\ c.imports = BaseImports
        /\ c.validators = [m \in {Ex("ValidationRuleTestRequest")} |-> ValidateRequest]
        /\ DOMAIN c.filter = DOMAIN EchoFilter
        /\ \A k \in DOMAIN EchoFilter : \A p \in EchoPaths :
             HasCommonPrefix(EchoFilter[k], p) = (\E q \in c.filter[k] : IsPrefix(q, p))
        /\ c.request = Row(<< request_Echo_0, request_Echo_1, request_Echo_2, request_Echo_3, request_Echo_4,
                              request_EchoBody_0, request_EchoDelete_0, request_EchoPatch_0,
                              request_EchoValidationRule_0 >>)
        /\ c.local = Row(<< local_request_Echo_0, local_request_Echo_1, local_request_Echo_2, local_request_Echo_3,
                            local_request_Echo_4, local_request_EchoBody_0, local_request_EchoDelete_0,
                            local_request_EchoPatch_0, local_request_EchoValidationRule_0 >>)
        /\ c.server = [n \in 1..9 |-> [key |-> EchoKeys[n], http |-> EchoServer[n], streams |-> FALSE]]
        /\ [n \in 1..9 |-> c.client[n].key] = EchoKeys
        /\ Added = << AddEcho_0, AddEcho_1, AddEcho_2, AddEcho_3, AddEcho_4, AddEchoBody_0, AddEchoDelete_0,
                      AddEchoPatch_0, AddEchoValidationRule_0 >>
        /\ c.pattern = EchoPattern /\ c.forward = EchoForward /\ c.response = << >>
        /\ c.services = EchoRegistered /\ c.groups = EchoRegistered

-----------------------------------------------------------------------------
(* echo_service.swagger.json. *)

\* An operation: the literals and then the variables of its path, its query.
SwaggerOp(http, words, names, verb, id, body, query) ==
  [parts |-> [k \in DOMAIN words |-> [name |-> "", atom |-> words[k]]]
               \o [k \in DOMAIN names |-> Variable(names[k])],
   verb |-> verb, http |-> http, id |-> "EchoService_" \o id, pathParams |-> names, body |-> body, query |-> query]
EchoSwagger ==
  LET Echo_(word, http, names, id, query) ==
        SwaggerOp(http, V1 \o << L(word) >>, names, << >>, id, "", query)
      all == << "id", "num", "lineNum", "lang", "status.progress", "status.note", "en", "no.progress", "no.note" >>
  IN  { Echo_("echo", "GET", << "id", "num" >>, "Echo2", SubSeq(all, 3, 9)),
        Echo_("echo", "GET", << "id", "num", "lang" >>, "Echo3", << "lineNum" >> \o SubSeq(all, 5, 9)),
        Echo_("echo1", "GET", << "id", "lineNum", "status.note" >>, "Echo4",
              << "num", "lang", "status.progress", "en", "no.progress" >>),
        Echo_("echo2", "GET", << "no.note" >>, "Echo5",
              << "id", "num", "lineNum", "lang", "status.progress", "en", "no.progress" >>),
        SwaggerOp("POST", V1 \o << L("echo") >>, << >>, <<"validationRules">>, "EchoValidationRule", "body", << >>),
        SwaggerOp("POST", V1 \o << L("echo_body") >>, << >>, << >>, "EchoBody", "body", << >>),
        SwaggerOp("DELETE", V1 \o << L("echo_delete") >>, << >>, << >>, "EchoDelete", "", all),
        SwaggerOp("PATCH", V1 \o << L("echo_patch") >>, << >>, << >>, "EchoPatch", "body", << "updateMask" >>) }
EchoDefinitions ==
  { "examplepb" \o n : n \in {"DynamicMessage", "DynamicMessageUpdate", "Embedded", "SimpleMessage",
                              "ValidationRuleTestRequest", "ValidationRuleTestResponse"} }
  \cup {"protobufAny", "protobufNullValue", "rpcStatus"}

\* The first binding of Echo is left out: the file was written by a generator
\* that gave a POST without a body no query.
DocumentReproduced ==
  "echo" \in Documented =>
    LET Written(o) == [parts |-> o.path.parts, verb |-> o.path.verb, http |-> o.http, id |-> o.op.id,
                       pathParams |-> o.op.pathParams, body |-> o.op.body.name,
                       query |-> [k \in DOMAIN o.op.query |-> ParamName(o.op.query[k])]]
    IN  /\ { Written(o) : o \in { q \in Operations("echo") : q.op.key # EchoKey("Echo", 0) } } = EchoSwagger
        /\ { OpenAPIName(d) : d \in docs["echo"].definitions } = EchoDefinitions

\* Generating echo_service.proto anew gives the checked-in code: the same
\* imports, validator, steps of every function, handlers, patterns and group;
\* the arrays of its filters leave out exactly the paths that are bound.  And
\* it gives the operations and the definitions of the checked-in document.
EchoReproduced == CodeReproduced /\ DocumentReproduced
=============================================================================
