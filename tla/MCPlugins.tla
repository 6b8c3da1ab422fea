----------------------------- MODULE MCPlugins ------------------------------
(***************************************************************************)
(* The plug-ins for TLC: the example of the repository, packages that ask  *)
(* for one name, messages that contain each other, configured rules,       *)
(* requests that are to be refused, and what documents are hard for: paths *)
(* that coincide, hidden parts, merged files, names and nested queries.    *)
(***************************************************************************)
EXTENDS Echo

MCNumbered(name, i) == name \o "_" \o ToString(i)
MCComponents(name) ==
  LET dots == { k \in 1..Len(name) : SubSeq(name, k, k) = "." }
      starts == { k \in 1..Len(name) : k \notin dots /\ (k = 1 \/ k - 1 \in dots) }
      End(k) == CHOOSE e \in k..Len(name) :
                  (e = Len(name) \/ e + 1 \in dots) /\ \A j \in k..e : j \notin dots
      ordered == SetToSortSeq(starts, LAMBDA i, j : i < j)
  IN  [n \in DOMAIN ordered |-> SubSeq(name, ordered[n], End(ordered[n]))]
MCJsonName(name) ==
  CASE name = "line_num" -> "lineNum" [] name = "update_mask" -> "updateMask"
    [] name = "struct_field" -> "structField" [] name = "value_field" -> "valueField"
    [] name = "sub_two" -> "subTwo" [] OTHER -> name

Plain == [allowDeleteBody |-> FALSE, allowRepeatedFieldsInBody |-> FALSE,
          generateUnboundMethods |-> FALSE, allowPatchFeature |-> TRUE,
          useJSONNames |-> TRUE, naming |-> "legacy", disableDefaultErrors |-> FALSE, recursiveDepth |-> 2,
          allowMerge |-> FALSE, simpleOperationIDs |-> FALSE, selectors |-> {}]
Asking(files, generate, configured, flags) ==
  [files |-> files, generate |-> generate, configured |-> configured, flags |-> flags]
Configured(svc, meth, rule) == [selector |-> <<svc, meth>>, wildcard |-> FALSE, rule |-> rule]

P(text, params) == Tmpl(text, << L(text) >> \o [k \in DOMAIN params |-> Star],
                        [k \in DOMAIN params |-> At(params[k], k + 1)], << >>)
Get(text, params) == Http("GET", P(text, params), << >>)
Post(text, body) == Http("POST", P(text, << >>), body)
With(rule, more) == [rule EXCEPT !.additional = more]

EchoRequest == Asking([echo |-> EchoFile, struct |-> StructFile, mask |-> MaskFile], <<"echo">>, << >>, Plain)

\* Three packages called user, one called user_0 and one called client, and a
\* service that takes messages from two of them and an enum from a third.
Named ==
  LET Only(path, name, message) == ProtoFile(path, name, << Message(message, << Scalar("id", "string") >>) >>, {}, << >>)
      A == Method("A", ".u.Req", ".u.Req", << Get("/a", << >>) >>)
      B == Method("B", ".v.Req", ".u.Req", << Get("/b", << <<"id">> >>) >>)
      C == Method("C", ".c.Req", ".u.Req", << Get("/c", << <<"kind">>, <<"in", "kind">> >>) >>)
      main == ProtoFile("main", "user",
        << Message(".c.Req", << Field("kind", "enum", ".w.Kind"), Nested("in", ".c.In") >>),
           Message(".c.In", << Field("kind", "enum", ".w.Kind") >>) >>, {}, << Service(".c.S", << A, B, C >>) >>)
  IN  Asking([main |-> main, u |-> Only("u", "user", ".u.Req"), v |-> Only("v", "user_0", ".v.Req"),
              w |-> ProtoFile("w", "client", << >>, {".w.Kind"}, << >>), u2 |-> Only("u", "user", ".u.Other")],
             <<"main">>, << >>, Plain)

\* A package with the name of an alias that New does not reserve.
IllNamed ==
  Asking([main |-> ProtoFile("main", "main", << >>, {}, << Service(".S", << Method("A", ".u.Req", ".u.Req", << Get("/a", << >>) >>) >>) >>),
          u |-> ProtoFile("u", "vexpb", << Message(".u.Req", << >>) >>, {}, << >>)], <<"main">>, << >>, Plain)

\* P contains Q, Q contains X and R, X contains P; R alone has a rule, and X's
\* answer depends on who is asked first.
Cyclic(inputs) ==
  LET rule == << Rule("NUMBER", "EQ", FALSE, "1"), Rule("NUMBER", "MATCH", FALSE, "1") >>
      msgs == << Message("P", << Nested("q", "Q"), Scalar("s", "string") >>),
                 Message("Q", << Nested("x", "X"), Nested("r", "R") >>),
                 Message("X", << Nested("p", "P"), Nested("x", "X") >>),
                 Message("R", << Scalar("s", "string"), Ruled(Scalar("n", "int32"), rule), Nested("p", "P") >>) >>
      Meth(k) == [Method("M" \o inputs[k], inputs[k], "P", << Post("/" \o inputs[k], <<"*">>) >>)
                   EXCEPT !.serverStreaming = inputs[k] = "Q"]
  IN  Asking([main |-> ProtoFile("main", "main", msgs, {}, << Service(".S", [k \in DOMAIN inputs |-> Meth(k)]) >>)],
             <<"main">>, << >>, Plain)

-----------------------------------------------------------------------------
\* One service with one method and the given rules, configured and annotated.
TimeFile == ProtoFile("timestamppb", "timestamppb", << Message(Pb("Timestamp"), << Scalar("seconds", "int64") >>) >>, {}, << >>)
Req == Message("Req", << Scalar("id", "string"), Repeated(Scalar("ids", "string")), Nested("sub", "Sub"),
                         [Scalar("opt", "string") EXCEPT !.optional = TRUE], Nested("at", ".google.protobuf.Timestamp") >>)
Sub == Message("Sub", << Scalar("id", "string"), Scalar("note", "string") >>)
OneMethod(configured, annotation, flags, Change(_)) ==
  Asking([main |-> ProtoFile("main", "main", << Req, Sub >>, {},
                     << Service(".S", << Change(Method("M", "Req", "Sub", annotation)), Method("N", "Sub", "Sub", << >>) >>) >>),
          time |-> TimeFile, other |-> ProtoFile("main", "main", << >>, {}, << Service(".T", << Method("M", "Sub", "Sub", << Get("/t", << >>) >>) >>) >>)],
         <<"other", "main">>, configured, flags)
Same(m) == m
Streams(m) == [m EXCEPT !.clientStreaming = TRUE]
Answers(m) == [m EXCEPT !.rule = << [Get("/r", << <<"sub", "id">>, <<"at">> >>) EXCEPT !.resp = <<"note">>] >>]
Rules(rules_) == [k \in DOMAIN rules_ |-> Configured(".S", "M", rules_[k])]
NoPattern == Http("none", P("", << >>), << >>)
Delete(body) == Http("DELETE", P("/d", << >>), body)

Accepted ==
  { OneMethod(Rules(<< Get("/c", << >>), With(Post("/d", <<"sub">>), << Get("/e", << <<"id">> >>) >>) >>),
              << Get("/a", << <<"ids">> >>) >>, Plain, Same),
    OneMethod(Rules(<< With(NoPattern, << Get("/b", << >>) >>) >>), << >>, Plain, Same),
    OneMethod(<< >>, << >>, [Plain EXCEPT !.generateUnboundMethods = TRUE], Same),
    OneMethod(<< >>, << Post("/s", <<"*">>) >>, Plain, Streams),
    OneMethod(<< >>, << >>, Plain, Answers),
    OneMethod(<< >>, << Delete(<<"*">>) >>, [Plain EXCEPT !.allowDeleteBody = TRUE], Same),
    OneMethod(<< >>, << Post("/p", <<"ids">>) >>, [Plain EXCEPT !.allowRepeatedFieldsInBody = TRUE], Same) }

Refused ==
  { OneMethod(<< >>, << r >>, Plain, Same) :
      r \in { Delete(<<"*">>), Http("GET", P("/g", << >>), <<"*">>), Post("/p", <<"ids">>), Post("/p", <<"none">>),
              Get("/g", << <<"sub">> >>), Get("/g", << <<"opt">> >>), Get("/g", << <<"id", "id">> >>),
              With(Get("/g", << >>), << With(Get("/h", << >>), << Get("/i", << >>) >>) >>),
              With(Get("/g", << >>), << NoPattern >>), With(Get("/g", << >>), << Get("/g", << >>) >>),
              [Get("/g", << >>) EXCEPT !.tmpl.wellFormed = FALSE] } }
  \cup { OneMethod(<< >>, << Get("/s", << <<"id">> >>) >>, Plain, Streams),
         OneMethod(<< Configured(".S", "None", Get("/c", << >>)) >>, << >>, Plain, Same),
         OneMethod(<< [Configured(".S", "M", Get("/c", << >>)) EXCEPT !.wildcard = TRUE] >>, << >>, Plain, Same) }

\* A service without its spec, and a group that is balanced consistently.
Misdeclared ==
  LET S == Service(".S", << Method("M", "Req", "Sub", << Get("/a", << >>) >>) >>)
  IN  { Asking([main |-> ProtoFile("main", "main", << Req, Sub >>, {}, << s >>), time |-> TimeFile], <<"main">>, << >>, Plain) :
          s \in { [S EXCEPT !.hasSpec = FALSE], [S EXCEPT !.controller = TRUE, !.balancer = "CONSISTENT"] } }

-----------------------------------------------------------------------------
\* A file whose only service has a method for each rule.
Methods(input, output, rules_) ==
  [k \in DOMAIN rules_ |-> Method("M" \o ToString(k), input, output, << rules_[k] >>)]
OneService(msgs, enums, svcs, flags) ==
  Asking([main |-> ProtoFile("main", "main", msgs, enums, svcs), time |-> TimeFile], <<"main">>, << >>, flags)
Of(msgs, rules_, flags) == OneService(msgs, {}, << Service(".m.S", Methods(msgs[1].name, msgs[1].name, rules_)) >>, flags)

\* Variables that span different literals leave the same path; the number of
\* one is the name of another; a second service has the first one's paths.
Spanning(http, prefix) ==
  Http(http, Tmpl("/a/{id=" \o prefix \o "/*}/{num}", << L("a"), L(prefix), Star, Star >>,
                  << PathTemplate!Var(<<"id">>, 2, 3), At(<<"num">>, 4) >>, << >>), << >>)
Fixed(http) == Http(http, Tmpl("/fixed", << L("fixed") >>, << >>, << >>), << >>)
Coinciding ==
  LET A == Message(".m.A", << Scalar("id", "string"), Scalar("id_1", "string"), Scalar("num", "string") >>)
      numbered == Http("GET", Tmpl("/a/{id_1}/{num}", << L("a"), Star, Star >>, << At(<<"id_1">>, 2), At(<<"num">>, 3) >>, << >>), << >>)
      first == << numbered, Spanning("GET", "x"), Spanning("GET", "y"), Spanning("PUT", "x"), Spanning("GET", "z"), Fixed("GET") >>
      T == Service(".m.T", Methods(".m.A", ".m.A", << Fixed("GET"), Fixed("PUT"), Spanning("PUT", "x") >>))
  IN  OneService(<< A >>, {}, << Service(".m.S", Methods(".m.A", ".m.A", first)), T >>, Plain)

\* A method that is none of OpenAPI's, alone and after another at its path.
Custom(rules_) == Of(<< Message(".m.A", << >>) >>, rules_, Plain)

\* A service, a method and fields for one audience, in two documents.
Hidden(selectors) ==
  LET inner(f) == [f EXCEPT !.labels = {"inner"}]
      A == Message(".m.A", << Scalar("id", "string"), inner(Scalar("secret", "string")), inner(Nested("b", ".m.B")),
                              inner(Field("kind", "enum", ".m.Kind")) >>)
      B == Message(".m.B", << Scalar("id", "string") >>)
      S == Service(".m.S", << Method("M", ".m.A", ".m.A", << Get("/m", << >>) >>),
                              inner(Method("N", ".m.A", ".m.B", << Post("/n", <<"*">>) >>)) >>)
  IN  OneService(<< A, B >>, {".m.Kind"}, << S, inner([S EXCEPT !.name = ".m.T"]) >>, [Plain EXCEPT !.selectors = selectors])

\* Two files in one document, the second with the option, and two types D.
Merged(naming, stream) ==
  LET D(name) == Message(name, << Nested("e", ".ab.c.E"), Repeated(Nested("fs", ".ab.c.F")) >>)
      S(name, type, rule) == Service(name, << [Method("M", type, type, << rule >>) EXCEPT !.serverStreaming = stream] >>)
      one == ProtoFile("one", "one", << D(".a.bc.D") >>, {}, << S(".a.bc.S", ".a.bc.D", Post("/d", <<"*">>)) >>)
      two == [ProtoFile("two", "two", << D(".ab.c.D"), Message(".ab.c.E", << Scalar("id", "string") >>),
                                          Message(".ab.c.F", << Scalar("id", "string") >>) >>, {},
                        << S(".ab.c.S", ".ab.c.D", Get("/e", << >>)) >>) EXCEPT !.swagger = TRUE]
  IN  Asking([one |-> one, two |-> two], <<"one", "two">>, << >>,
             [Plain EXCEPT !.naming = naming, !.allowMerge = TRUE, !.simpleOperationIDs = stream,
                           !.disableDefaultErrors = stream])

\* Fields of one type side by side, below each other, repeated and in maps.
Sub2 == Message(".m.Sub", << Scalar("id", "string"), Scalar("note", "string"), Repeated(Nested("times", Pb("Timestamp"))) >>)
Wide == Message(".m.Wide",
  << Scalar("id", "string"), Nested("sub", ".m.Sub"), Nested("sub_two", ".m.Sub"), Repeated(Nested("subs", ".m.Sub")),
     Repeated(Nested("map", ".m.Wide.MapEntry")), Field("kind", "enum", ".m.Kind"), Repeated(Nested("ats", Pb("Timestamp"))),
     Repeated(Field("kinds", "enum", ".m.Kind")) >>)
Entry == [Message(".m.Wide.MapEntry", << Scalar("key", "string"), Nested("value", ".m.Value") >>) EXCEPT !.mapEntry = TRUE]
WideService(rules_, flags) ==
  OneService(<< Wide, Sub2, Entry, Message(".m.Value", << Scalar("id", "string") >>) >>, {".m.Kind"},
             << Service(".m.S", Methods(".m.Wide", ".m.Value", rules_)) >>, flags)
Below(text, names, body) == [Post(text, body) EXCEPT !.tmpl = P(text, names)]
WideRules ==
  << Below("/a", << <<"id">>, <<"sub", "id">> >>, <<"*">>), Below("/b", << <<"sub", "id">> >>, <<"sub">>),
     Below("/c", << <<"sub_two", "id">>, <<"kind">> >>, <<"sub_two">>), Below("/d", << >>, <<"sub">>), Get("/e", << <<"sub", "note">> >>) >>
Looped(depth) ==
  Of(<< Message(".m.P", << Scalar("id", "string"), Nested("q", ".m.Q") >>), Message(".m.Q", << Scalar("id", "string"), Nested("p", ".m.P") >>) >>,
     << Get("/p", << >>) >>, [Plain EXCEPT !.recursiveDepth = depth])
Twins(depth) ==
  Of(<< Message(".m.R", << Nested("q", ".m.Q") >>), Message(".m.Q", << Nested("a", ".m.E"), Nested("b", ".m.E") >>), Message(".m.E", << Scalar("id", "string") >>) >>,
     << Get("/p", << >>) >>, [Plain EXCEPT !.recursiveDepth = depth])

Documents ==
  { Coinciding, Custom(<< Fixed("HEAD") >>), Custom(<< Fixed("GET"), Fixed("HEAD") >>), Hidden({}), Hidden({"inner", "outer"}),
    WideService(WideRules, Plain), WideService(WideRules, [Plain EXCEPT !.useJSONNames = FALSE, !.naming = "fqn"]),
    WideService(<< Get("/a", << <<"ats">> >>) >>, Plain), Looped(1), Twins(1), Twins(2) }
  \cup { Merged(naming, stream) : naming \in {"legacy", "simple", "fqn"}, stream \in BOOLEAN }

MCRequests ==
  {EchoRequest, Named, IllNamed} \cup { Cyclic(s) : s \in SetToSeqs({"P", "X", "R", "Q"}) }
    \cup Accepted \cup Refused \cup Misdeclared \cup Documents
=============================================================================
