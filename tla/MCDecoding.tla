----------------------------- MODULE MCDecoding -----------------------------
(***************************************************************************)
(* Decoding for TLC: one family of requests for each stage, each varied    *)
(* around a request that passes, over a small message with a list, a map, *)
(* a oneof with messages in it, and rules two levels deep.                 *)
(***************************************************************************)
EXTENDS Decoding

Plain(kind) == [json |-> "-", kind |-> kind, msg |-> "none", card |-> "one", oneof |-> "none", rules |-> {}]
Message(type) == [Plain("message") EXCEPT !.msg = type]
Positives == [type |-> "number", op |-> "gt", allowed |-> {"1", "7", "8", "10", "long", "unset"}]
LeftOut == [type |-> "string", op |-> "gt", allowed |-> {}]

MCSchema ==
  [Request |->
     [user_name |-> [Plain("string") EXCEPT !.json = "userName", !.rules = {LeftOut}],
      count |-> [Plain("int32") EXCEPT !.rules = {Positives}],
      tags |-> [Plain("int64") EXCEPT !.card = "list"],
      attrs |-> [Message("Entry") EXCEPT !.kind = "bool", !.card = "map"],
      text |-> [Plain("bytes") EXCEPT !.oneof = "choice"],
      left |-> [Message("Leaf") EXCEPT !.oneof = "choice"],
      right |-> [Message("Leaf") EXCEPT !.oneof = "choice"],
      wait |-> [Message("Duration") EXCEPT !.kind = "duration"],
      item |-> Message("Item")],
   Item |->
     [title |-> Plain("string"),
      leaf_of |-> [Message("Leaf") EXCEPT !.json = "leafOf"],
      parts |-> [Message("Leaf") EXCEPT !.card = "list"],
      extra |-> Message("Struct"),
      detail |-> Message("Any")],
   Leaf |->
     [size |-> [Plain("int32") EXCEPT !.rules = {Positives}], color |-> Plain("enum"), more |-> Message("Struct")]]

MCUnits == [n |-> 1, m |-> 10, H |-> 100]

Base ==
  [debug |-> FALSE, source |-> "web", has |-> {}, thirdParty |-> FALSE,
   timeout |-> {}, headers |-> {}, host |-> TRUE, remote |-> TRUE,
   body |-> << >>, tree |-> (<< >> :> "object"), bodyBad |-> FALSE, patch |-> FALSE,
   params |-> << >>, query |-> {}, queryBad |-> FALSE, balancer |-> "ROUND_ROBIN", hashKey |-> ""]

Hooks ==
  { [Base EXCEPT !.debug = d, !.source = s, !.has = h, !.thirdParty = t, !.balancer = "CONSISTENT", !.hashKey = k] :
      d \in BOOLEAN, s \in {"", "client", "third", "web", "unknown"},
      h \in { {}, {"client", "version"}, {"client", "version", "did"} }, t \in BOOLEAN,
      k \in {"@uuid", "@session", "count"} }

Header(name, class, bin, values) == [name |-> name, class |-> class, bin |-> bin, values |-> values]
HeaderPool ==
  { Header("authorization", "permanent", FALSE, {"a"}), Header("accept", "permanent", FALSE, {"a", "b"}),
    Header("x-forwarded-for", "custom", FALSE, {"forged"}), Header("key-bin", "custom", TRUE, {"a"}),
    Header("other-bin", "custom", TRUE, {"%"}), Header("x-uid", "other", FALSE, {"a"}) }
Contexts ==
  { [Base EXCEPT !.headers = hs, !.remote = r, !.host = r] : hs \in SUBSET HeaderPool, r \in BOOLEAN }
  \cup { [Base EXCEPT !.timeout = {[digits |-> d, unit |-> u]}] : d \in -6..9, u \in {"n", "m", "H", "x"} }

Key(path, sub, values) == [path |-> path, sub |-> sub, values |-> values]
Keys ==
  { Key(<<"user_name">>, << >>, <<"hello">>), Key(<<"userName">>, << >>, <<"true">>),
    Key(<<"count">>, << >>, <<"010">>), Key(<<"count">>, <<"1">>, <<"1">>), Key(<<"tags">>, << >>, <<"1", "long">>),
    Key(<<"tags">>, <<"010">>, <<"1">>), Key(<<"attrs">>, <<"hello">>, <<"true">>), Key(<<"attrs">>, << >>, <<"1">>),
    Key(<<"text">>, << >>, <<"_w==">>), Key(<<"left", "size">>, << >>, <<"1">>), Key(<<"left", "color">>, << >>, <<"RED">>),
    Key(<<"right", "size">>, << >>, <<"1">>), Key(<<"wait">>, << >>, <<"1m">>), Key(<<"wait">>, << >>, <<"null">>),
    Key(<<"item", "leafOf", "size">>, << >>, <<"-1">>), Key(<<"item", "title">>, << >>, <<"hello">>),
    Key(<<"item", "parts", "size">>, << >>, <<"1">>), Key(<<"item", "leaf_of", "color">>, << >>, <<"1">>),
    Key(<<"nothing">>, << >>, <<"1">>), Key(<<"item">>, << >>, <<"1">>),
    Key(<<"attrs", "value">>, << >>, <<"true">>) }

Param(path, values) == [path |-> path, values |-> values]
ParamLists ==
  { << >>, << Param(<<"user_name">>, <<"hello">>) >>, << Param(<<"count">>, <<"0x7">>), Param(<<"text">>, <<"/w==">>) >>,
    << Param(<<"item", "title">>, <<"1">>) >>, << Param(<<"tags">>, <<"1", "010">>) >>,
    << Param(<<"count">>, <<"long">>) >>, << Param(<<"wait">>, <<"1m">>) >>, << Param(<<"left", "size">>, <<"0x7">>) >>,
    << Param(<<"left", "size">>, <<"1">>), Param(<<"text">>, <<"/w==">>) >> }

Queries ==
  { [Base EXCEPT !.query = q, !.params = ps] :
      q \in { {k, l} : k, l \in Keys }, ps \in ParamLists }
  \cup { [Base EXCEPT !.query = {k}, !.queryBad = TRUE] : k \in Keys }

\* Bodies of the field item: trees of two levels.
Tree(nodes) == [p \in { x[1] : x \in nodes } |-> (CHOOSE x \in nodes : x[1] = p)[2]]
Branches ==
  { { <<<<"title">>, "1">> },
    { <<<<"leafOf">>, "object">>, <<<<"leafOf", "size">>, "1">>, <<<<"leafOf", "color">>, "RED">> },
    { <<<<"leaf_of">>, "object">>, <<<<"leaf_of", "size">>, "-1">> },
    { <<<<"leafOf">>, "object">> },
    { <<<<"leafOf">>, "object">>, <<<<"leafOf", "more">>, "object">>, <<<<"leafOf", "more", "a">>, "1">> },
    { <<<<"parts">>, "1">> },
    { <<<<"extra">>, "object">>, <<<<"extra", "a">>, "object">>, <<<<"extra", "a", "b">>, "1">>, <<<<"extra", "c">>, "1">> },
    { <<<<"nothing">>, "1">> },
    { <<<<"detail">>, "object">>, <<<<"detail", "@type">>, "hello">> },
    { <<<<"detail">>, "null">> }, { <<<<"detail">>, "object">> } }
Agree(nodes) == \A x, y \in nodes : x[1] = y[1] => x = y
ItemTrees == { Tree({<<<< >>, "object">>} \cup n) : n \in { m \in { b \cup c : b, c \in Branches } : Agree(m) } }
Bodies ==
  { [Base EXCEPT !.body = <<"item">>, !.tree = t, !.patch = p, !.bodyBad = b, !.query = q] :
      t \in ItemTrees, p \in BOOLEAN, b \in BOOLEAN,
      q \in { {}, {Key(<<"item", "title">>, << >>, <<"hello">>), Key(<<"count">>, << >>, <<"1">>)} } }

\* For whole messages as bodies: a binding of the path over a field of the body.
Wholes ==
  { [Base EXCEPT !.tree = Tree({<<<< >>, "object">>, <<<<"userName">>, "1">>, <<<<"item">>, "object">>} \cup
                               { <<<<"item">> \o x[1], x[2]>> : x \in b }), !.params = ps] :
      b \in Branches, ps \in { << >>, << Param(<<"user_name">>, <<"hello">>) >>, << Param(<<"item", "title">>, <<"1">>) >> } }

MCRequests == Hooks \cup Contexts \cup Queries \cup Bodies \cup Wholes
=============================================================================
