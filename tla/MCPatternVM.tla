----------------------------- MODULE MCPatternVM -----------------------------
(***************************************************************************)
(* Every op list up to MaxOps ops over a small operand range, and the      *)
(* compiled form of a set of templates, each accepted one run on every     *)
(* path up to MaxPath components; the templates against their meaning.     *)
(***************************************************************************)
EXTENDS PatternTemplates

CONSTANTS MaxOps, MaxPath

MCTok == {"", "a", "%", "+", " ", "w", "id", "rest"}
MCEmptyTok == ""

\* UnescapingModeAllExceptReserved: "%" is a broken escape, and "+" stands for
\* an escaped reserved character, which stays escaped under ** and becomes a
\* " " (its plain form) in a single segment.
MCUnescapeOne == [t \in MCTok |-> IF t = "%" THEN Malformed ELSE IF t = "+" THEN " " ELSE t]
MCUnescapeMulti == [t \in MCTok |-> IF t = "%" THEN Malformed ELSE t]

MCPool == << <<"a">>, <<"id">>, <<"rest">> >>

MCOps ==
  { [code |-> c, operand |-> 0] : c \in {"OpNop", "OpPush", "OpPushM", "OpEnd"} }
  \cup { [code |-> "OpLitPush", operand |-> n] : n \in {-1, 0, 3} }
  \cup { [code |-> "OpConcatN", operand |-> n] : n \in 0..2 }
  \cup { [code |-> "OpCapture", operand |-> n] : n \in 2..3 }

MCTemplates ==
  LET a == T!Lit(<<"a">>)
      id(from, to) == T!Var(<<"id">>, from, to)
      rest(from, to) == T!Var(<<"rest">>, from, to)
      shapes ==
        { [atoms |-> << a >>, vars |-> << >>],
          [atoms |-> << T!Star >>, vars |-> << id(1, 1) >>],
          [atoms |-> << a, T!Star >>, vars |-> << id(2, 2) >>],
          [atoms |-> << a, T!Star, a >>, vars |-> << id(1, 2) >>],
          [atoms |-> << T!Star, T!Star >>, vars |-> << id(1, 1), rest(2, 2) >>],
          [atoms |-> << T!Deep >>, vars |-> << rest(1, 1) >>],
          [atoms |-> << a, T!Deep >>, vars |-> << rest(1, 2) >>],
          [atoms |-> << T!Star, T!Deep, a >>, vars |-> << id(1, 1), rest(2, 3) >>],
          [atoms |-> << T!Star, T!Deep, T!Star >>, vars |-> << rest(1, 2), id(3, 3) >>] }
  IN  { T!Template(s.atoms, s.vars, v) : s \in shapes, v \in { << >>, <<"w">> } }

MCPrograms ==
  T!BoundedSeq(MCOps, MaxOps) \cup { T!Compile(t, MCPool) : t \in MCTemplates }
MCPaths == T!BoundedSeq({ <<"a">>, <<"%">>, <<"+">> }, MaxPath)
MCPatternVerbs == { << >>, <<"w">> }
MCRequestVerbs == { << >>, <<"w">> }

=============================================================================
