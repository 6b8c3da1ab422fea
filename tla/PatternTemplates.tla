-------------------------- MODULE PatternTemplates --------------------------
(***************************************************************************)
(* The pattern machine against the path templates its op codes come from:  *)
(* running the op list a template compiles to decides what the template    *)
(* says of the path, and binds each variable to what its atoms stand for.  *)
(***************************************************************************)
EXTENDS PatternVM

CONSTANT Templates  \* the path templates whose compiled form NewPattern may be given

T == INSTANCE PathTemplate

Atom == [kind : {"lit", "star", "deep"}, text : Comp]
Variable == [name : Comp, from : Nat \ {0}, to : Nat]

\* What httprule's parser lets through: a template has at most one **, its
\* variables capture disjoint ranges of atoms, from left to right, and its
\* compiler puts every literal and every variable's name in the pool.
WellFormed(t) ==
  /\ t.atoms \in Seq(Atom) /\ t.vars \in Seq(Variable) /\ t.verb \in Comp
  /\ \A k, m \in 1..Len(t.atoms) :
       t.atoms[k].kind = "deep" /\ t.atoms[m].kind = "deep" => k = m
  /\ \A k \in 1..Len(t.atoms) :
       t.atoms[k].kind = "lit" => \E n \in 1..Len(Pool) : Pool[n] = t.atoms[k].text
  /\ \A n \in 1..Len(t.vars) :
       /\ t.vars[n].from <= t.vars[n].to /\ t.vars[n].to <= Len(t.atoms)
       /\ \E p \in 1..Len(Pool) : Pool[p] = t.vars[n].name
  /\ \A n \in 1..Len(t.vars) : \A m \in (n + 1)..Len(t.vars) :
       t.vars[n].to < t.vars[m].from

ASSUME TemplatesAssumption == \A t \in Templates : WellFormed(t)

\* The templates the pattern is the compiled form of.
Compiled == [t \in Templates |-> T!Compile(t, Pool)]
Sources == { t \in Templates : Compiled[t] = ops /\ t.verb = verb }

BadOne(c) == ~WellEscaped(c, UnescapeOne)
BadMulti(c) == ~WellEscaped(c, UnescapeMulti)

\* The op codes decide what the template decides: a call answers what the first
\* atom to object answers, and matches when none does and nothing is left over.
\* (A pattern with a verb may also refuse before it runs an op.)
ResultMatchesTemplate ==
  phase \in {"matched", "nomatch", "malformed"} /\ (verb = << >> \/ ip > 1) =>
    \A t \in Sources : phase = T!Result(t, components, BadOne, BadMulti)

\* What atom k of a template contributes to the variable it belongs to: the
\* component it stands for, a literal as it is and a * unescaped; the components
\* of a ** in the form the mode leaves multi-segment captures in, and one empty
\* piece when there are none.
AtomPieces(t, path, k) ==
  LET first == T!First(t, path, k)
      final == T!Final(t, path, k)
  IN  CASE t.atoms[k].kind = "lit"  -> { [at |-> first - 1, text |-> path[first]] }
        [] t.atoms[k].kind = "star" ->
             { [at |-> first - 1, text |-> Unescape(path[first], UnescapeOne)] }
        [] t.atoms[k].kind = "deep" ->
             IF final < first THEN { [at |-> first - 1, text |-> EmptyComp] }
             ELSE { [at |-> n - 1, text |-> Unescape(path[n], UnescapeMulti)] :
                      n \in first..final }

\* What variable v of template t is to be bound to.
BoundTo(t, path, v) == UNION { AtomPieces(t, path, k) : k \in v.from..v.to }

\* A string of the machine, without the labels of the ops that pushed its pieces.
Text(pieces) == { [at |-> p.at, text |-> p.text] : p \in pieces }

\* A match binds the variables of the template, all of them and no others, each
\* to the components its atoms stand for.
BindingsMatchTemplate ==
  phase = "matched" =>
    \A t \in Sources :
      /\ Len(captured) = Len(t.vars)
      /\ \A n \in 1..Len(t.vars) : Text(captured[n]) = BoundTo(t, components, t.vars[n])
=============================================================================
