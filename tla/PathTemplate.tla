---------------------------- MODULE PathTemplate ----------------------------
(***************************************************************************)
(* What a path template means, independently of the op codes it compiles   *)
(* to.  A template is the list of its atoms, each a literal, * or **, with *)
(* the ranges of atoms its variables capture and its verb; there is at     *)
(* most one **.  The compiler from templates to op codes is the external   *)
(* httprule package; ServeMux and the generated code only see its output.  *)
(***************************************************************************)
EXTENDS Integers, Sequences, SequencesExt

Lit(text) == [kind |-> "lit", text |-> text]
Star == [kind |-> "star", text |-> << >>]
Deep == [kind |-> "deep", text |-> << >>]

Template(atoms, vs, verb) == [atoms |-> atoms, vars |-> vs, verb |-> verb]
Var(name, from, to) == [name |-> name, from |-> from, to |-> to]

IsDeep(atom) == atom.kind = "deep"
DeepAt(t) == SelectInSeq(t.atoms, IsDeep)

\* How many more components than atoms the path has: ** absorbs them.
Slack(t, path) == Len(path) - Len(t.atoms)

\* The first and the last component that atom k stands for (none when ** is empty).
First(t, path, k) == IF DeepAt(t) \in 1..(k - 1) THEN k + Slack(t, path) ELSE k
Final(t, path, k) == IF DeepAt(t) \in 1..k THEN k + Slack(t, path) ELSE k

\* What atom k makes of the components it stands for.  Escapes are examined
\* only where a component is captured: a literal is compared as it came.
AtomResult(t, path, k, BadOne(_), BadMulti(_)) ==
  LET first == First(t, path, k)
  IN  CASE t.atoms[k].kind = "deep" ->
             IF Slack(t, path) < -1 THEN "nomatch"
             ELSE IF \E n \in first..Final(t, path, k) : BadMulti(path[n]) THEN "malformed"
             ELSE "matched"
        [] t.atoms[k].kind # "deep" /\ first \notin DOMAIN path -> "nomatch"
        [] t.atoms[k].kind = "lit" /\ first \in DOMAIN path ->
             IF path[first] = t.atoms[k].text THEN "matched" ELSE "nomatch"
        [] t.atoms[k].kind = "star" /\ first \in DOMAIN path ->
             IF BadOne(path[first]) THEN "malformed" ELSE "matched"

\* The first atom that objects decides; components left over are no match.
Result(t, path, BadOne(_), BadMulti(_)) ==
  LET of(k) == AtomResult(t, path, k, BadOne, BadMulti)
      objecting == { k \in 1..Len(t.atoms) : of(k) # "matched" }
  IN  IF objecting # {} THEN of(Min(objecting))
      ELSE IF DeepAt(t) = 0 /\ Slack(t, path) > 0 THEN "nomatch"
      ELSE "matched"

\* The path a template with this verb is compared with when the request has that one.
Effective(t, path, verb) ==
  IF t.verb = verb THEN path
  ELSE IF path = << >> THEN << << "" >> \o verb >>
  ELSE [path EXCEPT ![Len(path)] = @ \o verb]

\* What a template says of a path and the verb split off it.
Matches(t, path, verb, BadOne(_), BadMulti(_)) ==
  IF t.verb \notin {verb, << >>} THEN "nomatch"
  ELSE Result(t, Effective(t, path, verb), BadOne, BadMulti)

\* The variables that end at atom k: at most one, since they are disjoint.
EndingAt(t, k) == { n \in 1..Len(t.vars) : t.vars[n].to = k }

\* The op codes httprule compiles a template to, over a given constant pool:
\* a push for every atom, and a join and a capture where a variable ends.
PoolIndex(pool, text) == CHOOSE n \in 1..Len(pool) : pool[n] = text

Push(atom, pool) ==
  CASE atom.kind = "lit"  -> [code |-> "OpLitPush", operand |-> PoolIndex(pool, atom.text) - 1]
    [] atom.kind = "star" -> [code |-> "OpPush", operand |-> 0]
    [] atom.kind = "deep" -> [code |-> "OpPushM", operand |-> 0]

Capture(v, pool) ==
  << [code |-> "OpConcatN", operand |-> v.to - v.from + 1],
     [code |-> "OpCapture", operand |-> PoolIndex(pool, v.name) - 1] >>

AtomOps(t, pool, k) ==
  IF EndingAt(t, k) = {} THEN << Push(t.atoms[k], pool) >>
  ELSE << Push(t.atoms[k], pool) >> \o Capture(t.vars[Min(EndingAt(t, k))], pool)

Compile(t, pool) == FlattenSeq([k \in 1..Len(t.atoms) |-> AtomOps(t, pool, k)])
=============================================================================
