---------------------------- MODULE Routing_proof ----------------------------
(***************************************************************************)
(* What the search of ServeHTTP answers, for every table and request.  The *)
(* argument: at any moment the shared components and verb are either the   *)
(* path as it came or the path cut at one handler's verb, and a handler    *)
(* put before a cut path decides as it would before the whole one.         *)
(***************************************************************************)
EXTENDS Routing, SequenceTheorems, WellFoundedInduction, TLAPS

Token == STRING
Component == Seq(Token)
TemplateSet == [atoms : Seq([kind : {"lit", "star", "deep"}, text : Component]),
                vars : {<< >>}, verb : Component]
Errors == {"hook error", "bad request", "invalid argument", "not found",
           "malformed", "method not allowed"}
Answer == [to : Errors \cup {"handler"}, method : Methods \cup {NoMethod}, index : Nat]
Phases == {"enter", "match", "fallback", "done"}

TypeOK ==
  /\ table \in Tables /\ req \in Requests
  /\ phase \in Phases /\ method \in STRING
  /\ components \in Seq(Component) /\ components # << >>
  /\ verb \in Component
  /\ next \in Nat \ {0}
  /\ other \in Methods \cup {NoMethod} /\ left \subseteq Methods
  /\ answers \in Seq(Answer)
  /\ phase = "enter" => components = req.path /\ verb = << >> /\ next = 1 /\ answers = << >>

-----------------------------------------------------------------------------
(* Facts about the operators of the search. *)

\* A nonempty set of numbers has a least one.
LEMMA Least ==
  ASSUME NEW T, T \subseteq Nat, T # {}
  PROVE  Min(T) \in T /\ \A m \in T : Min(T) <= m
<1> DEFINE R == {ss \in Nat \X Nat : ss[1] < ss[2]}
<1>1. IsWellFoundedOn(R, Nat)
  BY NatLessThanWellFounded DEF OpToRel
<1>2. \E n \in T : \A m \in T : ~(<<m, n>> \in R)
  BY <1>1, WFMin
<1>3. \A m, n \in Nat : m < n => <<m, n>> \in R
  OBVIOUS
<1>. HIDE DEF R
<1>4. \E n \in T : \A m \in T : n <= m
  <2>1. PICK n \in T : \A m \in T : ~(<<m, n>> \in R)
    BY <1>2
  <2>2. \A m \in T : m \in Nat /\ n \in Nat /\ ~(m < n)
    BY <1>3, <2>1
  <2>3. \A m \in T : n <= m
    BY <2>2
  <2>. QED  BY <2>3
<1>. QED  BY <1>4 DEF Min

LEMMA RequestTyped ==
  ASSUME NEW r \in Requests
  PROVE  /\ r.path \in Seq(Component) /\ r.path # << >> /\ Len(r.path) \in Nat \ {0}
         /\ r.method \in STRING /\ r.override \in STRING
         /\ Last(r.path) \in Component
<1>1. r \in Request /\ r.path # << >>
  BY RequestAssumption
<1>2. r.path \in Seq(Component) /\ r.method \in STRING /\ r.override \in STRING
  BY <1>1 DEF Request, Component, Token
<1>3. Len(r.path) \in Nat \ {0}
  BY <1>1, <1>2, EmptySeq
<1>4. Last(r.path) \in Component
  BY <1>2, <1>3, ElementOfSeq DEF Last
<1>. QED  BY <1>1, <1>2, <1>3, <1>4

LEMMA HandlerTyped ==
  ASSUME NEW t \in Tables, NEW m \in Methods
  PROVE  /\ t[m] \in Seq(TemplateSet) /\ Len(t[m]) \in Nat
         /\ \A k \in 1..Len(t[m]) : t[m][k] \in TemplateSet /\ t[m][k].verb \in Component
<1>1. t[m] \in Seq(TemplateSet)
  BY TableAssumption DEF TemplateSet, Component, Token
<1>2. \A k \in 1..Len(t[m]) : t[m][k] \in TemplateSet
  BY <1>1, ElementOfSeq
<1>3. \A h \in TemplateSet : h.verb \in Component
  BY DEF TemplateSet
<1>. QED  BY <1>1, <1>2, <1>3

\* A verb that ends a component is its tail, and the stem is what precedes it.
LEMMA StemProperties ==
  ASSUME NEW c \in Component, NEW v \in Component, EndsWith(c, v)
  PROVE  /\ Stem(c, v) \in Component /\ Len(Stem(c, v)) = Len(c) - Len(v)
         /\ v # << >> /\ Len(v) \in 1..(Len(c) - 1) /\ Len(c) \in Nat
         /\ \A k \in 1..(Len(c) - Len(v)) : Stem(c, v)[k] = c[k]
         /\ \A k \in 1..Len(v) : v[k] = c[Len(c) - Len(v) + k]
         /\ Stem(c, v) \o v = c
<1> DEFINE n == Len(c) - Len(v)
<1>1. Len(c) \in Nat /\ Len(v) \in Nat /\ v # << >> /\ Len(v) < Len(c) /\ IsSuffix(v, c)
  BY DEF EndsWith, Component
<1>2. Len(v) # 0
  BY <1>1, EmptySeq DEF Component
<1>3. \A k \in 1..n : c[k] \in Token
  BY <1>1, ElementOfSeq DEF Component
<1>4. Stem(c, v) \in Component /\ Len(Stem(c, v)) = n /\ \A k \in 1..n : Stem(c, v)[k] = c[k]
  BY <1>1, <1>2, <1>3, SubSeqProperties DEF Stem, Component
<1>5. \A k \in 1..Len(v) : v[k] = c[n + k]
  <2>1. SubSeq(Reverse(v), 1, Len(Reverse(v))) = SubSeq(Reverse(c), 1, Len(Reverse(v)))
    BY <1>1 DEF IsSuffix, IsPrefix
  <2>2. ASSUME NEW k \in 1..Len(v) PROVE v[k] = c[n + k]
    <3> DEFINE j == Len(v) - k + 1
    <3>1. j \in 1..Len(v) /\ j \in 1..Len(c) /\ Len(v) - j + 1 = k /\ Len(c) - j + 1 = n + k
      BY <1>1
    <3>2. Len(Reverse(v)) = Len(v) /\ Reverse(v)[j] = v[k] /\ Reverse(c)[j] = c[n + k]
      BY <1>1, <3>1 DEF Reverse
    <3>3. SubSeq(Reverse(v), 1, Len(v))[j] = Reverse(v)[j] /\ SubSeq(Reverse(c), 1, Len(v))[j] = Reverse(c)[j]
      BY <1>1, <3>1
    <3>. QED  BY <2>1, <3>2, <3>3
  <2>. QED  BY <2>2
<1>6. Stem(c, v) \o v = c
  <2>1. /\ Stem(c, v) \o v \in Component /\ Len(Stem(c, v) \o v) = Len(c)
        /\ \A k \in 1..Len(c) : (Stem(c, v) \o v)[k] = IF k <= n THEN Stem(c, v)[k] ELSE v[k - n]
    BY <1>1, <1>4, ConcatProperties DEF Component
  <2> DEFINE s == Stem(c, v) \o v
  <2>a. /\ s \in Component /\ Len(s) = Len(c)
        /\ \A k \in 1..Len(c) : s[k] = IF k <= n THEN Stem(c, v)[k] ELSE v[k - n]
    BY <2>1
  <2>. HIDE DEF s
  <2>2. ASSUME NEW k \in 1..Len(c) PROVE s[k] = c[k]
    <3>1. CASE k <= n
      BY <1>1, <1>4, <2>a, <3>1
    <3>2. CASE k > n
      <4>1. k - n \in 1..Len(v) /\ n + (k - n) = k
        BY <1>1, <3>2
      <4>2. v[k - n] = c[k]
        BY <1>5, <4>1
      <4>. QED  BY <1>1, <2>a, <3>2, <4>2
    <3>. QED  BY <1>1, <3>1, <3>2
  <2>3. s \in Seq(Token) /\ c \in Seq(Token) /\ Len(s) = Len(c) /\ \A k \in 1..Len(s) : s[k] = c[k]
    BY <2>a, <2>2 DEF Component
  <2>4. s = c
    BY <2>3, SeqEqual
  <2>. QED  BY <2>4 DEF s
<1>. QED  BY <1>1, <1>2, <1>4, <1>5, <1>6

-----------------------------------------------------------------------------
(* What a template says of escapes and of verbs. *)

\* A malformed escape is one of the path's or the verb's.
LEMMA MalformedHasBadToken ==
  ASSUME NEW t \in TemplateSet, NEW path \in Seq(Component), path # << >>, NEW v \in Component,
         MatchAndEscape(t, path, v) = "malformed"
  PROVE  BadToken(v) \/ \E k \in 1..Len(path) : BadToken(path[k])
<1> DEFINE eff == Effective(t, path, v)
<1>1. Len(path) \in Nat \ {0} /\ t.verb \in {v, << >>} /\ Result(t, eff, BadToken, BadToken) = "malformed"
  BY EmptySeq DEF MatchAndEscape, Matches
<1>2. /\ Len(eff) = Len(path)
      /\ \A k \in 1..Len(path) : eff[k] = path[k] \/ eff[k] = path[k] \o v
  <2> DEFINE longer == [path EXCEPT ![Len(path)] = @ \o v]
  <2>1. path[Len(path)] \in Component
    BY <1>1, ElementOfSeq
  <2>2. path[Len(path)] \o v \in Component
    BY <2>1, ConcatProperties DEF Component
  <2>3. Len(longer) = Len(path) /\ \A k \in 1..Len(path) : longer[k] = path[k] \/ longer[k] = path[k] \o v
    <3> DEFINE e == path[Len(path)] \o v
    <3>1. e \in Component /\ Len(path) \in 1..Len(path)
      BY <1>1, <2>2
    <3>2. longer = [path EXCEPT ![Len(path)] = e]
      OBVIOUS
    <3>. HIDE DEF e, longer
    <3>3. Len(longer) = Len(path) /\ \A k \in 1..Len(path) : longer[k] = IF k = Len(path) THEN e ELSE path[k]
      BY <3>1, <3>2, ExceptSeq
    <3>4. e = path[Len(path)] \o v
      BY DEF e
    <3>. QED  BY <3>3, <3>4
  <2>4. eff = path \/ eff = longer
    BY DEF Effective
  <2>. HIDE DEF eff, longer
  <2>. QED  BY <2>3, <2>4
<1>3. ASSUME NEW k \in 1..Len(path), BadToken(eff[k])
      PROVE  BadToken(v) \/ BadToken(path[k])
  <2>1. CASE eff[k] = path[k]
    BY <1>3, <2>1
  <2>2. CASE eff[k] = path[k] \o v
    <3>1. path[k] \in Seq(Token) /\ v \in Seq(Token)
      BY ElementOfSeq DEF Component
    <3>2. PICK j \in 1..Len(path[k] \o v) : (path[k] \o v)[j] \in BadTokens
      BY <1>3, <2>2 DEF BadToken
    <3>3. Len(path[k] \o v) = Len(path[k]) + Len(v) /\ Len(path[k]) \in Nat /\ Len(v) \in Nat
      BY <3>1, ConcatProperties
    <3>4. CASE j <= Len(path[k])
      <4>1. j \in 1..Len(path[k]) /\ (path[k] \o v)[j] = path[k][j]
        BY <3>1, <3>3, <3>4, ConcatProperties
      <4>. QED  BY <3>2, <4>1 DEF BadToken
    <3>5. CASE ~(j <= Len(path[k]))
      <4>1. j - Len(path[k]) \in 1..Len(v)
        BY <3>3, <3>5
      <4>2. (path[k] \o v)[j] = v[j - Len(path[k])]
        BY <3>1, <3>3, <3>5, ConcatProperties
      <4>. QED  BY <3>2, <4>1, <4>2 DEF BadToken
    <3>. QED  BY <3>4, <3>5
  <2>. QED  BY <1>2, <2>1, <2>2
<1> DEFINE of(k) == AtomResult(t, eff, k, BadToken, BadToken)
           objecting == {k \in 1..Len(t.atoms) : of(k) # "matched"}
<1>4. \E k \in 1..Len(t.atoms) : of(k) = "malformed"
  <2>1. objecting # {} /\ of(Min(objecting)) = "malformed"
    BY <1>1 DEF Result
  <2>2. Len(t.atoms) \in Nat /\ objecting \subseteq Nat
    BY DEF TemplateSet
  <2>3. Min(objecting) \in objecting
    BY <2>1, <2>2, Least
  <2>. QED  BY <2>1, <2>3
<1>5. PICK k \in 1..Len(t.atoms) : of(k) = "malformed"
  BY <1>4
<1>6. Len(t.atoms) \in Nat /\ k \in Nat /\ k >= 1 /\ k <= Len(t.atoms) /\ Len(eff) \in Nat
  BY <1>1, <1>2 DEF TemplateSet
<1>7. \/ Slack(t, eff) >= -1 /\ t.atoms[k].kind = "deep" /\ \E n \in First(t, eff, k)..Final(t, eff, k) : BadToken(eff[n])
      \/ First(t, eff, k) \in DOMAIN eff /\ BadToken(eff[First(t, eff, k)])
  <2>1. Slack(t, eff) \in Int
    BY <1>6 DEF Slack
  <2>2. t.atoms[k].kind \in {"lit", "star", "deep"}
    <3> DEFINE A == [kind : {"lit", "star", "deep"}, text : Component]
    <3>1. t.atoms \in Seq(A)
      BY DEF TemplateSet
    <3>2. t.atoms[k] \in A
      <4>. HIDE DEF A, of, objecting
      <4>. QED  BY ONLY <3>1, k \in 1..Len(t.atoms)
    <3>. QED  BY <3>2
  <2>. QED  BY <1>5, <2>1, <2>2 DEF AtomResult
<1>8. PICK n : BadToken(eff[n]) /\ n \in 1..Len(path)
  <2>. HIDE DEF eff
  <2>1. CASE First(t, eff, k) \in DOMAIN eff /\ BadToken(eff[First(t, eff, k)])
    BY <2>1, <1>2
  <2>2. CASE Slack(t, eff) >= -1 /\ t.atoms[k].kind = "deep" /\ \E n \in First(t, eff, k)..Final(t, eff, k) : BadToken(eff[n])
    <3>1. First(t, eff, k) \in Int /\ Final(t, eff, k) \in Int
      BY <1>6 DEF First, Final, Slack
    <3>a. DeepAt(t) \in 1..k
      <4> DEFINE I == {i \in 1..Len(t.atoms) : IsDeep(t.atoms[i])}
      <4>1. k \in I /\ I \subseteq Nat
        BY <1>6, <2>2 DEF IsDeep
      <4>2. Min(I) \in I /\ Min(I) <= k
        BY <4>1, Least
      <4>3. DeepAt(t) = Min(I)
        BY <4>1 DEF DeepAt, SelectInSeq
      <4>. QED  BY <1>6, <4>2, <4>3
    <3>b. Final(t, eff, k) = k + Slack(t, eff) /\ First(t, eff, k) \in {k, k + Slack(t, eff)}
          /\ (First(t, eff, k) # k => DeepAt(t) \in 1..(k - 1))
      BY <3>a DEF Final, First
    <3>c. Slack(t, eff) = Len(eff) - Len(t.atoms)
      BY DEF Slack
    <3>2. First(t, eff, k) >= 1 /\ Final(t, eff, k) <= Len(eff)
      BY <1>6, <2>2, <3>a, <3>b, <3>c
    <3>. QED  BY <1>2, <2>2, <3>1, <3>2
  <2>. QED  BY <1>7, <2>1, <2>2
<1>. QED  BY <1>3, <1>8

\* What is handed on of a path and a verb is as well formed, and holds no token
\* that was not in them.
LEMMA SplitProperties ==
  ASSUME NEW path \in Seq(Component), path # << >>, NEW v \in Component, NEW old \in Component
  PROVE  /\ Split(path, v, old).path \in Seq(Component) /\ Split(path, v, old).path # << >>
         /\ Len(Split(path, v, old).path) = Len(path)
         /\ Split(path, v, old).verb \in Component
         /\ \A k \in 1..Len(path) : BadToken(Split(path, v, old).path[k]) => BadToken(path[k])
         /\ BadToken(Split(path, v, old).verb) =>
              BadToken(old) \/ \E k \in 1..Len(path) : BadToken(path[k])
<1>1. Len(path) \in Nat \ {0} /\ Last(path) = path[Len(path)] /\ Last(path) \in Component
  BY EmptySeq, ElementOfSeq DEF Last
<1>2. CASE ~EndsWith(Last(path), v)
  BY <1>2 DEF Split
<1>3. CASE EndsWith(Last(path), v)
  <2> DEFINE stem == Stem(Last(path), v)
             cut == [path EXCEPT ![Len(path)] = stem]
  <2>1. Split(path, v, old).path = cut /\ Split(path, v, old).verb = v
    BY <1>1, <1>3 DEF Split
  <2>2. /\ stem \in Component /\ Len(stem) = Len(Last(path)) - Len(v)
        /\ Len(Last(path)) \in Nat /\ Len(v) \in 1..(Len(Last(path)) - 1)
        /\ \A k \in 1..(Len(Last(path)) - Len(v)) : stem[k] = Last(path)[k]
        /\ \A k \in 1..Len(v) : v[k] = Last(path)[Len(Last(path)) - Len(v) + k]
    BY <1>1, <1>3, StemProperties
  <2>. HIDE DEF stem
  <2>3. /\ cut \in Seq(Component) /\ Len(cut) = Len(path)
        /\ \A k \in 1..Len(path) : cut[k] = IF k = Len(path) THEN stem ELSE path[k]
    BY <1>1, <2>2, ExceptSeq
  <2>. HIDE DEF cut
  <2>4. cut # << >>
    BY <1>1, <2>3, EmptySeq
  <2>5. BadToken(stem) => BadToken(path[Len(path)])
    <3>1. ASSUME NEW j \in 1..Len(stem), stem[j] \in BadTokens
          PROVE  j \in 1..Len(path[Len(path)]) /\ path[Len(path)][j] \in BadTokens
      <4>1. j \in 1..(Len(Last(path)) - Len(v)) /\ j \in 1..Len(Last(path))
        BY <2>2
      <4>. QED  BY <1>1, <2>2, <3>1, <4>1
    <3>. QED  BY <3>1 DEF BadToken
  <2>6. BadToken(v) => BadToken(path[Len(path)])
    <3>1. ASSUME NEW j \in 1..Len(v), v[j] \in BadTokens
          PROVE  \E i \in 1..Len(path[Len(path)]) : path[Len(path)][i] \in BadTokens
      <4> DEFINE i == Len(Last(path)) - Len(v) + j
      <4>1. i \in 1..Len(Last(path)) /\ Last(path)[i] = v[j]
        BY <2>2
      <4>. QED  BY <1>1, <3>1, <4>1
    <3>. QED  BY <3>1 DEF BadToken
  <2>7. Len(path) \in 1..Len(path)
    BY <1>1
  <2>. QED  BY <2>1, <2>2, <2>3, <2>4, <2>5, <2>6, <2>7
<1>. QED  BY <1>2, <1>3

-----------------------------------------------------------------------------
(* The shape of the steps. *)

\* A template is not looked at before it is known to be one.
LEMMA TryShape ==
  ASSUME TypeOK, Try
  PROVE  /\ method \in Methods /\ HandlersOf(method) = table[method]
         /\ next \in 1..Len(table[method]) /\ table[method][next] \in TemplateSet
         /\ table[method][next].verb \in Component
         /\ table' = table /\ req' = req /\ method' = method /\ other' = other /\ left' = left
<1>1. HandlersOf(method) # << >>
  <2>1. next <= Len(HandlersOf(method)) /\ next \in Nat \ {0}
    BY DEF Try, TypeOK
  <2>2. Len(<< >>) = 0
    OBVIOUS
  <2>. QED  BY <2>1, <2>2
<1>2. method \in Methods /\ HandlersOf(method) = table[method]
  BY <1>1 DEF HandlersOf
<1>3. next \in 1..Len(table[method])
  <2>1. Len(table[method]) \in Nat
    BY <1>2, HandlerTyped DEF TypeOK
  <2>2. next <= Len(table[method]) /\ next \in Nat \ {0}
    BY <1>2 DEF Try, TypeOK
  <2>. QED  BY <2>1, <2>2
<1>4. table' = table /\ req' = req /\ method' = method /\ other' = other /\ left' = left
  BY DEF Try, Finish
<1>. QED  BY <1>2, <1>3, <1>4, HandlerTyped DEF TypeOK

LEMMA FallbackShape ==
  ASSUME TypeOK, Fallback
  PROVE  /\ other \in Methods /\ HandlersOf(other) = table[other]
         /\ next \in 1..Len(table[other]) /\ table[other][next] \in TemplateSet
         /\ table' = table /\ req' = req /\ other' = other /\ left' = left
<1>1. next <= Len(HandlersOf(other)) /\ next \in Nat \ {0}
  <2>1. Len(HandlersOf(other)) \in Nat
    BY HandlerTyped DEF HandlersOf, TypeOK
  <2>2. ~(next > Len(HandlersOf(other))) /\ next \in Nat \ {0}
    BY DEF Fallback, AtEnd, TypeOK
  <2>. QED  BY <2>1, <2>2
<1>2. HandlersOf(other) # << >>
  <2>1. Len(<< >>) = 0
    OBVIOUS
  <2>. QED  BY <1>1, <2>1
<1>3. other \in Methods /\ HandlersOf(other) = table[other]
  BY <1>2 DEF HandlersOf
<1>4. next \in 1..Len(table[other])
  BY <1>1, <1>3, HandlerTyped DEF TypeOK
<1>5. table' = table /\ req' = req /\ other' = other /\ left' = left
  BY DEF Fallback, Finish
<1>. QED  BY <1>3, <1>4, <1>5, HandlerTyped DEF TypeOK

\* What one try does to the search, with the pieces named.
SplitNow == Split(components, table[method][next].verb, verb)
Tried == MatchAndEscape(table[method][next], SplitNow.path, SplitNow.verb)
TriedBack == MatchAndEscape(table[other][next], components, verb)

Goes(answered) == answers' = Append(answers, answered)

LEMMA TryCases ==
  ASSUME Try
  PROVE  \/ /\ VerbOnly(components, table[method][next].verb)
            /\ phase' = "done" /\ Goes(Error("not found")) /\ next' = next
            /\ components' = components /\ verb' = verb
         \/ /\ ~VerbOnly(components, table[method][next].verb)
            /\ components' = SplitNow.path /\ verb' = SplitNow.verb
            /\ \/ Tried = "matched" /\ phase' = "done" /\ Goes(Dispatch(method, next)) /\ next' = next
               \/ /\ Tried # "matched" /\ phase' = phase /\ next' = next + 1
                  /\ \/ Tried = "malformed" /\ Goes(Report(method, next))
                     \/ Tried # "malformed" /\ answers' = answers
BY DEF Try, Finish, SplitNow, Tried, Goes

LEMMA FallbackCases ==
  ASSUME Fallback
  PROVE  /\ components' = components /\ verb' = verb /\ method' = method
         /\ \/ /\ TriedBack = "matched" /\ phase' = "done" /\ next' = next
               /\ \/ Goes(Error("method not allowed")) \/ Goes(Error("invalid argument"))
                  \/ Goes(Dispatch(other, next))
            \/ /\ TriedBack # "matched" /\ phase' = phase /\ next' = next + 1
               /\ \/ TriedBack = "malformed" /\ Goes(Report(other, next))
                  \/ TriedBack # "malformed" /\ answers' = answers
BY DEF Fallback, Finish, TriedBack, Goes

\* Shared by the two searches: what comes with a step that is not the last.
LEMMA AnswersTyped ==
  ASSUME TypeOK, NEW what \in Errors, NEW m \in Methods, NEW k \in Nat
  PROVE  /\ Error(what) \in Answer /\ Dispatch(m, k) \in Answer /\ Report(m, k) \in Answer
         /\ Append(answers, Error(what)) \in Seq(Answer)
         /\ Append(answers, Dispatch(m, k)) \in Seq(Answer)
         /\ Append(answers, Report(m, k)) \in Seq(Answer)
<1>1. Error(what) \in Answer /\ Dispatch(m, k) \in Answer /\ Report(m, k) \in Answer
  BY DEF Error, Dispatch, Report, Answer, Errors
<1>. HIDE DEF Answer
<1>. QED  BY <1>1, AppendProperties DEF TypeOK

LEMMA ErrorTyped ==
  ASSUME TypeOK, NEW what \in Errors, Goes(Error(what))
  PROVE  answers' \in Seq(Answer)
<1>1. Error(what) \in Answer
  BY DEF Error, Answer
<1>. QED  BY <1>1, AppendProperties DEF TypeOK, Goes

-----------------------------------------------------------------------------
(* Type correctness. *)

LEMMA TypeInit == Init => TypeOK
<1> SUFFICES ASSUME Init PROVE TypeOK
  OBVIOUS
<1>1. /\ req.path \in Seq(Component) /\ req.path # << >> /\ req.method \in STRING
  BY RequestTyped DEF Init
<1>2. << >> \in Component /\ << >> \in Seq(Answer)
  BY EmptySeq DEF Component
<1>. QED  BY <1>1, <1>2 DEF Init, TypeOK, Phases

LEMMA TypeStep == TypeOK /\ [Next]_vars => TypeOK'
<1> SUFFICES ASSUME TypeOK, [Next]_vars PROVE TypeOK'
  OBVIOUS
<1>. USE DEF Phases, Goes, Errors
<1>1. ASSUME Refuse PROVE TypeOK'
  <2>1. /\ phase' = "done" /\ (answers' = Append(answers, Error("hook error")) \/ answers' = Append(answers, Error("bad request")))
        /\ UNCHANGED <<table, req, method, components, verb, next, other, left>>
    BY <1>1 DEF Refuse, Finish
  <2>2. answers' \in Seq(Answer)
    BY <2>1, ErrorTyped
  <2>. QED  BY <2>1, <2>2 DEF TypeOK
<1>2. ASSUME Override PROVE TypeOK'
  <2>1. /\ method' = req.override /\ phase' \in {"match", "done"}
        /\ (answers' = answers \/ answers' = Append(answers, Error("invalid argument")))
        /\ UNCHANGED <<table, req, components, verb, next, other, left>>
    BY <1>2 DEF Override, Finish
  <2>2. answers' \in Seq(Answer)
    BY <2>1, ErrorTyped DEF TypeOK
  <2>3. method' \in STRING
    BY <2>1, RequestTyped DEF TypeOK
  <2>. QED  BY <2>1, <2>2, <2>3 DEF TypeOK
<1>3. ASSUME Enter PROVE TypeOK'
  BY <1>3 DEF Enter, TypeOK
<1>4. ASSUME Try PROVE TypeOK'
  <2>1. /\ method \in Methods /\ next \in 1..Len(table[method]) /\ table[method][next].verb \in Component
        /\ table' = table /\ req' = req /\ method' = method /\ other' = other /\ left' = left
    BY <1>4, TryShape
  <2>2. /\ SplitNow.path \in Seq(Component) /\ SplitNow.path # << >> /\ SplitNow.verb \in Component
    BY <2>1, SplitProperties DEF SplitNow, TypeOK
  <2>3. components' \in Seq(Component) /\ components' # << >> /\ verb' \in Component
    BY <1>4, <2>2, TryCases DEF TypeOK
  <2>4. answers' \in Seq(Answer)
    <3>1. /\ Append(answers, Dispatch(method, next)) \in Seq(Answer)
          /\ Append(answers, Report(method, next)) \in Seq(Answer)
      BY <2>1, AnswersTyped DEF TypeOK
    <3>. QED  BY <1>4, <3>1, TryCases, ErrorTyped DEF TypeOK
  <2>5. phase = "match" /\ phase' \in {"match", "done"} /\ next' \in {next, next + 1}
    BY <1>4, TryCases DEF Try
  <2>6. next' \in Nat \ {0}
    BY <2>5 DEF TypeOK
  <2>. QED  BY <2>1, <2>3, <2>4, <2>5, <2>6 DEF TypeOK
<1>5. ASSUME NoneLeft PROVE TypeOK'
  BY <1>5 DEF NoneLeft, TypeOK
<1>6. ASSUME NextMethod PROVE TypeOK'
  BY <1>6 DEF NextMethod, TypeOK
<1>7. ASSUME Fallback PROVE TypeOK'
  <2>1. /\ other \in Methods /\ next \in 1..Len(table[other])
        /\ table' = table /\ req' = req /\ other' = other /\ left' = left
    BY <1>7, FallbackShape
  <2>2. answers' \in Seq(Answer)
    <3>1. /\ Append(answers, Dispatch(other, next)) \in Seq(Answer)
          /\ Append(answers, Report(other, next)) \in Seq(Answer)
      BY <2>1, AnswersTyped DEF TypeOK
    <3>. QED  BY <1>7, <3>1, FallbackCases, ErrorTyped DEF TypeOK
  <2>3. phase = "fallback" /\ phase' \in {"fallback", "done"} /\ next' \in {next, next + 1}
        /\ components' = components /\ verb' = verb /\ method' = method
    BY <1>7, FallbackCases DEF Fallback
  <2>4. next' \in Nat \ {0}
    BY <2>3 DEF TypeOK
  <2>. QED  BY <2>1, <2>2, <2>3, <2>4 DEF TypeOK
<1>8. ASSUME NotFound PROVE TypeOK'
  <2>1. phase' = "done" /\ answers' = Append(answers, Error("not found"))
        /\ UNCHANGED <<table, req, method, components, verb, next, other, left>>
    BY <1>8 DEF NotFound, Finish
  <2>2. answers' \in Seq(Answer)
    BY <2>1, ErrorTyped
  <2>. QED  BY <2>1, <2>2 DEF TypeOK
<1>9. CASE UNCHANGED vars
  BY <1>9 DEF vars, TypeOK
<1>. QED  BY <1>1, <1>2, <1>3, <1>4, <1>5, <1>6, <1>7, <1>8, <1>9 DEF Next

-----------------------------------------------------------------------------
(* One outcome, and only reports of malformed escapes before it. *)

BadPath == \E k \in 1..Len(req.path) : BadToken(req.path[k])

\* The search never sees a token that did not come with the request.
CleanInv ==
  ~BadPath => /\ ~BadToken(verb)
              /\ \A k \in 1..Len(components) : ~BadToken(components[k])
CountInv ==
  ~BadPath => /\ phase # "done" => answers = << >>
              /\ phase = "done" => Len(answers) = 1

\* What is written before the outcome is a report, and no two are of one handler.
ReportInv ==
  \A k \in Early : answers[k].to = "malformed" /\ \A j \in 1..(k - 1) : answers[j] # answers[k]
OutcomeInv == phase = "done" => answers # << >> /\ Outcome.to # "malformed"

\* The handler tried next has not written anything, nor has one of a method
\* that is still to be visited.
Behind(a) ==
  /\ a.method \in Methods
  /\ phase = "match" => a.method = method /\ a.index < next
  /\ phase = "fallback" => a.method \notin left /\ (a.method = other => a.index < next)
PlaceInv ==
  /\ phase # "done" => \A k \in 1..Len(answers) : Behind(answers[k])
  /\ phase = "fallback" => other \notin left

IInv == TypeOK /\ CleanInv /\ CountInv /\ ReportInv /\ OutcomeInv /\ PlaceInv

LEMMA InitInv == Init => IInv
<1> SUFFICES ASSUME Init PROVE IInv
  OBVIOUS
<1>1. CleanInv
  <2>1. components = req.path /\ verb = << >> /\ Len(<< >>) = 0
    BY DEF Init
  <2>2. ~BadToken(<< >>)
    BY DEF BadToken
  <2>. QED  BY <2>1, <2>2 DEF CleanInv, BadPath
<1>2. CountInv
  BY DEF Init, CountInv
<1>3. ReportInv /\ OutcomeInv /\ PlaceInv
  <2>1. answers = << >> /\ Len(<< >>) = 0 /\ phase = "enter"
    BY DEF Init
  <2>. QED  BY <2>1 DEF ReportInv, OutcomeInv, PlaceInv, Early
<1>. QED  BY <1>1, <1>2, <1>3, TypeInit DEF IInv

\* The first answer of a request without a malformed escape.
LEMMA FirstAnswer ==
  ASSUME TypeOK, CountInv, phase # "done", ~BadPath, NEW a, Goes(a), phase' = "done", req' = req
  PROVE  CountInv'
<1>1. answers' = Append(<< >>, a)
  BY DEF CountInv, Goes
<1>2. Len(answers') = 1
  BY <1>1
<1>. QED  BY <1>2 DEF CountInv

\* A report of a handler that has not written anything yet.
LEMMA Reported ==
  ASSUME IInv, NEW m \in Methods, Goes(Report(m, next)), phase # "done", phase' # "done",
         \A k \in 1..Len(answers) : answers[k].method = m => answers[k].index < next
  PROVE  ReportInv' /\ OutcomeInv'
<1> DEFINE n == Len(answers)
<1>. USE DEF IInv
<1>0. next \in Nat /\ answers \in Seq(Answer) /\ n \in Nat /\ answers' = Append(answers, Report(m, next))
  BY DEF TypeOK, Goes
<1>9. Report(m, next) \in Answer
  BY <1>0 DEF Errors, Report, Answer
<1>1. /\ answers \in Seq(Answer) /\ n \in Nat /\ next \in Nat /\ Report(m, next) \in Answer
      /\ answers' = Append(answers, Report(m, next))
  BY <1>0, <1>9
<1>. HIDE DEF Answer
<1>2. /\ Len(answers') = n + 1 /\ answers'[n + 1] = Report(m, next)
      /\ \A k \in 1..n : answers'[k] = answers[k]
  BY <1>1, AppendProperties
<1>3. \A k \in 1..n : answers[k] # Report(m, next)
  BY <1>1 DEF Report
<1>4. /\ Early = 1..n /\ Early' = 1..(n + 1)
  BY <1>2 DEF Early
<1>5. ASSUME NEW k \in 1..(n + 1)
      PROVE  answers'[k].to = "malformed" /\ \A j \in 1..(k - 1) : answers'[j] # answers'[k]
  <2>1. CASE k = n + 1
    BY <1>1, <1>2, <1>3, <2>1 DEF Report
  <2>2. CASE k \in 1..n
    <3>1. \A j \in 1..(k - 1) : j \in 1..n
      BY <1>1, <2>2
    <3>. QED  BY <1>2, <1>4, <2>2, <3>1 DEF ReportInv
  <2>. QED  BY <1>1, <2>1, <2>2
<1>6. ReportInv'
  BY <1>4, <1>5 DEF ReportInv
<1>. QED  BY <1>6 DEF OutcomeInv

\* The outcome is written, and it is not a report.
LEMMA Ended ==
  ASSUME IInv, NEW a \in Answer, Goes(a), a.to # "malformed", phase # "done", phase' = "done"
  PROVE  ReportInv' /\ OutcomeInv' /\ PlaceInv'
<1> DEFINE n == Len(answers)
<1>. USE DEF IInv
<1>1. /\ answers \in Seq(Answer) /\ n \in Nat /\ answers' = Append(answers, a)
  BY DEF TypeOK, Goes
<1>. HIDE DEF Answer
<1>2. /\ Len(answers') = n + 1 /\ answers'[n + 1] = a /\ answers' # << >>
      /\ \A k \in 1..n : answers'[k] = answers[k]
  BY <1>1, AppendProperties
<1>3. Early = 1..n /\ Early' = 1..n
  BY <1>1, <1>2 DEF Early
<1>4. \A k \in 1..n : \A j \in 1..(k - 1) : j \in 1..n
  BY <1>1
<1>5. ReportInv'
  BY <1>2, <1>3, <1>4 DEF ReportInv
<1>6. OutcomeInv' /\ PlaceInv'
  BY <1>2 DEF OutcomeInv, PlaceInv, Outcome
<1>. QED  BY <1>5, <1>6

\* What was written before and the report of the handler at hand.
LEMMA PlacesGrow ==
  ASSUME IInv, NEW m \in Methods, answers' = answers \/ Goes(Report(m, next)), next' = next + 1,
         \A k \in 1..Len(answers) : answers[k].method = m => answers[k].index < next
  PROVE  /\ \A k \in 1..Len(answers') : answers'[k].method = m => answers'[k].index < next'
         /\ \A k \in 1..Len(answers') :
              answers'[k].method # m => \E j \in 1..Len(answers) : answers'[k] = answers[j]
<1> DEFINE n == Len(answers)
<1>. USE DEF IInv
<1>0. next \in Nat /\ answers \in Seq(Answer) /\ n \in Nat
  BY DEF TypeOK
<1>9. Report(m, next) \in Answer
  BY <1>0 DEF Errors, Report, Answer
<1>1. answers \in Seq(Answer) /\ n \in Nat /\ next \in Nat /\ Report(m, next) \in Answer
  BY <1>0, <1>9
<1>2. \A k \in 1..n : answers[k] \in Answer
  BY <1>1, ElementOfSeq
<1>3. \A k \in 1..n : answers[k].index \in Nat
  BY <1>2 DEF Answer
<1>. HIDE DEF Answer
<1>4. CASE answers' = answers
  BY <1>1, <1>3, <1>4
<1>5. CASE Goes(Report(m, next))
  <2>1. /\ Len(answers') = n + 1 /\ answers'[n + 1] = Report(m, next)
        /\ \A k \in 1..n : answers'[k] = answers[k]
    BY <1>1, <1>5, AppendProperties DEF Goes
  <2>2. \A k \in 1..(n + 1) : k \in 1..n \/ k = n + 1
    BY <1>1
  <2>3. Report(m, next).method = m /\ Report(m, next).index = next
    BY DEF Report
  <2>. QED  BY <1>1, <1>3, <2>1, <2>2, <2>3
<1>. QED  BY <1>4, <1>5

\* A step that writes nothing.
LEMMA Silent ==
  ASSUME IInv, answers' = answers, phase # "done", phase' # "done"
  PROVE  ReportInv' /\ OutcomeInv'
BY DEF IInv, ReportInv, OutcomeInv, Early

\* The errors that end a search.
LEMMA EndTyped ==
  ASSUME IInv, NEW m \in Methods, NEW k \in Nat
  PROVE  /\ Dispatch(m, k) \in Answer /\ Dispatch(m, k).to # "malformed"
         /\ \A what \in Errors \ {"malformed"} : Error(what) \in Answer /\ Error(what).to # "malformed"
BY DEF Dispatch, Error, Answer, Errors

LEMMA ReportStep == IInv /\ [Next]_vars => ReportInv' /\ OutcomeInv' /\ PlaceInv'
<1> SUFFICES ASSUME IInv, [Next]_vars PROVE ReportInv' /\ OutcomeInv' /\ PlaceInv'
  OBVIOUS
<1>. USE DEF IInv
<1>1. CASE UNCHANGED vars
  BY <1>1 DEF vars, ReportInv, OutcomeInv, PlaceInv, Behind, Early, Outcome
<1>8. \A what \in Errors \ {"malformed"} : Error(what) \in Answer /\ Error(what).to # "malformed"
  BY DEF Error, Answer, Errors
<1>2. CASE Refuse \/ Override \/ Enter
  <2>1. /\ phase = "enter" /\ answers = << >>
        /\ \/ phase' = "match" /\ answers' = answers
           \/ phase' = "done" /\ \E what \in Errors \ {"malformed"} : Goes(Error(what))
    BY <1>2 DEF Refuse, Override, Enter, Finish, Goes, Errors, TypeOK
  <2>2. Len(<< >>) = 0
    OBVIOUS
  <2>. QED  BY <1>8, <2>1, <2>2, Ended, Silent DEF PlaceInv
<1>3. CASE Try
  <2>1. /\ phase = "match" /\ method \in Methods /\ next \in Nat /\ method' = method
    BY <1>3, TryShape DEF Try, TypeOK
  <2>2. \A k \in 1..Len(answers) : answers[k].method = method /\ answers[k].index < next
    BY <2>1 DEF PlaceInv, Behind
  <2>3. CASE phase' = "done"
    <3>1. Goes(Error("not found")) \/ Goes(Dispatch(method, next))
      BY <1>3, <2>1, <2>3, TryCases
    <3>. QED  BY <1>8, <2>1, <2>3, <3>1, Ended, EndTyped DEF Errors
  <2>4. CASE phase' # "done"
    <3>1. /\ phase' = "match" /\ next' = next + 1
          /\ Goes(Report(method, next)) \/ answers' = answers
      BY <1>3, <2>1, <2>4, TryCases
    <3>2. ReportInv' /\ OutcomeInv'
      BY <2>1, <2>2, <3>1, Reported, Silent
    <3>3. \A k \in 1..Len(answers') : answers'[k].method = method /\ answers'[k].index < next'
      <4>1. CASE answers' = answers
        <5>1. \A k \in 1..Len(answers) : answers[k] \in Answer
          BY ElementOfSeq DEF TypeOK
        <5>2. \A k \in 1..Len(answers) : answers[k].index \in Nat
          BY <5>1 DEF Answer
        <5>. QED  BY <2>1, <2>2, <3>1, <4>1, <5>2
      <4>2. CASE Goes(Report(method, next))
        BY <2>1, <2>2, <3>1, <4>2, PlacesGrow
      <4>. QED  BY <3>1, <4>1, <4>2
    <3>. QED  BY <2>1, <3>1, <3>2, <3>3 DEF PlaceInv, Behind
  <2>. QED  BY <2>3, <2>4
<1>4. CASE NoneLeft
  <2>1. /\ phase = "match" /\ phase' = "fallback" /\ answers' = answers /\ other' = NoMethod
        /\ left' = Methods \ {method}
    BY <1>4 DEF NoneLeft
  <2>2. PlaceInv'
    BY <2>1, MethodsAssumption DEF PlaceInv, Behind
  <2>. QED  BY <2>1, <2>2, Silent
<1>5. CASE NextMethod
  <2>1. /\ phase = "fallback" /\ phase' = "fallback" /\ answers' = answers
        /\ \E m \in left : other' = m /\ left' = left \ {m}
    BY <1>5 DEF NextMethod
  <2>2. PlaceInv'
    BY <2>1 DEF PlaceInv, Behind
  <2>. QED  BY <2>1, <2>2, Silent
<1>6. CASE Fallback
  <2>1. /\ phase = "fallback" /\ other \in Methods /\ next \in Nat /\ other' = other /\ left' = left
    BY <1>6, FallbackShape DEF Fallback, TypeOK
  <2>5. other \notin left
    BY <2>1 DEF PlaceInv
  <2>2. \A k \in 1..Len(answers) :
          /\ answers[k].method \in Methods \ left
          /\ answers[k].method = other => answers[k].index < next
    BY <2>1 DEF PlaceInv, Behind
  <2>3. CASE phase' = "done"
    <3>1. \/ Goes(Error("method not allowed")) \/ Goes(Error("invalid argument"))
          \/ Goes(Dispatch(other, next))
      BY <1>6, <2>1, <2>3, FallbackCases
    <3>. QED  BY <1>8, <2>1, <2>3, <3>1, Ended, EndTyped DEF Errors
  <2>4. CASE phase' # "done"
    <3>1. /\ phase' = "fallback" /\ next' = next + 1
          /\ Goes(Report(other, next)) \/ answers' = answers
      BY <1>6, <2>1, <2>4, FallbackCases
    <3>2. ReportInv' /\ OutcomeInv'
      <4>1. phase # "done" /\ phase' # "done"
        BY <2>1, <3>1
      <4>2. CASE answers' = answers
        BY <4>1, <4>2, Silent
      <4>3. CASE Goes(Report(other, next))
        BY <2>1, <2>2, <4>1, <4>3, Reported
      <4>. QED  BY <3>1, <4>2, <4>3
    <3>3. /\ \A k \in 1..Len(answers') : answers'[k].method = other => answers'[k].index < next'
          /\ \A k \in 1..Len(answers') :
               answers'[k].method # other => \E j \in 1..Len(answers) : answers'[k] = answers[j]
      BY <2>1, <2>2, <3>1, PlacesGrow
    <3>4. PlaceInv'
      <4>1. ASSUME NEW k \in 1..Len(answers') PROVE Behind(answers[k])'
        <5>1. answers'[k].method \in Methods \ left
          <6>1. CASE answers'[k].method = other
            BY <2>1, <2>5, <6>1
          <6>2. CASE answers'[k].method # other
            BY <2>2, <3>3, <6>2
          <6>. QED  BY <6>1, <6>2
        <5>. QED  BY <2>1, <3>1, <3>3, <5>1 DEF Behind
      <4>. QED  BY <2>1, <2>5, <4>1 DEF PlaceInv
    <3>. QED  BY <3>2, <3>4
  <2>. QED  BY <2>3, <2>4
<1>7. CASE NotFound
  <2>1. phase = "fallback" /\ phase' = "done" /\ Goes(Error("not found"))
    BY <1>7 DEF NotFound, Finish, Goes
  <2>. QED  BY <1>8, <2>1, Ended DEF Errors
<1>. QED  BY <1>1, <1>2, <1>3, <1>4, <1>5, <1>6, <1>7 DEF Next

LEMMA StepInv == IInv /\ [Next]_vars => IInv'
<1> SUFFICES ASSUME IInv, [Next]_vars PROVE CleanInv' /\ CountInv'
  BY TypeStep, ReportStep DEF IInv
<1>. USE DEF IInv
<1>0. CASE UNCHANGED vars
  BY <1>0 DEF vars, CleanInv, CountInv, BadPath
<1>1. req' = req
  <2>1. CASE Refuse \/ Override \/ Enter
    BY <2>1 DEF Refuse, Override, Enter, Finish
  <2>2. CASE NoneLeft \/ NextMethod \/ NotFound
    BY <2>2 DEF NoneLeft, NextMethod, NotFound, Finish
  <2>. QED  BY <1>0, <2>1, <2>2, TryShape, FallbackShape DEF Next, vars
<1>2. BadPath' = BadPath
  BY <1>1 DEF BadPath
<1>3. CASE BadPath
  BY <1>2, <1>3 DEF CleanInv, CountInv
<1>4. ASSUME ~BadPath, components' = components, verb' = verb PROVE CleanInv'
  BY <1>2, <1>4 DEF CleanInv
<1>5. ASSUME ~BadPath, phase' # "done", answers' = answers, phase # "done" PROVE CountInv'
  BY <1>2, <1>5 DEF CountInv
<1>6. ASSUME ~BadPath, Refuse \/ Override \/ Enter PROVE CleanInv' /\ CountInv'
  <2>1. /\ components' = components /\ verb' = verb /\ phase = "enter"
        /\ \/ phase' = "match" /\ answers' = answers
           \/ phase' = "done" /\ \E a \in Answer : Goes(a)
    BY <1>6, AnswersTyped DEF Refuse, Override, Enter, Finish, Goes, Error, Errors, Answer
  <2>. QED  BY <1>1, <1>4, <1>5, <1>6, <2>1, FirstAnswer
<1>7. ASSUME ~BadPath, Try PROVE CleanInv' /\ CountInv'
  <2>1. phase = "match" /\ table[method][next] \in TemplateSet /\ table[method][next].verb \in Component
    BY <1>7, TryShape DEF Try
  <2>2. /\ SplitNow.path \in Seq(Component) /\ SplitNow.path # << >> /\ SplitNow.verb \in Component
        /\ Len(SplitNow.path) = Len(components)
        /\ \A k \in 1..Len(components) : BadToken(SplitNow.path[k]) => BadToken(components[k])
        /\ BadToken(SplitNow.verb) => BadToken(verb) \/ \E k \in 1..Len(components) : BadToken(components[k])
    BY <2>1, SplitProperties DEF SplitNow, TypeOK
  <2>3. ~BadToken(SplitNow.verb) /\ \A k \in 1..Len(SplitNow.path) : ~BadToken(SplitNow.path[k])
    BY <1>7, <2>2 DEF CleanInv
  <2>4. Tried # "malformed"
    BY <2>1, <2>2, <2>3, MalformedHasBadToken DEF Tried
  <2>5. CleanInv'
    <3>1. \/ components' = components /\ verb' = verb
          \/ components' = SplitNow.path /\ verb' = SplitNow.verb
      BY <1>7, TryCases
    <3>. QED  BY <1>4, <1>7, <2>3, <3>1 DEF CleanInv
  <2>6. \/ phase' = phase /\ answers' = answers
        \/ phase' = "done" /\ (Goes(Error("not found")) \/ Goes(Dispatch(method, next)))
    BY <1>7, <2>4, TryCases
  <2>. QED  BY <1>1, <1>5, <1>7, <2>1, <2>5, <2>6, FirstAnswer
<1>8. ASSUME ~BadPath, NoneLeft \/ NextMethod PROVE CleanInv' /\ CountInv'
  <2>1. components' = components /\ verb' = verb /\ phase # "done" /\ phase' # "done" /\ answers' = answers
    BY <1>8 DEF NoneLeft, NextMethod
  <2>. QED  BY <1>4, <1>5, <1>8, <2>1
<1>9. ASSUME ~BadPath, Fallback PROVE CleanInv' /\ CountInv'
  <2>1. phase = "fallback" /\ table[other][next] \in TemplateSet /\ components' = components /\ verb' = verb
    BY <1>9, FallbackShape, FallbackCases DEF Fallback
  <2>2. TriedBack # "malformed"
    BY <1>9, <2>1, MalformedHasBadToken DEF TriedBack, CleanInv, TypeOK
  <2>3. \/ phase' = phase /\ answers' = answers
        \/ phase' = "done" /\ \E a : Goes(a)
    BY <1>9, <2>2, FallbackCases
  <2>. QED  BY <1>1, <1>4, <1>5, <1>9, <2>1, <2>3, FirstAnswer
<1>10. ASSUME ~BadPath, NotFound PROVE CleanInv' /\ CountInv'
  <2>1. components' = components /\ verb' = verb /\ phase = "fallback" /\ phase' = "done" /\ Goes(Error("not found"))
    BY <1>10 DEF NotFound, Finish, Goes
  <2>. QED  BY <1>1, <1>4, <1>10, <2>1, FirstAnswer
<1>. QED  BY <1>0, <1>3, <1>6, <1>7, <1>8, <1>9, <1>10 DEF Next

\* For every path, the malformed ones too: one outcome, which is the last that
\* is written, and before it only reports of malformed escapes, at most one by
\* each handler; none for a path whose escapes are good.  Whatever the tables,
\* and whatever the handlers tried make of the path they share.
THEOREM EndsOnce == Spec => []OneOutcome
<1>1. IInv => OneOutcome
  <2> SUFFICES ASSUME IInv, ~BadPath PROVE Early = {}
    BY DEF OneOutcome, BadPath, IInv, ReportInv, OutcomeInv
  <2>1. phase # "done" => answers = << >>
    BY DEF IInv, CountInv
  <2>2. phase = "done" => Len(answers) = 1
    BY DEF IInv, CountInv
  <2>3. Len(<< >>) = 0 /\ 1..0 = {} /\ 1..(1 - 1) = {}
    OBVIOUS
  <2>4. CASE phase = "done"
    BY <2>2, <2>3, <2>4 DEF Early
  <2>5. CASE phase # "done"
    BY <2>1, <2>3, <2>5 DEF Early
  <2>. QED  BY <2>4, <2>5
<1>. QED  BY <1>1, InitInv, StepInv, PTL DEF Spec

-----------------------------------------------------------------------------
(* The handler found is the first that matches. *)

\* The path without a verb that ends it.
Cut(path, v) == [path EXCEPT ![Len(path)] = Stem(@, v)]

\* What a handler says of a path nobody else has touched.
Verdict(h, path) ==
  IF EndsWith(Last(path), h.verb) THEN MatchAndEscape(h, Cut(path, h.verb), h.verb)
  ELSE MatchAndEscape(h, path, << >>)

LEMMA AloneIsVerdict == \A h : Alone(h) = Verdict(h, req.path)
BY DEF Alone, Verdict, Cut

LEMMA CutProperties ==
  ASSUME NEW path \in Seq(Component), path # << >>, NEW v \in Component, EndsWith(Last(path), v)
  PROVE  /\ Cut(path, v) \in Seq(Component) /\ Cut(path, v) # << >>
         /\ Last(Cut(path, v)) = Stem(Last(path), v)
         /\ [Cut(path, v) EXCEPT ![Len(Cut(path, v))] = @ \o v] = path
<1> DEFINE n == Len(path)
           stem == Stem(path[n], v)
           cut == [path EXCEPT ![n] = stem]
           whole == [cut EXCEPT ![n] = @ \o v]
<1>1. n \in Nat \ {0} /\ n \in 1..n /\ Last(path) = path[n] /\ path[n] \in Component
  BY EmptySeq, ElementOfSeq DEF Last
<1>2. stem \in Component /\ stem \o v = path[n]
  BY <1>1, StemProperties
<1>3. Cut(path, v) = cut
  BY DEF Cut
<1>. HIDE DEF stem
<1>4. /\ cut \in Seq(Component) /\ Len(cut) = n
      /\ \A k \in 1..n : cut[k] = IF k = n THEN stem ELSE path[k]
  BY <1>1, <1>2, ExceptSeq
<1>5. cut # << >> /\ cut[n] = stem
  BY <1>1, <1>4, EmptySeq
<1>6. whole = [cut EXCEPT ![n] = path[n]]
  BY <1>2, <1>5
<1>7. whole = path
  <2>. HIDE DEF cut, whole, n
  <2>1. /\ whole \in Seq(Component) /\ Len(whole) = n
        /\ \A k \in 1..n : whole[k] = IF k = n THEN path[n] ELSE cut[k]
    BY <1>1, <1>4, <1>6, ExceptSeq
  <2>2. \A k \in 1..n : whole[k] = path[k]
    BY <1>4, <2>1
  <2>3. Len(path) = n
    BY DEF n
  <2>. QED  BY <2>1, <2>2, <2>3, SeqEqual
<1>8. Last(Cut(path, v)) = Stem(Last(path), v)
  <2>1. Last(cut) = cut[n]
    BY <1>4 DEF Last
  <2>2. Last(cut) = stem
    BY <1>5, <2>1
  <2>. QED  BY <1>1, <1>3, <2>2 DEF stem
<1>9. [Cut(path, v) EXCEPT ![Len(Cut(path, v))] = @ \o v] = path
  <2>1. Len(Cut(path, v)) = n
    BY <1>3, <1>4
  <2>. QED  BY <1>3, <1>7, <2>1
<1>. QED  BY <1>3, <1>4, <1>5, <1>8, <1>9

\* A handler decides before a path cut at another's verb as it would before the
\* whole, unless its own verb would have been cut off.
LEMMA CutDecides ==
  ASSUME NEW path \in Seq(Component), path # << >>, NEW v \in Component, EndsWith(Last(path), v),
         NEW h \in TemplateSet, h.verb = v \/ ~EndsWith(Last(path), h.verb)
  PROVE  MatchAndEscape(h, Cut(path, v), v) = Verdict(h, path)
<1>1. v # << >>
  BY DEF EndsWith
<1>2. CASE h.verb = v
  BY <1>2 DEF Verdict
<1>3. CASE h.verb # v /\ ~EndsWith(Last(path), h.verb)
  <2>1. Verdict(h, path) = MatchAndEscape(h, path, << >>)
    BY <1>3 DEF Verdict
  <2>2. CASE h.verb = << >>
    <3>1. Effective(h, path, << >>) = path
      BY <2>2 DEF Effective
    <3>2. Effective(h, Cut(path, v), v) = path
      BY <1>1, <2>2, CutProperties DEF Effective
    <3>. QED  BY <2>1, <2>2, <3>1, <3>2 DEF MatchAndEscape, Matches
  <2>3. CASE h.verb # << >>
    BY <1>3, <2>1, <2>3 DEF MatchAndEscape, Matches
  <2>. QED  BY <2>2, <2>3
<1>. QED  BY <1>2, <1>3

\* The search holds the path as it came, or cut at the verb of a handler tried.
SplitInv ==
  \/ components = req.path /\ verb = << >>
  \/ /\ EndsWith(Last(req.path), verb) /\ components = Cut(req.path, verb)
     /\ \E k \in 1..Len(HandlersOf(method)) : table[method][k].verb = verb

\* A path with at most one ':' in its last component is split once.
LEMMA OneColonSplitsOnce ==
  ASSUME \A r \in Requests : Len(Last(r.path)) <= 2
  PROVE  SplitsOnce
<1> SUFFICES ASSUME NEW r \in Requests, NEW t \in Tables, NEW m \in Methods,
                    NEW j \in 1..Len(t[m]), NEW k \in 1..Len(t[m]),
                    EndsWith(Last(r.path), t[m][j].verb)
             PROVE  /\ ~EndsWith(Stem(Last(r.path), t[m][j].verb), t[m][k].verb)
                    /\ EndsWith(Last(r.path), t[m][k].verb) => t[m][k].verb = t[m][j].verb
  BY DEF SplitsOnce
<1> DEFINE c == Last(r.path)
           v == t[m][j].verb
           w == t[m][k].verb
<1>1. c \in Component /\ v \in Component /\ w \in Component /\ Len(c) \in Nat /\ Len(c) <= 2
  BY RequestTyped, HandlerTyped DEF Component
<1>2. EndsWith(c, v)
  OBVIOUS
<1>. HIDE DEF c, v, w
<1>3. Len(v) = 1 /\ Len(c) = 2 /\ Len(Stem(c, v)) = 1 /\ v[1] = c[2] /\ Stem(c, v) \in Component
  <2>1. Len(v) \in 1..(Len(c) - 1) /\ Len(Stem(c, v)) = Len(c) - Len(v) /\ Stem(c, v) \in Component
        /\ \A i \in 1..Len(v) : v[i] = c[Len(c) - Len(v) + i]
    BY <1>1, <1>2, StemProperties
  <2>2. \A a, b \in Nat : a \in 1..(b - 1) /\ b <= 2 => a = 1 /\ b = 2
    OBVIOUS
  <2>3. Len(v) \in Nat /\ Len(v) \in 1..(Len(c) - 1)
    BY <1>1, <2>1 DEF Component
  <2>4. Len(v) = 1 /\ Len(c) = 2
    BY <1>1, <2>2, <2>3
  <2>. QED  BY <2>1, <2>4
<1>4. ~EndsWith(Stem(c, v), w)
  <2> SUFFICES ASSUME EndsWith(Stem(c, v), w) PROVE FALSE
    OBVIOUS
  <2>1. Len(w) \in 1..(Len(Stem(c, v)) - 1)
    BY <1>1, <1>3, StemProperties
  <2>. QED  BY <1>3, <2>1
<1>5. ASSUME EndsWith(c, w) PROVE w = v
  <2>1. Len(w) \in 1..(Len(c) - 1) /\ \A i \in 1..Len(w) : w[i] = c[Len(c) - Len(w) + i]
    BY <1>1, <1>5, StemProperties
  <2>a. Len(w) \in 1..1 /\ \A i \in 1..Len(w) : w[i] = c[2 - Len(w) + i]
    BY <1>3, <2>1
  <2>b. Len(w) = 1
    BY <2>a
  <2>2. Len(w) = 1 /\ w[1] = c[2]
    BY <2>a, <2>b
  <2>3. \A i \in 1..Len(w) : w[i] = v[i]
    BY <1>3, <2>2
  <2>. QED  BY <1>1, <1>3, <2>2, <2>3, SeqEqual DEF Component
<1>. QED  BY <1>4, <1>5 DEF c, v, w

NoneOfOwn == \A k \in 1..Len(HandlersOf(method)) : Alone(table[method][k]) # "matched"

\* No handler of method m at an index the search is past, verbs apart, matches.
PastOf(m) ==
  \A k \in 1..Len(table[m]) :
    (m = other => k < next) /\ table[m][k].verb = << >> => Alone(table[m][k]) # "matched"

SearchInv ==
  /\ phase = "match" => \A k \in 1..(next - 1) : Alone(table[method][k]) # "matched"
  /\ phase = "fallback" =>
       /\ NoneOfOwn
       /\ other \in (Methods \ {method}) \cup {NoMethod} /\ left \subseteq Methods \ {method}
       /\ \A m \in Methods \ {method} : m \notin left => PastOf(m)

FInv == TypeOK /\ SplitInv /\ SearchInv /\ DispatchesFirstMatch /\ OtherMethodsNoticed

LEMMA FirstMatchInit == Init => FInv
<1> SUFFICES ASSUME Init PROVE FInv
  OBVIOUS
<1>1. phase = "enter" /\ components = req.path /\ verb = << >>
  BY DEF Init
<1>2. SplitInv /\ SearchInv
  BY <1>1 DEF SplitInv, SearchInv
<1>3. DispatchesFirstMatch /\ OtherMethodsNoticed
  BY <1>1 DEF DispatchesFirstMatch, OtherMethodsNoticed, ByHandler, Searched
<1>. QED  BY <1>2, <1>3, TypeInit DEF FInv

\* Whichever way the path is held, the handler tried decides as it would alone,
\* and hands the path on as the request's or cut at a verb of its method.
LEMMA TriedAsAlone ==
  ASSUME SplitsOnce, TypeOK, SplitInv, Try
  PROVE  /\ Tried = Alone(table[method][next])
         /\ VerbOnly(components, table[method][next].verb) => VerbOnly(req.path, table[method][next].verb)
         /\ \/ SplitNow.path = components /\ SplitNow.verb = verb
            \/ /\ EndsWith(Last(req.path), SplitNow.verb)
               /\ SplitNow.path = Cut(req.path, SplitNow.verb)
               /\ SplitNow.verb = table[method][next].verb
<1> DEFINE h == table[method][next]
           p == req.path
<1>1. /\ method \in Methods /\ next \in 1..Len(table[method]) /\ h \in TemplateSet /\ h.verb \in Component
      /\ HandlersOf(method) = table[method]
  BY TryShape
<1>2. p \in Seq(Component) /\ p # << >> /\ req \in Requests /\ table \in Tables
  BY RequestTyped DEF TypeOK
<1>3. Alone(h) = Verdict(h, p)
  BY AloneIsVerdict
<1>4. CASE components = p /\ verb = << >>
  <2>1. SplitNow = Split(p, h.verb, << >>)
    BY <1>4 DEF SplitNow
  <2>2. CASE EndsWith(Last(p), h.verb)
    <3>1. SplitNow.path = Cut(p, h.verb) /\ SplitNow.verb = h.verb
      BY <2>1, <2>2 DEF Split, Cut
    <3>. QED  BY <1>3, <1>4, <2>2, <3>1 DEF Tried, Verdict
  <2>3. CASE ~EndsWith(Last(p), h.verb)
    <3>1. SplitNow.path = p /\ SplitNow.verb = << >>
      BY <2>1, <2>3 DEF Split
    <3>. QED  BY <1>3, <1>4, <2>3, <3>1 DEF Tried, Verdict
  <2>. QED  BY <2>2, <2>3
<1>5. CASE /\ EndsWith(Last(p), verb) /\ components = Cut(p, verb)
           /\ \E k \in 1..Len(table[method]) : table[method][k].verb = verb
  <2>1. PICK j \in 1..Len(table[method]) : table[method][j].verb = verb
    BY <1>5
  <2>2. verb \in Component
    BY DEF TypeOK
  <2>3. Last(components) = Stem(Last(p), verb)
    BY <1>2, <1>5, <2>2, CutProperties
  <2>4. /\ ~EndsWith(Last(components), h.verb)
        /\ EndsWith(Last(p), h.verb) => h.verb = verb
    BY <1>1, <1>2, <1>5, <2>1, <2>3 DEF SplitsOnce
  <2>5. SplitNow.path = components /\ SplitNow.verb = verb
    BY <2>4 DEF SplitNow, Split
  <2>6. ~VerbOnly(components, h.verb)
    BY <2>4 DEF VerbOnly
  <2>7. Tried = Verdict(h, p)
    BY <1>1, <1>2, <1>5, <2>2, <2>4, <2>5, CutDecides DEF Tried
  <2>. QED  BY <1>3, <2>5, <2>6, <2>7
<1>. QED  BY <1>1, <1>4, <1>5 DEF SplitInv

\* A handler without a verb sees the path put together again.
LEMMA TriedBackAsAlone ==
  ASSUME TypeOK, SplitInv, Fallback, table[other][next].verb = << >>
  PROVE  TriedBack = Alone(table[other][next])
<1> DEFINE h == table[other][next]
           p == req.path
<1>1. h \in TemplateSet /\ h.verb = << >> /\ ~EndsWith(Last(p), h.verb)
  BY FallbackShape DEF EndsWith
<1>2. Alone(h) = Verdict(h, p)
  BY AloneIsVerdict
<1>3. CASE components = p /\ verb = << >>
  BY <1>1, <1>2, <1>3 DEF Verdict, TriedBack
<1>4. CASE EndsWith(Last(p), verb) /\ components = Cut(p, verb)
  <2>1. p \in Seq(Component) /\ p # << >> /\ verb \in Component
    BY RequestTyped DEF TypeOK
  <2>. QED  BY <1>1, <1>2, <1>4, <2>1, CutDecides DEF TriedBack
<1>. QED  BY <1>3, <1>4 DEF SplitInv

\* The outcome is the last answer written.
LEMMA OutcomeIs ==
  ASSUME TypeOK, NEW a \in Answer, Goes(a)
  PROVE  Outcome' = a
<1>1. answers \in Seq(Answer) /\ answers' = Append(answers, a)
  BY DEF TypeOK, Goes
<1>. HIDE DEF Answer
<1>2. Len(answers') = Len(answers) + 1 /\ answers'[Len(answers) + 1] = a
  BY <1>1, AppendProperties
<1>. QED  BY <1>2 DEF Outcome

LEMMA ErrorOutcome ==
  ASSUME TypeOK, NEW what \in Errors, Goes(Error(what))
  PROVE  Outcome'.to = what /\ Outcome'.method = NoMethod
<1>1. Error(what) \in Answer /\ Error(what).to = what /\ Error(what).method = NoMethod
  BY DEF Error, Answer
<1>. QED  BY <1>1, OutcomeIs

LEMMA DispatchOutcome ==
  ASSUME TypeOK, NEW m \in Methods, NEW k \in Nat, Goes(Dispatch(m, k))
  PROVE  Outcome'.to = "handler" /\ Outcome'.method = m /\ Outcome'.index = k
<1>1. /\ Dispatch(m, k) \in Answer /\ Dispatch(m, k).to = "handler"
      /\ Dispatch(m, k).method = m /\ Dispatch(m, k).index = k
  BY DEF Dispatch, Answer
<1>. QED  BY <1>1, OutcomeIs

\* While the request and the table stand, what a handler says alone does.
LEMMA AloneStands ==
  ASSUME req' = req, table' = table
  PROVE  /\ \A h : Alone(h)' = Alone(h)
         /\ \A m : HandlersOf(m)' = HandlersOf(m)
BY DEF Alone, HandlersOf

LEMMA SplitStep ==
  ASSUME SplitsOnce, TypeOK, SplitInv, [Next]_vars
  PROVE  SplitInv'
<1>1. ASSUME Try PROVE SplitInv'
  <2>1. /\ req' = req /\ method' = method /\ table' = table /\ HandlersOf(method) = table[method]
        /\ next \in 1..Len(table[method])
    BY <1>1, TryShape
  <2>2. \/ components' = components /\ verb' = verb
        \/ /\ EndsWith(Last(req.path), verb') /\ components' = Cut(req.path, verb')
           /\ verb' = table[method][next].verb
    BY <1>1, TryCases, TriedAsAlone
  <2>. QED  BY <2>1, <2>2 DEF SplitInv, HandlersOf
<1>2. ASSUME Override PROVE SplitInv'
  <2>1. components' = components /\ verb' = verb /\ req' = req
    BY <1>2 DEF Override, Finish
  <2>2. components = req.path /\ verb = << >>
    BY <1>2 DEF Override, TypeOK
  <2>. QED  BY <2>1, <2>2 DEF SplitInv
<1>3. ASSUME UNCHANGED <<table, req, method, components, verb>> PROVE SplitInv'
  BY <1>3 DEF SplitInv, HandlersOf
<1>4. CASE Refuse \/ Enter \/ NoneLeft
  BY <1>3, <1>4 DEF Refuse, Enter, NoneLeft, Finish
<1>5. CASE NextMethod \/ NotFound
  BY <1>3, <1>5 DEF NextMethod, NotFound, Finish
<1>6. CASE Fallback
  BY <1>3, <1>6, FallbackShape, FallbackCases
<1>. QED  BY <1>1, <1>2, <1>3, <1>4, <1>5, <1>6 DEF Next, vars

LEMMA SearchStep ==
  ASSUME SplitsOnce, TypeOK, SplitInv, SearchInv, [Next]_vars
  PROVE  SearchInv'
<1>1. ASSUME phase' \notin {"match", "fallback"} PROVE SearchInv'
  BY <1>1 DEF SearchInv
<1>2. ASSUME Refuse \/ Override \/ Enter PROVE SearchInv'
  <2>1. phase' = "done" \/ (phase' = "match" /\ next' = 1)
    BY <1>2 DEF Refuse, Override, Enter, Finish, TypeOK
  <2>. QED  BY <1>1, <2>1 DEF SearchInv
<1>3. ASSUME Try, phase' # "done" PROVE SearchInv'
  <2>1. /\ phase = "match" /\ phase' = "match" /\ next' = next + 1 /\ Tried # "matched"
        /\ req' = req /\ method' = method /\ table' = table /\ next \in Nat
    BY <1>3, TryCases, TryShape DEF Try, TypeOK
  <2>2. Alone(table[method][next]) # "matched"
    BY <1>3, <2>1, TriedAsAlone
  <2>3. \A k \in 1..(next' - 1) : k = next \/ k \in 1..(next - 1)
    BY <2>1
  <2>4. \A k \in 1..(next' - 1) : Alone(table[method][k]) # "matched"
    BY <2>1, <2>2, <2>3 DEF SearchInv
  <2>. QED  BY <2>1, <2>4, AloneStands DEF SearchInv
<1>4. ASSUME NoneLeft PROVE SearchInv'
  <2>1. /\ phase = "match" /\ phase' = "fallback" /\ next > Len(HandlersOf(method)) /\ other' = NoMethod
        /\ left' = Methods \ {method} /\ req' = req /\ method' = method /\ table' = table
    BY <1>4 DEF NoneLeft
  <2>2. Len(HandlersOf(method)) \in Nat /\ next \in Nat
    BY HandlerTyped DEF HandlersOf, TypeOK
  <2>3. \A k \in 1..Len(HandlersOf(method)) : k \in 1..(next - 1)
    BY <2>1, <2>2
  <2>4. NoneOfOwn
    BY <2>1, <2>3 DEF NoneOfOwn, SearchInv
  <2>5. NoneOfOwn'
    BY <2>1, <2>4, AloneStands DEF NoneOfOwn
  <2>. QED  BY <2>1, <2>5 DEF SearchInv
<1>5. ASSUME NextMethod PROVE SearchInv'
  <2>1. PICK m \in left : /\ other' = m /\ left' = left \ {m} /\ next' = 1 /\ phase = "fallback" /\ AtEnd
                          /\ UNCHANGED <<table, req, phase, method>>
    BY <1>5 DEF NextMethod
  <2>2. NoneOfOwn' /\ other' \in Methods \ {method} /\ left' \subseteq Methods \ {method}
    BY <2>1, AloneStands DEF SearchInv, NoneOfOwn
  <2>3. ASSUME NEW n \in Methods \ {method}, n \notin left' PROVE PastOf(n)'
    <3>1. CASE n = m
      <4>1. \A k \in 1..Len(table[n]) : ~(k < 1)
        OBVIOUS
      <4>. QED  BY <2>1, <3>1, <4>1 DEF PastOf
    <3>2. CASE n # m
      <4>1. PastOf(n)
        BY <2>1, <2>3, <3>2 DEF SearchInv
      <4>2. n = other => \A k \in 1..Len(table[n]) : k < next
        <5>1. n = other => next > Len(table[n]) /\ Len(table[n]) \in Nat /\ next \in Nat
          BY <2>1, HandlerTyped DEF AtEnd, HandlersOf, TypeOK
        <5>. QED  BY <5>1
      <4>3. \A k \in 1..Len(table[n]) : table[n][k].verb = << >> => Alone(table[n][k]) # "matched"
        BY <4>1, <4>2 DEF PastOf
      <4>. QED  BY <2>1, <4>3, AloneStands DEF PastOf
    <3>. QED  BY <3>1, <3>2
  <2>. QED  BY <2>1, <2>2, <2>3 DEF SearchInv
<1>6. ASSUME Fallback, phase' # "done" PROVE SearchInv'
  <2>1. /\ phase = "fallback" /\ phase' = "fallback" /\ next' = next + 1 /\ TriedBack # "matched"
        /\ UNCHANGED <<table, req, method, other, left>> /\ other \in Methods /\ next \in 1..Len(table[other])
    BY <1>6, FallbackCases, FallbackShape DEF Fallback
  <2>2. table[other][next].verb = << >> => Alone(table[other][next]) # "matched"
    BY <1>6, <2>1, TriedBackAsAlone
  <2>3. NoneOfOwn' /\ other' \in (Methods \ {method}) \cup {NoMethod} /\ left' \subseteq Methods \ {method}
    BY <2>1, AloneStands DEF SearchInv, NoneOfOwn
  <2>4. ASSUME NEW n \in Methods \ {method}, n \notin left PROVE PastOf(n)'
    <3>1. PastOf(n)
      BY <2>1, <2>4 DEF SearchInv
    <3>2. ASSUME NEW k \in 1..Len(table[n]), n = other => k < next + 1, table[n][k].verb = << >>
          PROVE  Alone(table[n][k]) # "matched"
      <4>1. n = other => k < next \/ k = next
        BY <2>1, <3>2
      <4>. QED  BY <2>2, <3>1, <3>2, <4>1 DEF PastOf
    <3>. QED  BY <2>1, <3>2, AloneStands DEF PastOf
  <2>. QED  BY <2>1, <2>3, <2>4 DEF SearchInv
<1>7. ASSUME UNCHANGED vars PROVE SearchInv'
  BY <1>7 DEF vars, SearchInv, NoneOfOwn, PastOf, Alone, HandlersOf
<1>8. CASE NotFound
  BY <1>1, <1>8 DEF NotFound, Finish
<1>. QED  BY <1>1, <1>2, <1>3, <1>4, <1>5, <1>6, <1>7, <1>8 DEF Next

\* What the properties say of the state a step reaches, in terms of the old one.
LEMMA FoundStands ==
  ASSUME req' = req, table' = table, method' = method
  PROVE  /\ VerbAlone' = VerbAlone
         /\ \A k : Alone(table[method][k])' = Alone(table[method][k])
         /\ NoneOfOwn' = NoneOfOwn
BY DEF VerbAlone, HandlersOf, Alone, NoneOfOwn

\* The outcomes that say no handler of the request's own method matched.
LEMMA FoundByExhaustion ==
  ASSUME NoneOfOwn', ByHandler' => Outcome'.method # method', Outcome'.to # "not found"
  PROVE  DispatchesFirstMatch' /\ OtherMethodsNoticed'
BY DEF DispatchesFirstMatch, OtherMethodsNoticed, NoneOfOwn

LEMMA FoundStep ==
  ASSUME MethodsAssumption, SplitsOnce, FInv, [Next]_vars
  PROVE  DispatchesFirstMatch' /\ OtherMethodsNoticed'
<1>. USE DEF FInv
<1>1. ASSUME ~Searched' PROVE DispatchesFirstMatch' /\ OtherMethodsNoticed'
  BY <1>1 DEF DispatchesFirstMatch, OtherMethodsNoticed, ByHandler
<1>2. ASSUME phase' # "done" PROVE DispatchesFirstMatch' /\ OtherMethodsNoticed'
  BY <1>1, <1>2 DEF Searched
<1>3. CASE Refuse
  <2>1. req' = req /\ (~req.hook \/ ~req.rooted)
    BY <1>3 DEF Refuse, Finish
  <2>. QED  BY <1>1, <2>1 DEF Searched
<1>4. ASSUME Override, phase' = "done" PROVE DispatchesFirstMatch' /\ OtherMethodsNoticed'
  <2>1. Goes(Error("invalid argument"))
    BY <1>4 DEF Override, Finish, Goes
  <2>2. Outcome'.to = "invalid argument"
    BY <2>1, ErrorOutcome DEF Errors
  <2>. QED  BY <2>2 DEF DispatchesFirstMatch, OtherMethodsNoticed, ByHandler
<1>5. CASE Enter \/ NoneLeft \/ NextMethod
  <2>1. phase' # "done"
    BY <1>5 DEF Enter, NoneLeft, NextMethod
  <2>. QED  BY <1>2, <2>1
<1>6. ASSUME Try, phase' = "done" PROVE DispatchesFirstMatch' /\ OtherMethodsNoticed'
  <2>1. /\ method \in Methods /\ next \in 1..Len(table[method]) /\ next \in Nat
        /\ HandlersOf(method) = table[method]
        /\ table' = table /\ req' = req /\ method' = method /\ phase = "match"
    BY <1>6, TryShape DEF Try, TypeOK
  <2>2. CASE VerbOnly(components, table[method][next].verb) /\ Goes(Error("not found"))
    <3>1. VerbAlone
      BY <1>6, <2>1, <2>2, TriedAsAlone DEF VerbAlone
    <3>2. VerbAlone' /\ Outcome'.to = "not found"
      BY <2>1, <2>2, <3>1, FoundStands, ErrorOutcome DEF Errors
    <3>. QED  BY <3>2 DEF DispatchesFirstMatch, OtherMethodsNoticed, ByHandler
  <2>3. CASE Tried = "matched" /\ Goes(Dispatch(method, next))
    <3>1. Outcome'.to = "handler" /\ Outcome'.method = method' /\ Outcome'.index = next
      BY <2>1, <2>3, DispatchOutcome
    <3>2. Alone(table[method][next]) = "matched"
      BY <1>6, <2>3, TriedAsAlone
    <3>3. \A k \in 1..(next - 1) : Alone(table[method][k]) # "matched"
      BY <2>1 DEF SearchInv
    <3>4. /\ Outcome'.index = next => Alone(table[method][Outcome.index])' = "matched"
          /\ \A k \in 1..(next - 1) : Alone(table[method][k])' # "matched"
      BY <2>1, <3>2, <3>3, AloneStands
    <3>5. DispatchesFirstMatch'
      BY <3>1, <3>4 DEF DispatchesFirstMatch
    <3>6. OtherMethodsNoticed'
      BY <3>1 DEF OtherMethodsNoticed
    <3>. QED  BY <3>5, <3>6
  <2>. QED  BY <1>6, <2>1, <2>2, <2>3, TryCases
<1>7. ASSUME Fallback, phase' = "done" PROVE DispatchesFirstMatch' /\ OtherMethodsNoticed'
  <2>1. /\ other \in Methods /\ next \in Nat /\ phase = "fallback" /\ method' = method
        /\ table' = table /\ req' = req
    BY <1>7, FallbackShape, FallbackCases DEF Fallback, TypeOK
  <2>2. NoneOfOwn' /\ other # method
    BY <2>1, FoundStands, MethodsAssumption DEF SearchInv
  <2>3. CASE Goes(Error("method not allowed")) \/ Goes(Error("invalid argument"))
    <3>1. Outcome'.to \in {"method not allowed", "invalid argument"}
      BY <2>3, ErrorOutcome DEF Errors
    <3>2. Outcome'.to # "not found" /\ ~ByHandler'
      BY <3>1 DEF ByHandler
    <3>. QED  BY <2>2, <3>2, FoundByExhaustion
  <2>4. CASE Goes(Dispatch(other, next))
    <3>1. Outcome'.to = "handler" /\ Outcome'.method = other
      BY <2>1, <2>4, DispatchOutcome
    <3>. QED  BY <2>1, <2>2, <3>1, FoundByExhaustion
  <2>. QED  BY <1>7, <2>1, <2>3, <2>4, FallbackCases
<1>8. CASE NotFound
  <2>1. /\ phase = "fallback" /\ AtEnd /\ left = {} /\ Goes(Error("not found"))
        /\ UNCHANGED <<table, req, method>>
    BY <1>8 DEF NotFound, Finish, Goes
  <2>2. Outcome'.to = "not found" /\ Outcome'.method = NoMethod
    BY <2>1, ErrorOutcome DEF Errors
  <2>3. NoneOfOwn'
    BY <2>1, FoundStands DEF SearchInv
  <2>4. ASSUME NEW m \in Methods \ {method}, NEW k \in 1..Len(table[m]), table[m][k].verb = << >>
        PROVE  Alone(table[m][k]) # "matched"
    <3>1. PastOf(m)
      BY <2>1 DEF SearchInv
    <3>2. m = other => k < next
      <4>1. m = other => next > Len(table[m]) /\ Len(table[m]) \in Nat /\ next \in Nat
        BY <2>1, HandlerTyped DEF AtEnd, HandlersOf, TypeOK
      <4>. QED  BY <4>1
    <3>. QED  BY <2>4, <3>1, <3>2 DEF PastOf
  <2>5. DispatchesFirstMatch'
    BY <2>2, <2>3 DEF DispatchesFirstMatch, NoneOfOwn, ByHandler
  <2>6. OtherMethodsNoticed'
    BY <2>1, <2>4, AloneStands DEF OtherMethodsNoticed
  <2>. QED  BY <2>5, <2>6
<1>9. CASE UNCHANGED vars
  <2>1. UNCHANGED <<table, req, phase, method, answers>>
    BY <1>9 DEF vars
  <2>. QED  BY <2>1 DEF DispatchesFirstMatch, OtherMethodsNoticed, ByHandler, Searched, Outcome,
                        VerbAlone, HandlersOf, Alone
<1>. QED  BY <1>2, <1>3, <1>4, <1>5, <1>6, <1>7, <1>8, <1>9 DEF Next

LEMMA FirstMatchInvariance ==
  ASSUME SplitsOnce
  PROVE  Spec => []FInv
<1>1. FInv /\ [Next]_vars => FInv'
  BY TypeStep, SplitStep, SearchStep, FoundStep, MethodsAssumption DEF FInv
<1>. QED  BY <1>1, FirstMatchInit, PTL DEF Spec

\* The search dispatches to the first handler of the request's method whose
\* pattern matches its path, and to no other method's while one of its own
\* would match: for every table and path whose verbs split the path at most
\* once.  Two verbs that both split it are the disagreement MCDispatchesFirstMatch
\* shows.
THEOREM FirstMatch ==
  ASSUME SplitsOnce
  PROVE  Spec => []DispatchesFirstMatch
<1>1. FInv => DispatchesFirstMatch
  BY DEF FInv
<1>. QED  BY <1>1, FirstMatchInvariance, PTL

\* Under the same condition a path that a handler of another method matches,
\* verbs apart, is not answered 404.
THEOREM OthersNoticed ==
  ASSUME SplitsOnce
  PROVE  Spec => []OtherMethodsNoticed
<1>1. FInv => OtherMethodsNoticed
  BY DEF FInv
<1>. QED  BY <1>1, FirstMatchInvariance, PTL

\* No request with at most one ':' in the last component of its path depends on
\* the handlers its search passes over.
THEOREM OneColonFirstMatch ==
  ASSUME \A r \in Requests : Len(Last(r.path)) <= 2
  PROVE  Spec => [](DispatchesFirstMatch /\ OtherMethodsNoticed)
<1>1. SplitsOnce
  BY OneColonSplitsOnce
<1>. QED  BY <1>1, FirstMatch, OthersNoticed, PTL
=============================================================================
