---------------------------- MODULE Decoding_proof ----------------------------
(***************************************************************************)
(* Proofs about Decoding: the outgoing call carries what the headers say,  *)
(* and the field mask of a body names the fields the body sets.            *)
(***************************************************************************)
EXTENDS Decoding, FiniteSetTheorems, SequenceTheorems, WellFoundedInduction, TLAPS

-----------------------------------------------------------------------------
(* Lists made of sets. *)

\* A list made of a finite set, in whatever order, has its members.
LEMMA ListOfSet ==
  ASSUME NEW S, IsFiniteSet(S)
  PROVE  SetToSeq(S) \in Seq(S) /\ ToSet(SetToSeq(S)) = S
<1> DEFINE n == Cardinality(S)
           f == SetToSeq(S)
<1>1. n \in Nat /\ ExistsBijection(1..n, S)
  BY FS_CardinalityType
<1>2. PICK g \in Bijection(1..n, S) : TRUE
  BY <1>1 DEF ExistsBijection
<1>3. g \in [1..n -> S] /\ IsInjective(g)
  BY <1>2 DEF Bijection, Injection, IsInjective, Surjection
<1>4. f \in [1..n -> S] /\ IsInjective(f)
  BY <1>3 DEF SetToSeq
<1>. HIDE DEF f
<1>5. f \in Injection(1..n, S)
  BY <1>4 DEF Injection, IsInjective
<1>6. IsFiniteSet(1..n) /\ Cardinality(1..n) = n
  BY <1>1, FS_Interval
<1>7. f \in Surjection(1..n, S)
  BY <1>5, <1>6, FS_Injection
<1>8. f \in Seq(S)
  BY <1>1, <1>4
<1>9. ToSet(f) = S
  BY <1>4, <1>7 DEF Surjection, ToSet
<1>. QED  BY <1>8, <1>9 DEF f

\* What the parts of a concatenation have between them.
LEMMA MembersOfConcat ==
  ASSUME NEW S, NEW a \in Seq(S), NEW b \in Seq(S)
  PROVE  a \o b \in Seq(S) /\ ToSet(a \o b) = ToSet(a) \cup ToSet(b)
<1> DEFINE c == a \o b
<1>1. /\ c \in Seq(S) /\ Len(c) = Len(a) + Len(b)
      /\ \A p \in 1..Len(a) : c[p] = a[p]
      /\ \A j \in 1..Len(b) : c[Len(a) + j] = b[j]
  OBVIOUS
<1>. HIDE DEF c
<1>2. Len(a) \in Nat /\ Len(b) \in Nat
  OBVIOUS
<1>3. DOMAIN a = 1..Len(a) /\ DOMAIN b = 1..Len(b) /\ DOMAIN c = 1..Len(c)
  BY <1>1
<1>4. \A p \in 1..Len(a) : p \in 1..Len(c)
  BY ONLY <1>1, <1>2
<1>5. \A j \in 1..Len(b) : Len(a) + j \in 1..Len(c)
  BY ONLY <1>1, <1>2
<1>6. \A p \in 1..Len(c) : p \in 1..Len(a) \/ \E j \in 1..Len(b) : p = Len(a) + j
  <2> SUFFICES ASSUME NEW p \in 1..Len(c), p \notin 1..Len(a)
               PROVE  \E j \in 1..Len(b) : p = Len(a) + j
    OBVIOUS
  <2>1. p - Len(a) \in 1..Len(b) /\ p = Len(a) + (p - Len(a))
    BY ONLY <1>1, <1>2, p \in 1..Len(c), p \notin 1..Len(a)
  <2>. QED  BY <2>1
<1>7. ASSUME NEW p \in 1..Len(c) PROVE c[p] \in ToSet(a) \cup ToSet(b)
  <2>1. CASE p \in 1..Len(a)
    BY <1>1, <1>3, <2>1 DEF ToSet
  <2>2. CASE p \notin 1..Len(a)
    BY <1>1, <1>3, <1>6, <2>2 DEF ToSet
  <2>. QED  BY <2>1, <2>2
<1>8. \A x \in ToSet(a) \cup ToSet(b) : x \in ToSet(c)
  BY <1>1, <1>3, <1>4, <1>5 DEF ToSet
<1>9. ToSet(c) = ToSet(a) \cup ToSet(b)
  BY <1>3, <1>7, <1>8 DEF ToSet
<1>. QED  BY <1>1, <1>9 DEF c

-----------------------------------------------------------------------------
(* The outgoing call. *)

Later == {"body", "mask", "params", "nested", "query", "validate", "balance", "called"}

Due(headers) == UNION { Matched(h) : h \in headers }
Known == ToSet(Forwarded)
Carried == Due(req.headers) \cup Known

\* The deadline is the client's where it fits.
InTime ==
  \A t \in req.timeout : t.digits * Units[t.unit] \in -Wide..(Wide - 1) => timeout = t.digits * Units[t.unit]

\* What the list of metadata has at each stage: the headers visited, then all of
\* them with the gateway's own word at the end.
Listed ==
  /\ ToSet(pairs) = Carried
  /\ req.remote => pairs # << >> /\ pairs[Len(pairs)].value = "remote"

CarryInv ==
  /\ req \in Requests /\ pairs \in Seq(Carried)
  /\ pc \in {"hook", "timeout"} => pairs = << >>
  /\ pc = "headers" => todo \subseteq req.headers /\ ToSet(pairs) = Due(req.headers \ todo)
  /\ pc \in {"headers"} \cup Later => InTime
  /\ pc \in Later => Listed

\* A number of units that fits into the width is kept by the wrapping around.
LEMMA WrapsNothing ==
  ASSUME NEW n \in -Wide..(Wide - 1)
  PROVE  Wrapped(n) = n
<1> DEFINE a == n + Wide
           b == 2 * Wide
<1>1. a \in Nat /\ b \in Nat /\ b > 0 /\ a < b /\ a - Wide = n
  BY UnitsAssumption
<1>2. a % b = a
  <2>. HIDE DEF a, b
  <2>. QED  BY ONLY <1>1
<1>. QED  BY <1>1, <1>2 DEF Wrapped

\* A header gives finitely many pairs.
LEMMA MatchedFinite ==
  ASSUME NEW r \in Requests, NEW h \in r.headers
  PROVE  IsFiniteSet(Matched(h))
<1> DEFINE K == MetadataKeys(h)
           D == DOMAIN K
           V == h.values
           f == [x \in D \X V |-> [key |-> K[x[1]], value |-> x[2]]]
<1>1. IsFiniteSet(V)
  BY RequestsAssumption DEF RequestOk
<1>2. IsFiniteSet(D)
  <2>1. D = 1..0 \/ D = 1..1 \/ D = 1..2
    BY DEF MetadataKeys
  <2>. HIDE DEF D
  <2>2. ASSUME NEW n \in Int PROVE IsFiniteSet(1..n)
    BY FS_Interval
  <2>3. 0 \in Int /\ 1 \in Int /\ 2 \in Int
    OBVIOUS
  <2>. QED  BY <2>1, <2>2, <2>3, Zenon
<1>3. Matched(h) = { [key |-> K[i], value |-> v] : i \in D, v \in V }
  BY DEF Matched
<1>. HIDE DEF D, V, K
<1>4. IsFiniteSet(D \X V)
  BY <1>1, <1>2, FS_Product
<1>5. f \in Surjection(D \X V, Matched(h))
  <2>1. \A i \in D, v \in V : f[<<i, v>>] = [key |-> K[i], value |-> v] /\ <<i, v>> \in D \X V
    OBVIOUS
  <2>2. \A x \in D \X V : x[1] \in D /\ x[2] \in V /\ f[x] = [key |-> K[x[1]], value |-> x[2]]
    OBVIOUS
  <2>3. f \in [D \X V -> Matched(h)]
    BY <1>3, <2>2
  <2>4. ASSUME NEW y \in Matched(h) PROVE \E x \in D \X V : f[x] = y
    <3>. HIDE DEF f
    <3>1. PICK i \in D, v \in V : y = [key |-> K[i], value |-> v]
      BY <1>3
    <3>. QED  BY <2>1, <3>1
  <2>. QED  BY <2>3, <2>4 DEF Surjection
<1>. QED  BY <1>4, <1>5, FS_Surjection

\* No stage has begun.
LEMMA InitCarry == Init => CarryInv
BY DEF Init, CarryInv, Later

\* The deadline is the client's where it fits.
LEMMA TimeoutCarry == CarryInv /\ DecodeTimeout => CarryInv'
<1> SUFFICES ASSUME CarryInv, DecodeTimeout PROVE CarryInv'
  OBVIOUS
<1>1. /\ req' = req /\ pairs' = pairs /\ Carried' = Carried
  BY DEF DecodeTimeout, Refuse, Carried, Due, Known, Forwarded
<1>2. CASE pc' = "refused"
  BY <1>1, <1>2 DEF CarryInv, Later
<1>3. CASE pc' # "refused"
  <2>1. /\ pc = "timeout" /\ pc' = "headers" /\ todo' = req.headers
        /\ timeout' = IF req.timeout = {} THEN 0 ELSE timeoutDecode(CHOOSE t \in req.timeout : TRUE)
        /\ \A t \in req.timeout : t.unit \in DOMAIN Units
    BY <1>3 DEF DecodeTimeout, Refuse
  <2>2. ASSUME NEW t \in req.timeout, t.digits * Units[t.unit] \in -Wide..(Wide - 1)
        PROVE  timeout' = t.digits * Units[t.unit]
    <3>1. t.digits \in Int /\ req.timeout = {t}
      BY RequestsAssumption DEF CarryInv, RequestOk
    <3>2. timeout' = Wrapped(t.digits * Units[t.unit])
      BY <2>1, <3>1 DEF timeoutDecode
    <3>. QED  BY <2>2, <3>2, WrapsNothing
  <2>3. InTime'
    BY <1>1, <2>2 DEF InTime
  <2>4. ToSet(pairs) = Due(req.headers \ req.headers) /\ pairs = << >>
    BY <2>1 DEF CarryInv, ToSet, Due
  <2>. QED  BY <1>1, <2>1, <2>3, <2>4 DEF CarryInv, Later, Due, Matched, MetadataKeys
<1>. QED  BY <1>2, <1>3

\* A header adds the pairs it is due.
LEMMA HeaderCarry == CarryInv /\ AddHeader => CarryInv'
<1> SUFFICES ASSUME CarryInv, AddHeader PROVE CarryInv'
  OBVIOUS
<1>1. req' = req /\ Carried' = Carried
  BY DEF AddHeader, Refuse, Carried, Due, Known, Forwarded
<1>2. CASE pc' = "refused"
  <2>1. pairs' = pairs
    BY <1>2 DEF AddHeader, Refuse
  <2>. QED  BY <1>1, <1>2, <2>1 DEF CarryInv, Later
<1>3. CASE pc' # "refused"
  <2>1. PICK h \in todo : /\ pairs' = pairs \o SetToSeq(Matched(h)) /\ todo' = todo \ {h}
                          /\ pc = "headers" /\ pc' = pc /\ timeout' = timeout
    BY <1>3 DEF AddHeader, Refuse
  <2>2. h \in req.headers /\ todo \subseteq req.headers /\ ToSet(pairs) = Due(req.headers \ todo)
    BY <2>1 DEF CarryInv
  <2>3. SetToSeq(Matched(h)) \in Seq(Matched(h)) /\ ToSet(SetToSeq(Matched(h))) = Matched(h)
    BY <2>2, MatchedFinite, ListOfSet DEF CarryInv
  <2>4. Matched(h) \subseteq Carried
    BY <2>2 DEF Carried, Due
  <2>5. SetToSeq(Matched(h)) \in Seq(Carried)
    <3>. HIDE DEF Carried, Matched
    <3>. QED  BY <2>3, <2>4
  <2>6. pairs' \in Seq(Carried) /\ ToSet(pairs') = ToSet(pairs) \cup Matched(h)
    BY <2>1, <2>3, <2>5, MembersOfConcat DEF CarryInv
  <2>7. Due(req.headers \ (todo \ {h})) = Due(req.headers \ todo) \cup Matched(h)
    BY <2>1, <2>2 DEF Due
  <2>8. InTime'
    BY <1>1, <2>1 DEF CarryInv, InTime
  <2>9. Due(req.headers \ todo)' = Due(req.headers \ (todo \ {h}))
    BY <1>1, <2>1 DEF Due, Matched, MetadataKeys
  <2>10. ToSet(pairs)' = Due(req.headers \ todo)'
    BY <2>2, <2>6, <2>7, <2>9 DEF ToSet
  <2>11. todo' \subseteq req.headers /\ pairs' \in Seq(Carried')
    BY <1>1, <2>1, <2>2, <2>6
  <2>. QED  BY <1>1, <2>1, <2>8, <2>10, <2>11 DEF CarryInv, Later
<1>. QED  BY <1>2, <1>3

\* The gateway's own word comes last.
LEMMA ForwardCarry == CarryInv /\ Forward => CarryInv'
<1> SUFFICES ASSUME CarryInv, Forward PROVE CarryInv'
  OBVIOUS
<1>1. /\ req' = req /\ timeout' = timeout /\ pc = "headers" /\ pc' = "body" /\ todo = {}
      /\ pairs' = pairs \o Forwarded /\ Carried' = Carried
  BY DEF Forward, Carried, Due, Known, Forwarded
<1>2. /\ Forwarded \in Seq(Known)
      /\ req.remote => Forwarded # << >> /\ Forwarded[Len(Forwarded)].value = "remote"
  <2> DEFINE h == [key |-> "x-forwarded-host", value |-> "host"]
             r == [key |-> "x-forwarded-for", value |-> "remote"]
             a == IF req.host THEN << h >> ELSE << >>
             b == IF req.remote THEN << r >> ELSE << >>
  <2>1. a \in Seq({h, r}) /\ b \in Seq({h, r})
    <3>. HIDE DEF h, r
    <3>1. << h >> \in Seq({h, r}) /\ << r >> \in Seq({h, r}) /\ << >> \in Seq({h, r})
      OBVIOUS
    <3>. QED  BY <3>1
  <2>2. Forwarded = a \o b
    BY DEF Forwarded
  <2>3. Forwarded \in Seq({h, r}) /\ Len(Forwarded) = Len(a) + Len(b)
        /\ \A j \in 1..Len(b) : Forwarded[Len(a) + j] = b[j]
    <3>. HIDE DEF a, b, h, r
    <3>. QED  BY <2>1, <2>2
  <2>4. Forwarded \in Seq(Known)
    <3>. HIDE DEF h, r
    <3>. QED  BY <2>3 DEF Known, ToSet
  <2>5. ASSUME req.remote PROVE Forwarded # << >> /\ Forwarded[Len(Forwarded)].value = "remote"
    <3>1. Len(b) = 1 /\ b[1].value = "remote" /\ Len(a) \in Nat
      BY <2>5
    <3>2. Len(Forwarded) = Len(a) + 1 /\ Forwarded[Len(a) + 1] = b[1] /\ Forwarded \in Seq({h, r})
      <4>. HIDE DEF a, b, h, r
      <4>. QED  BY <2>3, <3>1
    <3>. HIDE DEF a, b, h, r
    <3>. QED  BY <3>1, <3>2
  <2>. QED  BY <2>4, <2>5
<1>3. Forwarded \in Seq(Carried) /\ pairs \in Seq(Carried)
  <2>1. Known \subseteq Carried
    BY DEF Carried
  <2>. HIDE DEF Known, Carried
  <2>. QED  BY <1>2, <2>1 DEF CarryInv
<1>4. pairs' \in Seq(Carried) /\ ToSet(pairs') = ToSet(pairs) \cup Known
  BY <1>1, <1>3, MembersOfConcat DEF Known
<1>5. ToSet(pairs) = Due(req.headers)
  <2>1. req.headers \ todo = req.headers
    BY <1>1
  <2>. QED  BY <1>1, <2>1 DEF CarryInv
<1>6. req.remote => pairs' # << >> /\ pairs'[Len(pairs')].value = "remote"
  <2> SUFFICES ASSUME req.remote PROVE pairs' # << >> /\ pairs'[Len(pairs')].value = "remote"
    OBVIOUS
  <2> DEFINE a == pairs
             b == Forwarded
             c == pairs'
  <2>1. c = a \o b /\ a \in Seq(Carried) /\ b \in Seq(Carried) /\ b # << >> /\ b[Len(b)].value = "remote"
    BY <1>1, <1>2, <1>3
  <2>. HIDE DEF a, b, c, Carried
  <2>2. Len(b) \in 1..Len(b) /\ Len(c) = Len(a) + Len(b) /\ c[Len(a) + Len(b)] = b[Len(b)] /\ c # << >>
    BY ONLY <2>1
  <2>. QED  BY <2>1, <2>2 DEF c
<1>7. Listed'
  BY <1>1, <1>4, <1>5, <1>6 DEF Listed, Carried
<1>8. InTime'
  BY <1>1 DEF CarryInv, InTime
<1>9. req' \in Requests /\ pairs' \in Seq(Carried')
  BY <1>1, <1>4 DEF CarryInv
<1>. QED  BY <1>1, <1>7, <1>8, <1>9 DEF CarryInv, Later

\* The other stages leave the call's metadata alone, and none leads back to them.
LEMMA RestCarry ==
  ASSUME CarryInv, UNCHANGED <<req, timeout, pairs>>,
         pc' = "refused" \/ pc' = "panicked" \/ (pc \in Later /\ pc' \in Later)
         \/ (pc = "hook" /\ pc' = "timeout") \/ UNCHANGED vars
  PROVE  CarryInv'
<1>1. Carried' = Carried /\ InTime' = InTime /\ Listed' = Listed
  BY DEF Carried, Due, Known, Forwarded, InTime, Listed
<1>2. CASE UNCHANGED vars
  <2>1. Due(req.headers \ todo)' = Due(req.headers \ todo) /\ ToSet(pairs)' = ToSet(pairs)
    BY <1>2 DEF vars, Due, Matched, MetadataKeys, ToSet
  <2>2. pc' = pc /\ todo' = todo
    BY <1>2 DEF vars
  <2>. QED  BY <1>1, <2>1, <2>2 DEF CarryInv
<1>3. CASE ~UNCHANGED vars
  BY <1>1, <1>3 DEF CarryInv, Later
<1>. QED  BY <1>2, <1>3

\* At every stage the call carries what the stages done have given it.
THEOREM CarryInvariance == Spec => []CarryInv
<1>1. CarryInv /\ [Next]_vars => CarryInv'
  <2> SUFFICES ASSUME CarryInv, [Next]_vars PROVE CarryInv'
    OBVIOUS
  <2>1. CASE DecodeTimeout
    BY <2>1, TimeoutCarry
  <2>2. CASE AddHeader
    BY <2>2, HeaderCarry
  <2>3. CASE Forward
    BY <2>3, ForwardCarry
  <2>4. CASE VerifyHeader
    BY <2>4, RestCarry DEF VerifyHeader, Refuse
  <2>5. CASE DecodeBody \/ MaskLevel
    BY <2>5, RestCarry DEF DecodeBody, MaskLevel, Refuse, Crash, Later
  <2>6. CASE BindParam \/ StartQuery \/ ParseKey
    BY <2>6, RestCarry DEF BindParam, StartQuery, ParseKey, Refuse, Later
  <2>7. CASE SkipUnknown \/ Descend \/ SetLast
    BY <2>7, RestCarry DEF SkipUnknown, Descend, SetLast, Walking, BackToStage, Refuse, Crash, Later
  <2>8. CASE EndQuery \/ Validate \/ PreLoadBalance
    BY <2>8, RestCarry DEF EndQuery, Validate, PreLoadBalance, Refuse, Later
  <2>9. CASE Done \/ UNCHANGED vars
    BY <2>9, RestCarry DEF Done, vars
  <2>. QED  BY <2>1, <2>2, <2>3, <2>4, <2>5, <2>6, <2>7, <2>8, <2>9 DEF Next
<1>. QED  BY <1>1, InitCarry, PTL DEF Spec

\* The call carries the client's deadline where it fits, all headers that match,
\* and the gateway's own word on where the request is from behind them.
THEOREM CarriesFaithfully == Spec => []CallFaithful
<1>1. CarryInv => CallFaithful
  <2> SUFFICES ASSUME CarryInv, pc = "called" PROVE CallFaithful
    BY DEF CallFaithful
  <2>1. InTime /\ Listed /\ pairs \in Seq(Carried)
    BY DEF CarryInv, Later
  <2>2. req.remote => \E i \in DOMAIN pairs :
          pairs[i].value = "remote" /\ \A j \in DOMAIN pairs : pairs[j].key = "x-forwarded-for" => j <= i
    <3> SUFFICES ASSUME req.remote PROVE \E i \in DOMAIN pairs :
          pairs[i].value = "remote" /\ \A j \in DOMAIN pairs : pairs[j].key = "x-forwarded-for" => j <= i
      OBVIOUS
    <3>1. Len(pairs) \in DOMAIN pairs /\ \A j \in DOMAIN pairs : j <= Len(pairs)
      <4>. HIDE DEF Carried
      <4>. QED  BY <2>1 DEF Listed
    <3>. QED  BY <2>1, <3>1 DEF Listed
  <2>3. ToSet(pairs) = (UNION { Matched(h) : h \in req.headers }) \cup ToSet(Forwarded)
    BY <2>1 DEF Listed, Carried, Due, Known
  <2>4. \A t \in req.timeout : LET n == t.digits * Units[t.unit] IN n \in -Wide..(Wide - 1) => timeout = n
    BY <2>1 DEF InTime
  <2>. QED  BY <2>2, <2>3, <2>4 DEF CallFaithful
<1>. QED  BY <1>1, CarryInvariance, PTL
-----------------------------------------------------------------------------
(* Naturals. *)

\* A set of naturals has a least member.
LEMMA Least ==
  ASSUME NEW S, S \subseteq Nat, S # {}
  PROVE  \E n \in S : \A m \in S : n <= m
<1> DEFINE R == { ss \in Nat \X Nat : ss[1] < ss[2] }
<1>1. IsWellFoundedOn(R, Nat)
  BY NatLessThanWellFounded DEF OpToRel
<1>2. PICK n \in S : \A m \in S : ~(<<m, n>> \in R)
  BY <1>1, WFMin
<1>3. \A m, n_1 \in Nat : m < n_1 => <<m, n_1>> \in R
  OBVIOUS
<1>. HIDE DEF R
<1>4. \A m \in S : m \in Nat /\ n \in Nat /\ ~(m < n)
  BY <1>2, <1>3
<1>5. \A m \in S : n <= m
  BY <1>4
<1>. QED  BY <1>2, <1>5

\* Induction on a set: 0 is in it, and k + 1 whenever k is.
LEMMA Climb ==
  ASSUME NEW S, 0 \in S, \A k \in Nat : k \in S => k + 1 \in S
  PROVE  Nat \subseteq S
<1> DEFINE Bad == Nat \ S
<1> SUFFICES ASSUME Bad # {} PROVE FALSE
  OBVIOUS
<1>1. PICK m \in Bad : \A k \in Bad : m <= k
  <2>1. Bad \subseteq Nat
    OBVIOUS
  <2> HIDE DEF Bad
  <2>. QED  BY Least, <2>1
<1>2. m # 0 /\ m - 1 \in Nat
  BY <1>1
<1>3. m - 1 \in S
  BY <1>1, <1>2
<1>4. (m - 1) + 1 \in S
  BY <1>2, <1>3
<1>. QED  BY <1>1, <1>4

-----------------------------------------------------------------------------
(* Paths of names. *)

Path == Seq(STRING)

\* A sequence that is not empty is what is in front of its last element, and that.
LEMMA FrontAndLast ==
  ASSUME NEW S, NEW p \in Seq(S), p # << >>
  PROVE  /\ Front(p) \in Seq(S) /\ Last(p) \in S /\ Len(p) \in Nat /\ Len(p) >= 1
         /\ Len(Front(p)) = Len(p) - 1 /\ p = Append(Front(p), Last(p))
         /\ \A i \in 1..(Len(p) - 1) : Front(p)[i] = p[i]
<1>1. Len(p) \in Nat /\ Len(p) >= 1 /\ \A i \in 1..Len(p) : p[i] \in S
  OBVIOUS
<1>5. /\ Front(p) \in Seq(S) /\ Len(Front(p)) = Len(p) - 1
      /\ \A i \in 1..(Len(p) - 1) : Front(p)[i] = p[i]
  <2> DEFINE k == Len(p) - 1
  <2>1. k \in Nat /\ k <= Len(p)
    BY <1>1
  <2>2. Front(p) = SubSeq(p, 1, k)
    BY DEF Front
  <2>. HIDE DEF k
  <2>3. SubSeq(p, 1, k) \in Seq(S) /\ Len(SubSeq(p, 1, k)) = k /\ \A i \in 1..k : SubSeq(p, 1, k)[i] = p[i]
    BY <1>1, <2>1
  <2>. QED  BY <2>2, <2>3 DEF k
<1>6. Last(p) \in S
  BY <1>1 DEF Last
<1>7. p = Append(Front(p), Last(p))
  <2> DEFINE F == Front(p)
             l == Last(p)
             A == Append(F, l)
  <2>1. F \in Seq(S) /\ l \in S /\ Len(F) = Len(p) - 1 /\ l = p[Len(p)]
        /\ \A i \in 1..(Len(p) - 1) : F[i] = p[i]
    BY <1>5, <1>6 DEF Last
  <2>. HIDE DEF F, l
  <2>2. A \in Seq(S) /\ Len(A) = Len(F) + 1 /\ A[Len(F) + 1] = l /\ \A i \in 1..Len(F) : A[i] = F[i]
    BY <2>1
  <2>3. Len(F) + 1 = Len(p)
    BY ONLY <1>1, <2>1
  <2>4. \A i \in 1..Len(p) : A[i] = p[i]
    <3>. HIDE DEF A
    <3>. SUFFICES ASSUME NEW i \in 1..Len(p) PROVE A[i] = p[i]
      OBVIOUS
    <3>1. i = Len(p) \/ i \in 1..(Len(p) - 1)
      BY <1>1
    <3>. QED  BY <2>1, <2>2, <2>3, <3>1
  <2>. HIDE DEF A
  <2>5. A = p
    BY <2>2, <2>3, <2>4, SeqEqual
  <2>. QED  BY <2>5 DEF A, F, l
<1>. QED  BY <1>1, <1>5, <1>6, <1>7

\* A sequence with one more element.
LEMMA AppendFacts ==
  ASSUME NEW S, NEW p \in Seq(S), NEW n \in S
  PROVE  /\ Append(p, n) \in Seq(S) /\ Len(p) \in Nat /\ Len(Append(p, n)) = Len(p) + 1
         /\ Append(p, n)[Len(p) + 1] = n /\ \A i \in 1..Len(p) : Append(p, n)[i] = p[i]
         /\ Front(Append(p, n)) = p /\ Last(Append(p, n)) = n /\ Append(p, n) # << >>
<1> DEFINE q == Append(p, n)
<1>1. q \in Seq(S) /\ Len(p) \in Nat /\ Len(q) = Len(p) + 1 /\ q[Len(p) + 1] = n
      /\ \A i \in 1..Len(p) : q[i] = p[i]
  OBVIOUS
<1>. HIDE DEF q
<1>2. q # << >> /\ Len(q) - 1 = Len(p)
  BY <1>1
<1>3. Front(q) = p
  <2>1. Front(q) \in Seq(S) /\ Len(Front(q)) = Len(p) /\ \A i \in 1..Len(p) : Front(q)[i] = q[i]
    BY <1>1, <1>2, FrontAndLast
  <2>. QED  BY <1>1, <2>1, SeqEqual
<1>4. Last(q) = n
  BY <1>1 DEF Last
<1>. QED  BY <1>1, <1>2, <1>3, <1>4 DEF q

\* Appending to the second of two sequences is appending to both.
LEMMA AppendBehind ==
  ASSUME NEW S, NEW a \in Seq(S), NEW p \in Seq(S), NEW n \in S
  PROVE  a \o Append(p, n) = Append(a \o p, n) /\ a \o p \in Seq(S)
<1> DEFINE x == a \o p
           y == Append(p, n)
           k == Len(a)
           m == Len(p)
<1>1. /\ x \in Seq(S) /\ Len(x) = k + m /\ k \in Nat /\ m \in Nat
      /\ \A i \in 1..k : x[i] = a[i]
      /\ \A i \in 1..m : x[k + i] = p[i]
  OBVIOUS
<1>2. y \in Seq(S) /\ Len(y) = m + 1 /\ y[m + 1] = n /\ \A i \in 1..m : y[i] = p[i]
  OBVIOUS
<1>. HIDE DEF x, y, m
<1>3. /\ a \o y \in Seq(S) /\ Len(a \o y) = k + (m + 1)
      /\ \A i \in 1..k : (a \o y)[i] = a[i]
      /\ \A i \in 1..(m + 1) : (a \o y)[k + i] = y[i]
  BY <1>2
<1>. HIDE DEF k
<1>4. /\ Append(x, n) \in Seq(S) /\ Len(Append(x, n)) = k + m + 1 /\ Append(x, n)[k + m + 1] = n
      /\ \A i \in 1..(k + m) : Append(x, n)[i] = x[i]
  BY <1>1
<1>5. ASSUME NEW i \in 1..(k + m + 1) PROVE (a \o y)[i] = Append(x, n)[i]
  <2>1. CASE i \in 1..k
    <3>1. i \in 1..(k + m)
      BY <1>1, <2>1
    <3>. QED  BY <1>1, <1>3, <1>4, <2>1, <3>1
  <2>2. CASE i = k + m + 1
    <3>1. m + 1 \in 1..(m + 1) /\ i = k + (m + 1)
      BY <1>1, <2>2
    <3>. QED  BY <1>2, <1>3, <1>4, <2>2, <3>1
  <2>3. CASE i \notin 1..k /\ i # k + m + 1
    <3> DEFINE j == i - k
    <3>1. j \in 1..m /\ j \in 1..(m + 1) /\ i = k + j /\ i \in 1..(k + m)
      BY <1>1, <2>3
    <3>. HIDE DEF j
    <3>2. (a \o y)[i] = y[j] /\ y[j] = p[j]
      BY <1>2, <1>3, <3>1
    <3>3. Append(x, n)[i] = x[i] /\ x[i] = p[j]
      BY <1>1, <1>4, <3>1
    <3>. QED  BY <3>2, <3>3
  <2>. QED  BY <2>1, <2>2, <2>3
<1>6. k + (m + 1) = k + m + 1
  BY <1>1
<1>7. a \o y = Append(x, n)
  BY <1>3, <1>4, <1>5, <1>6, SeqEqual
<1>. QED  BY <1>1, <1>7 DEF x, y

-----------------------------------------------------------------------------
(* What a path of names resolves to, name by name. *)

\* g is what the first names resolve to, up to the n-th.
Trail(g, names, n) ==
  g = [k \in 0..n |-> IF k = 0 THEN Root ELSE Into(g[k - 1], names[k])]

\* A trail goes one name at a time,
LEMMA TrailSteps ==
  ASSUME NEW g, NEW names, NEW n \in Nat, Trail(g, names, n)
  PROVE  g[0] = Root /\ \A k \in 0..(n - 1) : g[k + 1] = Into(g[k], names[k + 1])
<1>1. \A k \in 0..n : g[k] = IF k = 0 THEN Root ELSE Into(g[k - 1], names[k])
  BY DEF Trail
<1>2. 0 \in 0..n /\ \A k \in 0..(n - 1) : k + 1 \in 0..n /\ k + 1 # 0 /\ (k + 1) - 1 = k
  OBVIOUS
<1>. QED  BY <1>1, <1>2

\* and what goes one name at a time is a trail.
LEMMA TrailMade ==
  ASSUME NEW g, NEW names, NEW n \in Nat, g = [k \in 0..n |-> g[k]], g[0] = Root,
         \A k \in 0..(n - 1) : g[k + 1] = Into(g[k], names[k + 1])
  PROVE  Trail(g, names, n)
<1>1. ASSUME NEW k \in 0..n, k # 0 PROVE g[k] = Into(g[k - 1], names[k])
  <2>1. k - 1 \in 0..(n - 1) /\ (k - 1) + 1 = k
    BY <1>1
  <2>. QED  BY <2>1
<1>2. \A k \in 0..n : g[k] = IF k = 0 THEN Root ELSE Into(g[k - 1], names[k])
  BY <1>1
<1>3. [k \in 0..n |-> g[k]] = [k \in 0..n |-> IF k = 0 THEN Root ELSE Into(g[k - 1], names[k])]
  BY <1>2
<1>. QED  BY <1>3 DEF Trail

\* There is a trail for every length.
LEMMA TrailExists ==
  ASSUME NEW names, NEW n \in Nat
  PROVE  \E g : Trail(g, names, n)
<1> DEFINE S == { m \in Nat : \E g : Trail(g, names, m) }
<1>1. 0 \in S
  <2> DEFINE g == [k \in 0..0 |-> Root]
  <2>1. g = [k \in 0..0 |-> g[k]] /\ g[0] = Root
    OBVIOUS
  <2>2. Trail(g, names, 0)
    <3>. HIDE DEF g
    <3>1. \A k \in 0..(0 - 1) : g[k + 1] = Into(g[k], names[k + 1])
      OBVIOUS
    <3>. QED  BY <2>1, <3>1, TrailMade
  <2>. QED  BY <2>2
<1>2. ASSUME NEW m \in Nat, m \in S PROVE m + 1 \in S
  <2>1. PICK g : Trail(g, names, m)
    BY <1>2
  <2>2. g[0] = Root /\ \A k \in 0..(m - 1) : g[k + 1] = Into(g[k], names[k + 1])
    BY <2>1, TrailSteps
  <2> DEFINE h == [k \in 0..(m + 1) |-> IF k = m + 1 THEN Into(g[m], names[m + 1]) ELSE g[k]]
  <2>3. h[0] = Root /\ h[m + 1] = Into(g[m], names[m + 1]) /\ \A k \in 0..m : h[k] = g[k]
    BY <2>2
  <2>4. h = [k \in 0..(m + 1) |-> h[k]]
    OBVIOUS
  <2>. HIDE DEF h
  <2>5. ASSUME NEW k \in 0..((m + 1) - 1) PROVE h[k + 1] = Into(h[k], names[k + 1])
    <3>1. CASE k = m
      BY <2>3, <3>1
    <3>2. CASE k # m
      <4>1. k \in 0..(m - 1) /\ k \in 0..m /\ k + 1 \in 0..m
        BY <3>2
      <4>. QED  BY <2>2, <2>3, <4>1
    <3>. QED  BY <3>1, <3>2
  <2>6. Trail(h, names, m + 1)
    <3>1. m + 1 \in Nat
      OBVIOUS
    <3>. QED  BY <2>3, <2>4, <2>5, <3>1, TrailMade
  <2>. QED  BY <2>6
<1>3. Nat \subseteq S
  <2>. HIDE DEF S
  <2>. QED  BY <1>1, <1>2, Climb
<1>. QED  BY <1>3

\* What the first names resolve to does not depend on those behind them.
LEMMA TrailsAgree ==
  ASSUME NEW a, NEW b, NEW m \in Nat, NEW n \in Nat, m <= n,
         \A k \in 1..m : a[k] = b[k],
         NEW g, Trail(g, a, m), NEW h, Trail(h, b, n)
  PROVE  g[m] = h[m]
<1> DEFINE S == { k \in Nat : k <= m => g[k] = h[k] }
<1>1. g[0] = Root /\ h[0] = Root
  BY TrailSteps
<1>2. ASSUME NEW k \in Nat, k \in S PROVE k + 1 \in S
  <2> SUFFICES ASSUME k + 1 <= m PROVE g[k + 1] = h[k + 1]
    OBVIOUS
  <2>1. k \in 0..(m - 1) /\ k \in 0..(n - 1) /\ k + 1 \in 1..m /\ k <= m
    OBVIOUS
  <2>2. g[k] = h[k] /\ a[k + 1] = b[k + 1]
    BY <1>2, <2>1
  <2>3. g[k + 1] = Into(g[k], a[k + 1]) /\ h[k + 1] = Into(h[k], b[k + 1])
    BY <2>1, TrailSteps
  <2>. QED  BY <2>2, <2>3
<1>3. Nat \subseteq S
  <2>1. 0 \in S
    BY <1>1
  <2>. HIDE DEF S
  <2>. QED  BY <1>2, <2>1, Climb
<1>. QED  BY <1>3

\* Resolve is the end of the trail of all the names.
LEMMA ResolveTrail ==
  ASSUME NEW p \in Path
  PROVE  \E g : Trail(g, p, Len(p)) /\ Resolve(p) = g[Len(p)]
<1> DEFINE g == CHOOSE f : Trail(f, p, Len(p))
<1>1. Trail(g, p, Len(p))
  BY TrailExists DEF Path
<1>2. Resolve(p) = g[Len(p)]
  BY DEF Resolve, Trail
<1>. QED  BY <1>1, <1>2

\* Resolving goes one name at a time.
LEMMA ResolveEmpty == Resolve(<< >>) = Root
<1>1. << >> \in Path /\ Len(<< >>) = 0
  BY DEF Path
<1>2. PICK g : Trail(g, << >>, 0) /\ Resolve(<< >>) = g[0]
  BY <1>1, ResolveTrail
<1>. QED  BY <1>2, TrailSteps

\* One more name goes one step further.
LEMMA ResolveAppend ==
  ASSUME NEW p \in Path, NEW n \in STRING
  PROVE  Resolve(Append(p, n)) = Into(Resolve(p), n)
<1> DEFINE q == Append(p, n)
<1>1. q \in Path /\ Len(p) \in Nat /\ Len(q) = Len(p) + 1 /\ q[Len(p) + 1] = n
      /\ \A i \in 1..Len(p) : q[i] = p[i]
  BY AppendFacts DEF Path
<1>. HIDE DEF q
<1>2. PICK g : Trail(g, p, Len(p)) /\ Resolve(p) = g[Len(p)]
  BY ResolveTrail
<1>3. PICK h : Trail(h, q, Len(q)) /\ Resolve(q) = h[Len(q)]
  BY <1>1, ResolveTrail
<1>4. g[Len(p)] = h[Len(p)]
  <2>1. Len(p) <= Len(q) /\ Len(q) \in Nat
    BY ONLY <1>1
  <2>2. \A i \in 1..Len(p) : p[i] = q[i]
    BY <1>1
  <2> DEFINE m == Len(p)
             k == Len(q)
  <2>3. m \in Nat /\ k \in Nat /\ m <= k /\ (\A i \in 1..m : p[i] = q[i])
        /\ Trail(g, p, m) /\ Trail(h, q, k)
    BY <1>1, <1>2, <1>3, <2>1, <2>2
  <2>. HIDE DEF m, k
  <2>4. g[m] = h[m]
    BY ONLY <2>3, TrailsAgree
  <2>. QED  BY <2>4 DEF m
<1>5. h[Len(p) + 1] = Into(h[Len(p)], q[Len(p) + 1])
  <2> DEFINE m == Len(p)
             k == Len(q)
  <2>1. m \in Nat /\ k = m + 1
    BY <1>1
  <2>. HIDE DEF m, k
  <2>2. k \in Nat /\ m \in 0..(k - 1)
    BY ONLY <2>1
  <2>3. Trail(h, q, k)
    BY <1>3 DEF k
  <2>4. h[m + 1] = Into(h[m], q[m + 1])
    BY ONLY <2>2, <2>3, TrailSteps
  <2>. QED  BY <2>4 DEF m
<1>. QED  BY <1>1, <1>2, <1>3, <1>4, <1>5 DEF q

\* What one more name makes of a field: nothing known, or the field of that name.
Fields(r, n) == getFieldByName(r.type, n)
The(r, n) == CHOOSE f \in Fields(r, n) : TRUE

\* Nothing is known behind a name that is no field,
LEMMA IntoUnknown ==
  ASSUME NEW r, NEW n, "known" \in DOMAIN r, r.known \in BOOLEAN, ~(r.known /\ Fields(r, n) # {})
  PROVE  "known" \in DOMAIN Into(r, n) /\ Into(r, n).known = FALSE
<1>1. Into(r, n) = [r EXCEPT !.known = FALSE]
  BY DEF Into, Fields
<1>. QED  BY <1>1

\* and a field found is the type's.
LEMMA IntoFound ==
  ASSUME NEW r, NEW n, r.known, Fields(r, n) # {}
  PROVE  /\ Into(r, n) = [type |-> Schema[r.type][The(r, n)].msg, path |-> Append(r.path, The(r, n)),
                          known |-> TRUE, field |-> Schema[r.type][The(r, n)]]
         /\ The(r, n) \in STRING /\ r.type \in DOMAIN Schema
<1>1. The(r, n) \in Fields(r, n)
  BY DEF The
<1>2. r.type \in DOMAIN Schema /\ Fields(r, n) \subseteq DOMAIN Schema[r.type]
  BY <1>1 DEF Fields, getFieldByName
<1>3. The(r, n) \in STRING
  BY <1>1, <1>2, SchemaAssumption
<1>. QED  BY <1>2, <1>3 DEF Into, Fields, The

\* A path that resolves has a name for each of its own.
WellResolved(p) ==
  /\ "known" \in DOMAIN Resolve(p) /\ Resolve(p).known \in BOOLEAN
  /\ Resolve(p).known => Resolve(p).path \in Path /\ Len(Resolve(p).path) = Len(p)

\* Every path that resolves has as many names as it was given.
LEMMA AllWellResolved == \A p \in Path : WellResolved(p)
<1> DEFINE S == { k \in Nat : \A p \in Path : Len(p) = k => WellResolved(p) }
<1>1. 0 \in S
  <2> SUFFICES ASSUME NEW p \in Path, Len(p) = 0 PROVE WellResolved(p)
    OBVIOUS
  <2>1. p = << >> /\ << >> \in Path
    BY DEF Path
  <2>2. Resolve(p) = Root /\ Len(<< >>) = 0
    BY <2>1, ResolveEmpty
  <2>3. "known" \in DOMAIN Root /\ Root.known = TRUE /\ Root.path = << >>
    BY DEF Root
  <2>. QED  BY <2>1, <2>2, <2>3 DEF WellResolved
<1>2. ASSUME NEW k \in Nat, k \in S PROVE k + 1 \in S
  <2> SUFFICES ASSUME NEW p \in Path, Len(p) = k + 1 PROVE WellResolved(p)
    OBVIOUS
  <2> DEFINE a == Front(p)
             n == Last(p)
             r == Resolve(a)
  <2>1. a \in Path /\ n \in STRING /\ Len(a) = k /\ p = Append(a, n)
    <3>1. p # << >>
      BY DEF Path
    <3>. QED  BY <3>1, FrontAndLast DEF Path
  <2>. HIDE DEF a, n
  <2>2. WellResolved(a) /\ Resolve(p) = Into(r, n)
    BY <1>2, <2>1, ResolveAppend
  <2>3. "known" \in DOMAIN r /\ r.known \in BOOLEAN /\ (r.known => r.path \in Path /\ Len(r.path) = k)
    BY <2>1, <2>2 DEF WellResolved
  <2>. HIDE DEF r
  <2>4. CASE r.known /\ Fields(r, n) # {}
    <3>1. Into(r, n).path = Append(r.path, The(r, n)) /\ Into(r, n).known = TRUE
          /\ "known" \in DOMAIN Into(r, n) /\ The(r, n) \in STRING
      BY <2>4, IntoFound
    <3>2. Append(r.path, The(r, n)) \in Path /\ Len(Append(r.path, The(r, n))) = k + 1
      BY <2>3, <2>4, <3>1, AppendFacts DEF Path
    <3>3. "known" \in DOMAIN Resolve(p) /\ Resolve(p).known = TRUE /\ Resolve(p).path = Append(r.path, The(r, n))
      BY <2>2, <3>1
    <3>4. Resolve(p).path \in Path /\ Len(Resolve(p).path) = k + 1
      BY <3>2, <3>3
    <3>. HIDE DEF r
    <3>5. Resolve(p).known \in BOOLEAN /\ (Resolve(p).known => Resolve(p).path \in Path /\ Len(Resolve(p).path) = Len(p))
      BY <3>3, <3>4
    <3>. QED  BY <3>3, <3>5 DEF WellResolved
  <2>5. CASE ~(r.known /\ Fields(r, n) # {})
    BY <2>2, <2>3, <2>5, IntoUnknown DEF WellResolved
  <2>. QED  BY <2>4, <2>5
<1>3. Nat \subseteq S
  <2>. HIDE DEF S
  <2>. QED  BY <1>1, <1>2, Climb
<1>4. \A p \in Path : Len(p) \in Nat
  BY DEF Path
<1>. QED  BY <1>3, <1>4

-----------------------------------------------------------------------------
(* The fields of a body.  b is the field the body is for, t its tree. *)

\* What a path of JSON names below the body resolves to, and its name in the mask.
At(b, p) == Resolve(b \o p)
NameOf(b, p) == SubSeq(At(b, p).path, Len(b) + 1, Len(At(b, p).path))

\* The search goes into a field that neither stands for what is in it nor is a Struct.
Opens(field) == ~AsWhole(field) /\ field.msg # "Struct"

TreeOk(b, t) ==
  /\ b \in Path /\ Resolve(b).known /\ << >> \in DOMAIN t /\ DOMAIN t \subseteq Path
  /\ \A p \in DOMAIN t : p # << >> => Front(p) \in DOMAIN t /\ t[Front(p)] = "object"

\* The root of the tree is the field the body is for.
LEMMA AtEmpty ==
  ASSUME NEW b \in Path, Resolve(b).known
  PROVE  << >> \in Path /\ At(b, << >>) = Resolve(b) /\ NameOf(b, << >>) = << >>
<1>1. b \o << >> = b /\ << >> \in Path /\ Len(b) \in Nat
  BY DEF Path
<1>2. Resolve(b).path \in Path /\ Len(Resolve(b).path) = Len(b)
  BY AllWellResolved DEF WellResolved
<1>3. SubSeq(Resolve(b).path, Len(b) + 1, Len(b)) = << >>
  BY <1>1, SubSeqEmpty
<1>. QED  BY <1>1, <1>2, <1>3 DEF At, NameOf

\* A known node of the tree has a name as long as its path.
LEMMA AtFacts ==
  ASSUME NEW b \in Path, NEW p \in Path
  PROVE  /\ "known" \in DOMAIN At(b, p) /\ At(b, p).known \in BOOLEAN
         /\ At(b, p).known => /\ NameOf(b, p) \in Path /\ Len(NameOf(b, p)) = Len(p)
                              /\ At(b, p).path \in Path /\ Len(At(b, p).path) = Len(b) + Len(p)
<1> DEFINE q == b \o p
           r == Resolve(q)
<1>1. q \in Path /\ Len(q) = Len(b) + Len(p) /\ Len(b) \in Nat /\ Len(p) \in Nat
  BY DEF Path
<1>. HIDE DEF q
<1>2. "known" \in DOMAIN r /\ r.known \in BOOLEAN
      /\ (r.known => r.path \in Path /\ Len(r.path) = Len(b) + Len(p))
  BY <1>1, AllWellResolved DEF WellResolved
<1>3. At(b, p) = r
  BY DEF At, q
<1>4. ASSUME r.known
      PROVE  NameOf(b, p) \in Path /\ Len(NameOf(b, p)) = Len(p)
  <2> DEFINE s == r.path
             m == Len(b) + 1
             n == Len(b) + Len(p)
  <2>1. s \in Path /\ Len(s) = n /\ m \in Nat /\ n \in Nat /\ m >= 1 /\ n - m + 1 = Len(p) /\ Len(p) \in Nat
    BY <1>1, <1>2, <1>4
  <2>2. NameOf(b, p) = SubSeq(s, m, n)
    BY <1>3, <2>1 DEF NameOf
  <2>. HIDE DEF s, m, n
  <2>3. SubSeq(s, m, n) \in Path
    BY <2>1 DEF Path
  <2>4. Len(SubSeq(s, m, n)) = Len(p)
    BY <2>1 DEF Path
  <2>. QED  BY <2>2, <2>3, <2>4
<1>. QED  BY <1>2, <1>3, <1>4

\* One more name.
LEMMA AtAppend ==
  ASSUME NEW b \in Path, NEW p \in Path, NEW n \in STRING
  PROVE  /\ At(b, Append(p, n)) = Into(At(b, p), n)
         /\ At(b, Append(p, n)).known <=> At(b, p).known /\ Fields(At(b, p), n) # {}
         /\ At(b, Append(p, n)).known =>
              LET f == The(At(b, p), n) IN
              /\ NameOf(b, Append(p, n)) = Append(NameOf(b, p), f)
              /\ At(b, Append(p, n)).field = Schema[At(b, p).type][f]
              /\ At(b, Append(p, n)).type = Schema[At(b, p).type][f].msg
              /\ At(b, p).type \in DOMAIN Schema
<1> DEFINE q == Append(p, n)
           r == At(b, p)
           f == The(r, n)
<1>1. At(b, q) = Into(r, n)
  <2>1. b \o q = Append(b \o p, n) /\ b \o p \in Path
    BY AppendBehind DEF Path
  <2>. QED  BY <2>1, ResolveAppend DEF At
<1>2. "known" \in DOMAIN r /\ r.known \in BOOLEAN
  BY AtFacts
<1>. HIDE DEF q, r
<1>3. At(b, q).known <=> r.known /\ Fields(r, n) # {}
  <2>1. CASE r.known /\ Fields(r, n) # {}
    <3>1. Into(r, n).known = TRUE
      BY <2>1, IntoFound
    <3>. QED  BY <1>1, <2>1, <3>1
  <2>2. CASE ~(r.known /\ Fields(r, n) # {})
    <3>1. Into(r, n).known = FALSE
      BY <1>2, <2>2, IntoUnknown
    <3>. QED  BY <1>1, <1>2, <2>2, <3>1
  <2>. QED  BY <2>1, <2>2
<1>4. ASSUME At(b, q).known
      PROVE  /\ NameOf(b, q) = Append(NameOf(b, p), f) /\ At(b, q).field = Schema[r.type][f]
             /\ At(b, q).type = Schema[r.type][f].msg /\ r.type \in DOMAIN Schema
  <2>1. /\ At(b, q) = [type |-> Schema[r.type][f].msg, path |-> Append(r.path, f), known |-> TRUE,
                       field |-> Schema[r.type][f]]
        /\ f \in STRING /\ r.type \in DOMAIN Schema /\ r.known
    BY <1>1, <1>3, <1>4, IntoFound
  <2>2. r.path \in Path /\ Len(r.path) = Len(b) + Len(p) /\ Len(b) \in Nat /\ Len(p) \in Nat
    BY <2>1, AtFacts DEF r, Path
  <2>3. NameOf(b, q) = SubSeq(Append(r.path, f), Len(b) + 1, Len(Append(r.path, f)))
        /\ NameOf(b, p) = SubSeq(r.path, Len(b) + 1, Len(r.path))
    <3>1. At(b, q).path = Append(r.path, f)
      BY <2>1
    <3>. HIDE DEF f
    <3>. QED  BY <3>1 DEF NameOf, r
  <2>5. At(b, q).field = Schema[r.type][f] /\ At(b, q).type = Schema[r.type][f].msg
    BY <2>1
  <2>. HIDE DEF f
  <2>4. SubSeq(Append(r.path, f), Len(b) + 1, Len(Append(r.path, f)))
          = Append(SubSeq(r.path, Len(b) + 1, Len(r.path)), f)
    <3> DEFINE s == r.path
               u == Append(s, f)
               m == Len(b) + 1
               k == Len(s)
               x == SubSeq(u, m, k + 1)
               y == SubSeq(s, m, k)
    <3>1. s \in Path /\ f \in STRING /\ m \in Nat /\ k \in Nat /\ m >= 1 /\ m <= k + 1 /\ k = Len(s)
      BY <2>1, <2>2
    <3>. HIDE DEF s, m, k
    <3>2. u \in Path /\ Len(u) = k + 1 /\ u[k + 1] = f /\ \A i \in 1..k : u[i] = s[i]
      BY <3>1, AppendFacts DEF Path
    <3>. HIDE DEF u
    <3>3. x \in Path /\ Len(x) = k + 1 - m + 1 /\ \A i \in 1..(k + 1 - m + 1) : x[i] = u[m + i - 1]
      BY <3>1, <3>2 DEF Path
    <3>4. y \in Path /\ Len(y) = k - m + 1 /\ \A i \in 1..(k - m + 1) : y[i] = s[m + i - 1]
      BY <3>1 DEF Path
    <3>. HIDE DEF x, y
    <3>5. Append(y, f) \in Path /\ Len(Append(y, f)) = k + 1 - m + 1
          /\ Append(y, f)[k - m + 1 + 1] = f /\ \A i \in 1..(k - m + 1) : Append(y, f)[i] = y[i]
      <4> DEFINE j == k - m + 1
      <4>1. j = Len(y) /\ k + 1 - m + 1 = j + 1 /\ y \in Path
        BY <3>1, <3>4
      <4>. HIDE DEF j
      <4>2. Append(y, f) \in Path /\ Len(Append(y, f)) = j + 1
            /\ Append(y, f)[j + 1] = f /\ \A i \in 1..j : Append(y, f)[i] = y[i]
        BY <3>1, <4>1, AppendFacts DEF Path
      <4>. QED  BY <4>1, <4>2 DEF j
    <3>6. ASSUME NEW i \in 1..(k + 1 - m + 1) PROVE x[i] = Append(y, f)[i]
      <4>1. CASE i = k - m + 1 + 1
        <5>1. m + i - 1 = k + 1
          BY <3>1, <4>1
        <5>. QED  BY <3>2, <3>3, <3>5, <4>1, <5>1
      <4>2. CASE i # k - m + 1 + 1
        <5>1. i \in 1..(k - m + 1) /\ m + i - 1 \in 1..k
          BY <3>1, <4>2
        <5>. QED  BY <3>2, <3>3, <3>4, <3>5, <5>1
      <4>. QED  BY <4>1, <4>2
    <3>7. x = Append(y, f)
      BY <3>3, <3>5, <3>6, SeqEqual DEF Path
    <3>. QED  BY <3>2, <3>7 DEF s, u, m, k, x, y
  <2>. QED  BY <2>1, <2>3, <2>4, <2>5
<1>. QED  BY <1>1, <1>3, <1>4 DEF q, r, f

-----------------------------------------------------------------------------
(* What the search visits, and what it finds. *)

\* The nodes visited: a field on the way that the search does not go into stops it.
Visits(b, t, p) ==
  p \in DOMAIN t /\ \A i \in 1..Len(p) :
    At(b, SubSeq(p, 1, i)).known /\ Opens(At(b, SubSeq(p, 1, i)).field)

\* The known children of nodes visited.
Found(b, t) == { p \in DOMAIN t : p # << >> /\ Visits(b, t, Front(p)) /\ At(b, p).known }

\* What a field found gives to the mask.
Gift(b, t, p) ==
  LET field == At(b, p).field IN
  IF field.msg = "Struct"
  THEN { NameOf(b, Front(p)) \o SubSeq(l, Len(p), Len(l)) : l \in { m \in DOMAIN t : IsPrefix(p, m) /\ t[m] # "object" } }
  ELSE IF field.msg = "Any" THEN { << Last(p) >> }
  ELSE IF field.card # "one" \/ t[p] # "object" THEN { NameOf(b, p) } ELSE {}

\* The items of the n-th level, and the mask when the levels above it are done.
ItemFor(b, p) == [path |-> NameOf(b, p), at |-> p, type |-> At(b, p).type]
Level(b, t, n) == { p \in DOMAIN t : Len(p) = n /\ Visits(b, t, p) }
Items(b, t, n) == { ItemFor(b, p) : p \in Level(b, t, n) }
MaskUpTo(b, t, n) ==
  UNION { Gift(b, t, p) : p \in { q \in Found(b, t) : Len(q) < n \/ (Len(q) = n /\ ~Opens(At(b, q).field)) } }
FullMask(b, t) == UNION { Gift(b, t, p) : p \in Found(b, t) }

\* Prefixes.
LEMMA PrefixOfFront ==
  ASSUME NEW S, NEW p \in Seq(S), p # << >>, NEW i \in 1..(Len(p) - 1)
  PROVE  SubSeq(Front(p), 1, i) = SubSeq(p, 1, i)
<1>1. Front(p) \in Seq(S) /\ Len(p) \in Nat /\ Len(Front(p)) = Len(p) - 1
      /\ \A j \in 1..(Len(p) - 1) : Front(p)[j] = p[j]
  BY FrontAndLast
<1>2. i \in Nat /\ i <= Len(Front(p)) /\ i <= Len(p) /\ \A j \in 1..i : j \in 1..(Len(p) - 1)
  BY <1>1
<1> DEFINE F == Front(p)
           x == SubSeq(F, 1, i)
           y == SubSeq(p, 1, i)
<1>3. F \in Seq(S) /\ i <= Len(F)
  BY <1>1, <1>2
<1>. HIDE DEF F
<1>4. x \in Seq(S) /\ Len(x) = i /\ \A j \in 1..i : x[j] = F[j]
  BY <1>2, <1>3
<1>5. y \in Seq(S) /\ Len(y) = i /\ \A j \in 1..i : y[j] = p[j]
  BY <1>2
<1>. HIDE DEF x, y
<1>6. \A j \in 1..i : x[j] = y[j]
  BY <1>1, <1>2, <1>4, <1>5 DEF F
<1>7. x = y
  BY <1>4, <1>5, <1>6, SeqEqual
<1>. QED  BY <1>7 DEF x, y, F

\* A tree has all nodes above its nodes.
LEMMA TreeClosed ==
  ASSUME NEW b, NEW t, TreeOk(b, t), NEW p \in DOMAIN t, NEW i \in 0..Len(p)
  PROVE  SubSeq(p, 1, i) \in DOMAIN t
<1> DEFINE S == { k \in Nat : \A q \in DOMAIN t : Len(q) = i + k => SubSeq(q, 1, i) \in DOMAIN t }
<1>1. \A q \in DOMAIN t : q \in Seq(STRING) /\ Len(q) \in Nat /\ SubSeq(q, 1, Len(q)) = q
  BY SubSeqFull DEF TreeOk, Path
<1>2. i \in Nat
  BY <1>1
<1>3. 0 \in S
  <2>1. ASSUME NEW q \in DOMAIN t, Len(q) = i + 0 PROVE SubSeq(q, 1, i) \in DOMAIN t
    <3>1. Len(q) = i /\ SubSeq(q, 1, Len(q)) = q
      BY <1>1, <1>2, <2>1
    <3>. QED  BY <3>1
  <2>. QED  BY <2>1
<1>4. ASSUME NEW k \in Nat, k \in S PROVE k + 1 \in S
  <2> SUFFICES ASSUME NEW q \in DOMAIN t, Len(q) = i + (k + 1) PROVE SubSeq(q, 1, i) \in DOMAIN t
    OBVIOUS
  <2>1. q \in Seq(STRING) /\ q # << >>
    BY <1>1, <1>2
  <2>2. Front(q) \in DOMAIN t /\ Len(Front(q)) = i + k
    <3>1. Front(q) \in DOMAIN t
      BY <2>1 DEF TreeOk
    <3>2. Len(Front(q)) = Len(q) - 1
      BY <2>1, FrontAndLast
    <3>. QED  BY <1>2, <3>1, <3>2
  <2>3. SubSeq(Front(q), 1, i) \in DOMAIN t
    BY <1>4, <2>2
  <2>4. CASE i = 0
    <3>1. SubSeq(q, 1, 0) = << >>
      BY SubSeqEmpty
    <3>. QED  BY <2>4, <3>1 DEF TreeOk
  <2>5. CASE i # 0
    <3>1. i \in 1..(Len(q) - 1)
      BY <1>2, <2>5
    <3>. QED  BY <2>1, <2>3, <3>1, PrefixOfFront
  <2>. QED  BY <2>4, <2>5
<1>5. Nat \subseteq S
  <2>. HIDE DEF S
  <2>. QED  BY <1>3, <1>4, Climb
<1>6. Len(p) - i \in Nat /\ Len(p) = i + (Len(p) - i)
  BY <1>1, <1>2
<1>. QED  BY <1>5, <1>6

\* Visiting a node, nodes above it are visited.
LEMMA VisitsFront ==
  ASSUME NEW b, NEW t, TreeOk(b, t), NEW p \in DOMAIN t, p # << >>
  PROVE  Visits(b, t, p) <=> Visits(b, t, Front(p)) /\ At(b, p).known /\ Opens(At(b, p).field)
<1>1. p \in Seq(STRING) /\ Front(p) \in DOMAIN t /\ Len(p) \in Nat /\ Len(p) >= 1 /\ Len(Front(p)) = Len(p) - 1
  BY FrontAndLast DEF TreeOk, Path
<1>2. SubSeq(p, 1, Len(p)) = p /\ \A i \in 1..(Len(p) - 1) : SubSeq(Front(p), 1, i) = SubSeq(p, 1, i)
  BY <1>1, SubSeqFull, PrefixOfFront
<1> DEFINE Good(i) == At(b, SubSeq(p, 1, i)).known /\ Opens(At(b, SubSeq(p, 1, i)).field)
<1>3. Visits(b, t, Front(p)) <=> \A i \in 1..(Len(p) - 1) : Good(i)
  BY <1>1, <1>2 DEF Visits
<1>4. Visits(b, t, p) <=> \A i \in 1..Len(p) : Good(i)
  BY DEF Visits
<1>5. Good(Len(p)) <=> At(b, p).known /\ Opens(At(b, p).field)
  BY <1>2
<1>. HIDE DEF Good
<1>6. (\A i \in 1..Len(p) : Good(i)) <=> Good(Len(p)) /\ \A i \in 1..(Len(p) - 1) : Good(i)
  <2>1. \A i \in 1..Len(p) : i = Len(p) \/ i \in 1..(Len(p) - 1)
    BY <1>1
  <2>2. Len(p) \in 1..Len(p) /\ \A i \in 1..(Len(p) - 1) : i \in 1..Len(p)
    BY <1>1
  <2>. QED  BY <2>1, <2>2
<1>. QED  BY <1>3, <1>4, <1>5, <1>6

\* On the way to a node visited, every node is visited.
LEMMA VisitsPrefix ==
  ASSUME NEW b, NEW t, TreeOk(b, t), NEW p \in DOMAIN t, Visits(b, t, p), NEW i \in 0..Len(p)
  PROVE  SubSeq(p, 1, i) \in Level(b, t, i)
<1>1. p \in Seq(STRING) /\ i \in Nat /\ i <= Len(p) /\ Len(p) \in Nat
  BY DEF TreeOk, Path
<1> DEFINE q == SubSeq(p, 1, i)
<1>2. q \in DOMAIN t /\ q \in Seq(STRING)
  BY TreeClosed DEF TreeOk, Path
<1>3. Len(q) = i /\ \A j \in 1..i : q[j] = p[j]
  BY <1>1
<1>. HIDE DEF q
<1>4. ASSUME NEW j \in 1..i PROVE SubSeq(q, 1, j) = SubSeq(p, 1, j)
  <2> DEFINE x == SubSeq(q, 1, j)
             y == SubSeq(p, 1, j)
  <2>1. j \in Nat /\ j <= Len(q) /\ j <= Len(p) /\ \A k \in 1..j : k \in 1..i
    BY <1>1, <1>3
  <2>2. x \in Seq(STRING) /\ Len(x) = j /\ \A k \in 1..j : x[k] = q[k]
    BY <1>2, <2>1
  <2>3. y \in Seq(STRING) /\ Len(y) = j /\ \A k \in 1..j : y[k] = p[k]
    BY <1>1, <2>1
  <2>. HIDE DEF x, y
  <2>4. \A k \in 1..j : x[k] = y[k]
    BY <1>3, <2>1, <2>2, <2>3
  <2>5. x = y
    BY <2>2, <2>3, <2>4, SeqEqual
  <2>. QED  BY <2>5 DEF x, y
<1>5. Visits(b, t, q)
  <2>1. \A j \in 1..i : j \in 1..Len(p)
    BY <1>1
  <2>. QED  BY <1>2, <1>3, <1>4, <2>1 DEF Visits
<1>. QED  BY <1>2, <1>3, <1>5 DEF Level, q

\* The fields set by a body are those found.
LEMMA NoStructAbove ==
  ASSUME NEW b \in Path, NEW p \in Path, NEW n \in STRING, At(b, Append(p, n)).known, p # << >>
  PROVE  At(b, p).known /\ At(b, p).field.msg # "Struct"
<1>1. At(b, p).known /\ At(b, p).type \in DOMAIN Schema
  BY AtAppend
<1>2. At(b, p).type = At(b, p).field.msg
  <2>1. Front(p) \in Path /\ Last(p) \in STRING /\ p = Append(Front(p), Last(p))
    BY FrontAndLast DEF Path
  <2>2. At(b, Append(Front(p), Last(p))).known
    BY <1>1, <2>1
  <2> DEFINE a == Front(p)
             n_1 == Last(p)
             q == Append(a, n_1)
  <2>3. a \in Path /\ n_1 \in STRING /\ q = p
    BY <2>1
  <2>. HIDE DEF a, n_1
  <2>4. /\ At(b, q).field = Schema[At(b, a).type][The(At(b, a), n_1)]
        /\ At(b, q).type = Schema[At(b, a).type][The(At(b, a), n_1)].msg
    BY <1>1, <2>3, AtAppend
  <2>. QED  BY <2>3, <2>4
<1>. QED  BY <1>1, <1>2, SchemaAssumption

\* A child of a node is a node it is in front of.
LEMMA ChildFront ==
  ASSUME NEW p \in Path, NEW c \in Path
  PROVE  Len(c) = Len(p) + 1 /\ IsPrefix(p, c) <=> c # << >> /\ Front(c) = p
<1>1. Len(p) \in Nat /\ Len(c) \in Nat /\ SubSeq(p, 1, Len(p)) = p
  BY SubSeqFull DEF Path
<1>2. ASSUME Len(c) = Len(p) + 1, IsPrefix(p, c) PROVE c # << >> /\ Front(c) = p
  <2>1. c # << >> /\ Len(c) - 1 = Len(p)
    BY <1>1, <1>2
  <2>. QED  BY <1>1, <1>2, <2>1 DEF IsPrefix, Front
<1>3. ASSUME c # << >>, Front(c) = p PROVE Len(c) = Len(p) + 1 /\ IsPrefix(p, c)
  <2>1. Len(p) = Len(c) - 1
    BY <1>3, FrontAndLast DEF Path
  <2>2. Len(c) = Len(p) + 1 /\ Len(p) <= Len(c)
    BY <1>1, <2>1
  <2>. QED  BY <1>1, <1>3, <2>1, <2>2 DEF IsPrefix, Front
<1>. QED  BY <1>2, <1>3

\* The fields a body sets are those the search finds.
FieldsSet(b, t) ==
  { p \in DOMAIN t : p # << >> /\ At(b, p).known /\ \A i \in 1..(Len(p) - 1) : ~AsWhole(At(b, SubSeq(p, 1, i)).field) }

\* Both describe the same fields: nothing is found below a field that stands for all that is in it.
LEMMA FoundAreSet ==
  ASSUME NEW b, NEW t, TreeOk(b, t)
  PROVE  Found(b, t) = FieldsSet(b, t)
<1>0. b \in Path /\ Resolve(b).known /\ DOMAIN t \subseteq Path
  BY DEF TreeOk
<1> DEFINE Free(p) == \A i \in 1..(Len(p) - 1) : ~AsWhole(At(b, SubSeq(p, 1, i)).field)
           S == { k \in Nat : \A p \in DOMAIN t :
                    Len(p) = k + 1 /\ At(b, p).known => (Visits(b, t, Front(p)) <=> Free(p)) }
<1>1. 0 \in S
  <2> SUFFICES ASSUME NEW p \in DOMAIN t, Len(p) = 0 + 1, At(b, p).known
               PROVE  Visits(b, t, Front(p)) <=> Free(p)
    OBVIOUS
  <2>1. p \in Path /\ p # << >>
    <3>1. Len(p) = 1
      OBVIOUS
    <3>2. Len(<< >>) = 0
      OBVIOUS
    <3>3. p # << >>
      BY ONLY <3>1, <3>2
    <3>. QED  BY <1>0, <3>3
  <2>2. Front(p) \in DOMAIN t /\ Len(Front(p)) = 0
    <3>1. Front(p) \in DOMAIN t
      BY <2>1 DEF TreeOk
    <3>2. Len(Front(p)) = Len(p) - 1
      BY <2>1, FrontAndLast DEF Path
    <3>3. Len(p) = 1
      OBVIOUS
    <3>4. Len(Front(p)) = 0
      BY ONLY <3>2, <3>3
    <3>. QED  BY <3>1, <3>4
  <2>3. Visits(b, t, Front(p))
    BY <2>2 DEF Visits
  <2>4. Free(p)
    OBVIOUS
  <2>. QED  BY <2>3, <2>4
<1>2. ASSUME NEW k \in Nat, k \in S PROVE k + 1 \in S
  <2> SUFFICES ASSUME NEW p \in DOMAIN t, Len(p) = (k + 1) + 1, At(b, p).known
               PROVE  Visits(b, t, Front(p)) <=> Free(p)
    OBVIOUS
  <2> DEFINE a == Front(p)
             n == Last(p)
  <2>1. /\ p \in Path /\ p # << >> /\ a \in Path /\ n \in STRING /\ p = Append(a, n)
        /\ Len(a) = k + 1 /\ a # << >> /\ a \in DOMAIN t
    <3>1. p \in Path /\ p # << >>
      BY <1>0 DEF Path
    <3>2. a \in Path /\ n \in STRING /\ p = Append(a, n) /\ Len(a) = Len(p) - 1 /\ a \in DOMAIN t
      BY <3>1, FrontAndLast DEF TreeOk, Path
    <3>3. Len(a) = k + 1
      BY <3>2
    <3>4. a # << >>
      <4>. HIDE DEF a
      <4>. QED  BY <3>3
    <3>. QED  BY <3>1, <3>2, <3>3, <3>4
  <2>2. \A i \in 1..(Len(p) - 1) : SubSeq(a, 1, i) = SubSeq(p, 1, i)
    BY <2>1, PrefixOfFront DEF Path
  <2>. HIDE DEF a, n
  <2>3. At(b, a).known /\ At(b, a).field.msg # "Struct"
    BY <1>0, <2>1, NoStructAbove
  <2>4. Visits(b, t, Front(a)) <=> Free(a)
    BY <1>2, <2>1, <2>3
  <2>5. Visits(b, t, a) <=> Visits(b, t, Front(a)) /\ Opens(At(b, a).field)
    BY <2>1, <2>3, VisitsFront
  <2>6. Opens(At(b, a).field) <=> ~AsWhole(At(b, a).field)
    BY <2>3 DEF Opens
  <2>7. Free(p) <=> Free(a) /\ ~AsWhole(At(b, a).field)
    <3> DEFINE Bar(i) == AsWhole(At(b, SubSeq(p, 1, i)).field)
    <3>1. Len(p) - 1 = k + 1 /\ Len(a) - 1 = k /\ \A i \in 1..k : i \in 1..(k + 1)
      BY <2>1
    <3>2. SubSeq(a, 1, k + 1) = a
      BY <2>1, SubSeqFull DEF Path
    <3>3. Bar(k + 1) <=> AsWhole(At(b, a).field)
      <4>1. k + 1 \in 1..(Len(p) - 1)
        BY <3>1
      <4>2. SubSeq(p, 1, k + 1) = SubSeq(a, 1, k + 1)
        BY <2>2, <4>1
      <4>3. SubSeq(p, 1, k + 1) = a
        BY <3>2, <4>2
      <4>. QED  BY <4>3
    <3>4. Free(p) <=> \A i \in 1..(k + 1) : ~Bar(i)
      BY <3>1
    <3>5. Free(a) <=> \A i \in 1..k : ~Bar(i)
      BY <2>2, <3>1
    <3>. HIDE DEF Bar, Free
    <3>6. (\A i \in 1..(k + 1) : ~Bar(i)) <=> ~Bar(k + 1) /\ \A i \in 1..k : ~Bar(i)
      OBVIOUS
    <3>. QED  BY <3>3, <3>4, <3>5, <3>6
  <2>. HIDE DEF Free
  <2>8. Front(p) = a
    BY DEF a
  <2>. QED  BY <2>4, <2>5, <2>6, <2>7, <2>8
<1>3. Nat \subseteq S
  <2>. HIDE DEF S
  <2>. QED  BY <1>1, <1>2, Climb
<1>4. ASSUME NEW p \in DOMAIN t, p # << >>, At(b, p).known PROVE Visits(b, t, Front(p)) <=> Free(p)
  <2>1. Len(p) - 1 \in Nat /\ Len(p) = (Len(p) - 1) + 1
    BY <1>0, <1>4 DEF Path
  <2>. HIDE DEF Free
  <2>. QED  BY <1>3, <1>4, <2>1
<1>. QED  BY <1>4 DEF Found, FieldsSet

-----------------------------------------------------------------------------
(* The search of a body, level by level. *)

\* The body of a request is a tree for a field.
LEMMA TreeOfRequest ==
  ASSUME NEW r \in Requests
  PROVE  TreeOk(r.body, r.tree)
BY RequestsAssumption DEF RequestOk, TreeOk, Path

\* It starts at the field the body is for.
LEMMA LevelZero ==
  ASSUME NEW b, NEW t, TreeOk(b, t)
  PROVE  /\ Items(b, t, 0) = {[path |-> << >>, at |-> << >>, type |-> Resolve(b).type]}
         /\ MaskUpTo(b, t, 0) = {}
<1>1. b \in Path /\ Resolve(b).known /\ << >> \in DOMAIN t /\ DOMAIN t \subseteq Path
  BY DEF TreeOk
<1>2. \A p \in Path : Len(p) \in Nat /\ (Len(p) = 0 <=> p = << >>)
  BY DEF Path
<1>3. Visits(b, t, << >>)
  <2>1. Len(<< >>) = 0
    OBVIOUS
  <2>2. \A i \in 1..Len(<< >>) : FALSE
    BY <2>1
  <2>. QED  BY <1>1, <2>2 DEF Visits
<1>4. Level(b, t, 0) = {<< >>}
  BY <1>1, <1>2, <1>3 DEF Level
<1>5. ItemFor(b, << >>) = [path |-> << >>, at |-> << >>, type |-> Resolve(b).type]
  BY <1>1, AtEmpty DEF ItemFor
<1>6. \A q \in Found(b, t) : q \in Path /\ q # << >>
  BY <1>1 DEF Found
<1>7. \A q \in Found(b, t) : ~(Len(q) < 0) /\ Len(q) # 0
  BY <1>2, <1>6
<1>. QED  BY <1>4, <1>5, <1>7 DEF Items, MaskUpTo

\* The nodes of the next level are the children the search goes into.
LEMMA LevelNext ==
  ASSUME NEW b, NEW t, TreeOk(b, t), NEW n \in Nat
  PROVE  Level(b, t, n + 1) = { c \in Found(b, t) : Len(c) = n + 1 /\ Opens(At(b, c).field) }
<1>1. \A c \in DOMAIN t : Len(c) = n + 1 => c # << >>
  <2>1. Len(<< >>) = 0
    OBVIOUS
  <2>. QED  BY <2>1
<1>2. \A c \in DOMAIN t : c # << >> =>
        (Visits(b, t, c) <=> Visits(b, t, Front(c)) /\ At(b, c).known /\ Opens(At(b, c).field))
  BY VisitsFront
<1>. QED  BY <1>1, <1>2 DEF Level, Found

\* What is found a level below is the known children of the nodes visited.
LEMMA FoundBelow ==
  ASSUME NEW b, NEW t, TreeOk(b, t), NEW n \in Nat, NEW c \in DOMAIN t
  PROVE  /\ Len(c) = n + 1 /\ c \in Found(b, t) => At(b, c).known /\ Front(c) \in Level(b, t, n)
                                                  /\ Len(c) = Len(Front(c)) + 1 /\ IsPrefix(Front(c), c)
         /\ \A p \in Level(b, t, n) : Len(c) = Len(p) + 1 /\ IsPrefix(p, c) =>
              c # << >> /\ Front(c) = p /\ Len(c) = n + 1 /\ (At(b, c).known => c \in Found(b, t))
<1>1. DOMAIN t \subseteq Path /\ (c # << >> => Front(c) \in DOMAIN t)
  BY DEF TreeOk
<1>2. ASSUME Len(c) = n + 1, c \in Found(b, t)
      PROVE  At(b, c).known /\ Front(c) \in Level(b, t, n) /\ Len(c) = Len(Front(c)) + 1 /\ IsPrefix(Front(c), c)
  <2>1. c # << >> /\ Visits(b, t, Front(c)) /\ At(b, c).known
    BY <1>2 DEF Found
  <2>2. Len(c) = Len(Front(c)) + 1 /\ IsPrefix(Front(c), c)
    BY <1>1, <2>1, ChildFront
  <2>3. Len(Front(c)) = n
    <3>1. Front(c) \in Path
      BY <1>1, <2>1
    <3>2. Len(Front(c)) \in Nat
      BY <3>1 DEF Path
    <3> DEFINE l == Len(Front(c))
               k == Len(c)
    <3>3. l \in Nat /\ k = l + 1 /\ k = n + 1
      BY <1>2, <2>2, <3>2
    <3>. HIDE DEF l, k
    <3>4. l = n
      BY ONLY <3>3, n \in Nat
    <3>. QED  BY <3>4 DEF l
  <2>. QED  BY <1>1, <2>1, <2>2, <2>3 DEF Level
<1>3. ASSUME NEW p \in Level(b, t, n), Len(c) = Len(p) + 1, IsPrefix(p, c)
      PROVE  c # << >> /\ Front(c) = p /\ Len(c) = n + 1 /\ (At(b, c).known => c \in Found(b, t))
  <2>1. p \in Path /\ c \in Path /\ Len(p) = n /\ Visits(b, t, p)
    BY <1>1 DEF Level
  <2>2. c # << >> /\ Front(c) = p
    BY <1>3, <2>1, ChildFront
  <2>3. Len(c) = n + 1
    BY <1>3, <2>1
  <2>. QED  BY <2>1, <2>2, <2>3 DEF Found
<1>. QED  BY <1>2, <1>3

\* The same for a node and the path it is below.
LEMMA AtChild ==
  ASSUME NEW b \in Path, NEW p \in Path, NEW n \in STRING, NEW q, q = Append(p, n)
  PROVE  /\ At(b, q).known <=> At(b, p).known /\ Fields(At(b, p), n) # {}
         /\ At(b, q).known =>
              /\ NameOf(b, q) = Append(NameOf(b, p), The(At(b, p), n))
              /\ At(b, q).field = Schema[At(b, p).type][The(At(b, p), n)]
              /\ At(b, q).type = Schema[At(b, p).type][The(At(b, p), n)].msg
BY AtAppend

\* What the loop makes of a child that is no failure.
LEMMA ChildMade ==
  ASSUME NEW n \in Nat, req \in Requests,
         NEW p \in Level(req.body, req.tree, n), NEW c \in Children(p),
         MaskChild(ItemFor(req.body, p), c).is = "ok"
  PROVE  /\ c \in Found(req.body, req.tree) /\ Len(c) = n + 1
         /\ MaskChild(ItemFor(req.body, p), c).paths =
              IF Opens(At(req.body, c).field) THEN {} ELSE Gift(req.body, req.tree, c)
         /\ MaskChild(ItemFor(req.body, p), c).items =
              IF Opens(At(req.body, c).field) THEN {ItemFor(req.body, c)} ELSE {}
<1> DEFINE b == req.body
           t == req.tree
           i == ItemFor(b, p)
           m == MaskChild(i, c)
           r == At(b, p)
           l == Last(c)
           fs == Fields(r, l)
           f == The(r, l)
           field == Schema[r.type][f]
<1>1. TreeOk(b, t) /\ b \in Path /\ DOMAIN t \subseteq Path
  BY TreeOfRequest DEF TreeOk
<1>2. c \in DOMAIN t /\ Len(c) = Len(p) + 1 /\ IsPrefix(p, c)
  BY DEF Children
<1>3. c # << >> /\ Front(c) = p /\ Len(c) = n + 1 /\ (At(b, c).known => c \in Found(b, t))
  BY <1>1, <1>2, FoundBelow
<1>4. p \in Path /\ c \in Path /\ l \in STRING /\ c = Append(p, l) /\ Visits(b, t, p)
  <2>1. p \in Path /\ c \in Path /\ Visits(b, t, p)
    BY <1>1, <1>2 DEF Level
  <2>. QED  BY <1>3, <2>1, FrontAndLast DEF Path
<1>5. r.known
  <2>1. CASE p = << >>
    BY <1>1, <2>1, AtEmpty DEF TreeOk
  <2>2. CASE p # << >>
    <3>1. p \in DOMAIN t
      BY DEF Level
    <3>. QED  BY <1>1, <1>4, <2>2, <3>1, VisitsFront
  <2>. QED  BY <2>1, <2>2
<1>6. i.path = NameOf(b, p) /\ i.type = r.type
  BY DEF ItemFor
<1>7. getFieldByName(i.type, Last(c)) = fs /\ (CHOOSE g \in fs : TRUE) = f
  BY <1>6 DEF Fields, The
<1>8. /\ At(b, c).known <=> r.known /\ fs # {}
      /\ At(b, c).known => /\ NameOf(b, c) = Append(NameOf(b, p), f) /\ At(b, c).field = field
                           /\ At(b, c).type = field.msg
  <2>1. /\ At(b, c).known <=> At(b, p).known /\ Fields(At(b, p), l) # {}
        /\ At(b, c).known =>
             /\ NameOf(b, c) = Append(NameOf(b, p), The(At(b, p), l))
             /\ At(b, c).field = Schema[At(b, p).type][The(At(b, p), l)]
             /\ At(b, c).type = Schema[At(b, p).type][The(At(b, p), l)].msg
    <3>1. b \in Path /\ p \in Path /\ c = Append(p, l) /\ l \in STRING
      BY <1>1, <1>4
    <3>. HIDE DEF b, l
    <3>. QED  BY ONLY <3>1, AtChild
  <2>. QED  BY <2>1
<1>. HIDE DEF fs, f, r, l, i
<1>9. fs # {} /\ m.is = "ok"
  <2>1. m.is = "ok"
    BY DEF i
  <2> SUFFICES ASSUME fs = {} PROVE FALSE
    BY <2>1
  <2>2. m = Failing("error")
    BY <1>7, Zenon DEF MaskChild
  <2>. QED  BY <2>1, <2>2 DEF Failing
<1>10. /\ At(b, c).known /\ c \in Found(b, t) /\ NameOf(b, c) = Append(NameOf(b, p), f)
       /\ At(b, c).field = field /\ At(b, c).type = field.msg
  BY <1>3, <1>5, <1>8, <1>9 DEF r
<1>11. /\ field.msg = "Struct" => m = Gives({ i.path \o q : q \in buildPathsBlindly(c) })
       /\ field.msg = "Any" => m = MaskAny(c)
       /\ field.msg \notin {"Struct", "Any"} /\ field.card # "one" => m = Gives({ Append(i.path, f) })
       /\ field.msg \notin {"Struct", "Any"} /\ field.card = "one" =>
            m = [is |-> "ok", paths |-> {}, items |-> {[path |-> Append(i.path, f), at |-> c, type |-> field.msg]}]
  <2>1. Schema[i.type][f] = field
    BY <1>6
  <2>2. m = CASE field.msg = "Struct" -> Gives({ i.path \o q : q \in buildPathsBlindly(c) })
              [] field.msg = "Any" -> MaskAny(c)
              [] field.msg \notin {"Struct", "Any"} /\ field.card # "one" -> Gives({ Append(i.path, f) })
              [] field.msg \notin {"Struct", "Any"} /\ field.card = "one" ->
                   [is |-> "ok", paths |-> {}, items |-> {[path |-> Append(i.path, f), at |-> c, type |-> field.msg]}]
    BY <1>7, <1>9, <2>1, Zenon DEF MaskChild
  <2>. HIDE DEF m, field
  <2>3. CASE field.msg = "Struct"
    BY <2>2, <2>3
  <2>4. CASE field.msg = "Any"
    BY <2>2, <2>4
  <2>5. CASE field.msg \notin {"Struct", "Any"} /\ field.card # "one"
    BY <2>2, <2>5
  <2>6. CASE field.msg \notin {"Struct", "Any"} /\ field.card = "one"
    BY <2>2, <2>6
  <2>. QED  BY <2>3, <2>4, <2>5, <2>6
<1> DEFINE Goal == /\ m.paths = IF Opens(At(b, c).field) THEN {} ELSE Gift(b, t, c)
                   /\ m.items = IF Opens(At(b, c).field) THEN {ItemFor(b, c)} ELSE {}
<1>12. ASSUME field.msg = "Struct" PROVE Goal
  <2>1. m = Gives({ NameOf(b, p) \o q : q \in buildPathsBlindly(c) })
    BY <1>6, <1>11, <1>12
  <2>2. ~Opens(At(b, c).field)
    BY <1>10, <1>12 DEF Opens
  <2>3. { NameOf(b, p) \o q : q \in buildPathsBlindly(c) } = Gift(b, t, c)
    <3>1. Gift(b, t, c) = { NameOf(b, p) \o SubSeq(q, Len(c), Len(q)) :
                              q \in { u \in DOMAIN t : IsPrefix(c, u) /\ t[u] # "object" } }
      BY <1>3, <1>10, <1>12 DEF Gift
    <3>. QED  BY <3>1 DEF buildPathsBlindly, IsObject
  <2>4. m = Gives(Gift(b, t, c))
    BY <2>1, <2>3
  <2>. HIDE DEF m
  <2>. QED  BY <2>2, <2>4 DEF Gives
<1>13. ASSUME field.msg = "Any" PROVE Goal
  <2>1. m = MaskAny(c)
    BY <1>11, <1>13
  <2>2. ~Opens(At(b, c).field) /\ Gift(b, t, c) = {<< Last(c) >>}
    BY <1>10, <1>13 DEF Opens, AsWhole, Gift
  <2>3. m = Gives({<< Last(c) >>})
    <3>1. MaskAny(c).is = "ok"
      BY <1>9, <2>1
    <3>2. MaskAny(c) \in {Failing("panic"), Failing("error"), Gives({<< Last(c) >>})}
      BY DEF MaskAny
    <3>3. Failing("panic").is = "panic" /\ Failing("error").is = "error"
      BY DEF Failing
    <3>. QED  BY <2>1, <3>1, <3>2, <3>3
  <2>. QED  BY <2>2, <2>3 DEF Gives
<1>14. ASSUME field.msg \notin {"Struct", "Any"} /\ field.card # "one" PROVE Goal
  <2>1. m = Gives({ NameOf(b, c) })
    BY <1>6, <1>10, <1>11, <1>14
  <2>2. ~Opens(At(b, c).field) /\ Gift(b, t, c) = { NameOf(b, c) }
    BY <1>10, <1>14 DEF Opens, AsWhole, Gift
  <2>. QED  BY <2>1, <2>2 DEF Gives
<1>15. ASSUME field.msg \notin {"Struct", "Any"} /\ field.card = "one" PROVE Goal
  <2>1. m = [is |-> "ok", paths |-> {}, items |-> {ItemFor(b, c)}]
    BY <1>6, <1>10, <1>11, <1>15 DEF ItemFor
  <2>2. Opens(At(b, c).field)
    BY <1>10, <1>15 DEF Opens, AsWhole
  <2>. QED  BY <2>1, <2>2
<1>16. Goal
  BY <1>12, <1>13, <1>14, <1>15
<1>. QED  BY <1>3, <1>10, <1>16 DEF i

\* What the loop makes of a level, and the leaves of it.
LevelMade == UNION { { MaskChild(i, c) : c \in Children(i.at) } : i \in todo }
LevelLeaves == { i.path : i \in { j \in todo : ~IsObject(j.at) } } \ {<< >>}
NextItems == UNION { r.items : r \in LevelMade }
NextMask == mask \cup LevelLeaves \cup UNION { r.paths : r \in LevelMade }

\* One level: what it adds to the mask, and the items it leaves.
LEMMA LevelDone ==
  ASSUME NEW n \in Nat, req \in Requests,
         todo = Items(req.body, req.tree, n), mask = MaskUpTo(req.body, req.tree, n),
         \A r \in LevelMade : r.is = "ok"
  PROVE  NextItems = Items(req.body, req.tree, n + 1) /\ NextMask = MaskUpTo(req.body, req.tree, n + 1)
<1> DEFINE b == req.body
           t == req.tree
           L == Level(b, t, n)
           Made == LevelMade
           leaves == LevelLeaves
           D == { c \in Found(b, t) : Len(c) = n + 1 }
<1>1. TreeOk(b, t) /\ b \in Path /\ DOMAIN t \subseteq Path
  BY TreeOfRequest DEF TreeOk
<1>2. ASSUME NEW r \in Made
      PROVE  \E c \in D : /\ r.paths = IF Opens(At(b, c).field) THEN {} ELSE Gift(b, t, c)
                          /\ r.items = IF Opens(At(b, c).field) THEN {ItemFor(b, c)} ELSE {}
  <2>1. PICK i \in todo : r \in { MaskChild(i, c) : c \in Children(i.at) }
    BY DEF LevelMade
  <2>2. PICK p \in L : i = ItemFor(b, p)
    BY DEF Items
  <2>3. i.at = p
    BY <2>2 DEF ItemFor
  <2>4. PICK c \in Children(p) : r = MaskChild(ItemFor(b, p), c)
    BY <2>1, <2>2, <2>3
  <2>5. MaskChild(ItemFor(b, p), c).is = "ok"
    BY <2>4
  <2>. QED  BY <2>4, <2>5, ChildMade
<1>3. ASSUME NEW c \in D
      PROVE  \E r \in Made : /\ r.paths = IF Opens(At(b, c).field) THEN {} ELSE Gift(b, t, c)
                             /\ r.items = IF Opens(At(b, c).field) THEN {ItemFor(b, c)} ELSE {}
  <2> DEFINE p == Front(c)
  <2>1. c \in DOMAIN t /\ c \in Found(b, t) /\ Len(c) = n + 1
    BY DEF Found
  <2>2. p \in L /\ c \in Children(p)
    <3>1. p \in Level(b, t, n) /\ Len(c) = Len(p) + 1 /\ IsPrefix(p, c)
      BY ONLY n \in Nat, <1>1, <2>1, FoundBelow
    <3>. QED  BY <2>1, <3>1 DEF Children
  <2>. HIDE DEF p
  <2>3. ItemFor(b, p) \in todo /\ ItemFor(b, p).at = p
    BY <2>2 DEF Items, ItemFor
  <2>4. MaskChild(ItemFor(b, p), c) \in Made
    BY <2>2, <2>3 DEF LevelMade
  <2>. QED  BY <2>2, <2>4, ChildMade
<1>4. UNION { r.items : r \in Made } = Items(b, t, n + 1)
  <2>1. Items(b, t, n + 1) = { ItemFor(b, c) : c \in { d \in D : Opens(At(b, d).field) } }
    BY <1>1, LevelNext DEF Items
  <2>2. ASSUME NEW x \in UNION { r.items : r \in Made } PROVE x \in Items(b, t, n + 1)
    <3>1. PICK r \in Made : x \in r.items
      OBVIOUS
    <3>2. PICK c \in D : r.items = IF Opens(At(b, c).field) THEN {ItemFor(b, c)} ELSE {}
      BY <1>2
    <3>. HIDE DEF D
    <3>. QED  BY <2>1, <3>1, <3>2
  <2>3. ASSUME NEW x \in Items(b, t, n + 1) PROVE x \in UNION { r.items : r \in Made }
    <3>. HIDE DEF D
    <3>1. PICK c \in D : Opens(At(b, c).field) /\ x = ItemFor(b, c)
      BY <2>1
    <3>2. PICK r \in Made : r.items = {ItemFor(b, c)}
      BY <1>3, <3>1
    <3>. QED  BY <3>1, <3>2
  <2>. QED  BY <2>2, <2>3
<1>5. \A p \in L : At(b, p).known /\ (p # << >> => p \in Found(b, t) /\ Opens(At(b, p).field))
  <2> SUFFICES ASSUME NEW p \in L PROVE At(b, p).known /\ (p # << >> => p \in Found(b, t) /\ Opens(At(b, p).field))
    OBVIOUS
  <2>1. p \in DOMAIN t /\ Visits(b, t, p)
    BY DEF Level
  <2>2. CASE p = << >>
    BY <1>1, <2>2, AtEmpty DEF TreeOk
  <2>3. CASE p # << >>
    BY <1>1, <2>1, <2>3, VisitsFront DEF Found
  <2>. QED  BY <2>2, <2>3
<1>6. \A q \in Found(b, t) : q \in Path /\ q # << >> /\ Len(q) \in Nat
  BY <1>1 DEF Found, Path
<1>7. \A q \in Found(b, t) : Len(q) = n /\ Opens(At(b, q).field) => q \in L
  <2>1. ASSUME NEW q \in Found(b, t), Len(q) = n, Opens(At(b, q).field) PROVE q \in L
    <3>1. q \in DOMAIN t /\ q # << >>
      BY DEF Found
    <3>2. Visits(b, t, q)
      BY <1>1, <2>1, <3>1, VisitsFront DEF Found
    <3>. QED  BY <2>1, <3>1, <3>2 DEF Level
  <2>. QED  BY <2>1
<1>8. \A q \in Found(b, t) : Opens(At(b, q).field) =>
        Gift(b, t, q) = IF t[q] # "object" THEN { NameOf(b, q) } ELSE {}
  <2>1. ASSUME NEW q \in Found(b, t), Opens(At(b, q).field)
        PROVE  Gift(b, t, q) = IF t[q] # "object" THEN { NameOf(b, q) } ELSE {}
    <3>1. At(b, q).field.msg # "Struct" /\ At(b, q).field.msg # "Any" /\ At(b, q).field.card = "one"
      BY <2>1 DEF Opens, AsWhole
    <3>. QED  BY <3>1 DEF Gift
  <2>. QED  BY <2>1
<1>9. leaves = UNION { Gift(b, t, q) : q \in { p \in Found(b, t) : Len(p) = n /\ Opens(At(b, p).field) } }
  <2> DEFINE O == { p \in Found(b, t) : Len(p) = n /\ Opens(At(b, p).field) }
  <2>1. ASSUME NEW x \in leaves PROVE x \in UNION { Gift(b, t, q) : q \in O }
    <3>1. PICK i \in todo : i.path = x /\ t[i.at] # "object" /\ x # << >>
      BY DEF IsObject, LevelLeaves
    <3>2. PICK p \in L : i = ItemFor(b, p)
      BY DEF Items
    <3>3. x = NameOf(b, p) /\ t[p] # "object" /\ p \in DOMAIN t /\ Len(p) = n
      BY <3>1, <3>2 DEF ItemFor, Level
    <3>4. p # << >>
      BY <1>1, <3>1, <3>3, AtEmpty DEF TreeOk
    <3>5. p \in O
      BY <1>5, <3>3, <3>4
    <3>6. x \in Gift(b, t, p)
      BY <1>8, <3>3, <3>5
    <3>. HIDE DEF O
    <3>. QED  BY <3>5, <3>6
  <2>2. ASSUME NEW x \in UNION { Gift(b, t, q) : q \in O } PROVE x \in leaves
    <3>1. PICK q \in O : x \in Gift(b, t, q)
      OBVIOUS
    <3>2. q \in L /\ t[q] # "object" /\ x = NameOf(b, q) /\ q \in Found(b, t)
      BY <1>7, <1>8, <3>1
    <3>3. x # << >>
      <4>1. Len(NameOf(b, q)) = Len(q) /\ q \in Path /\ q # << >>
        BY <1>1, <1>5, <1>6, <3>2, AtFacts
      <4>2. Len(q) # 0
        BY <4>1 DEF Path
      <4>3. Len(<< >>) = 0
        OBVIOUS
      <4>. QED  BY <3>2, <4>1, <4>2, <4>3
    <3>4. ItemFor(b, q) \in todo /\ ItemFor(b, q).at = q /\ ItemFor(b, q).path = x
      BY <3>2 DEF Items, ItemFor
    <3>. QED  BY <3>2, <3>3, <3>4 DEF IsObject, LevelLeaves
  <2>. QED  BY <2>1, <2>2
<1>10. UNION { r.paths : r \in Made } = UNION { Gift(b, t, q) : q \in { p \in D : ~Opens(At(b, p).field) } }
  <2> DEFINE O == { p \in D : ~Opens(At(b, p).field) }
  <2>1. ASSUME NEW x \in UNION { r.paths : r \in Made } PROVE x \in UNION { Gift(b, t, q) : q \in O }
    <3>1. PICK r \in Made : x \in r.paths
      OBVIOUS
    <3>2. PICK c \in D : r.paths = IF Opens(At(b, c).field) THEN {} ELSE Gift(b, t, c)
      BY <1>2
    <3>3. ~Opens(At(b, c).field) /\ x \in Gift(b, t, c)
      BY <3>1, <3>2
    <3>. HIDE DEF D
    <3>. QED  BY <3>2, <3>3
  <2>2. ASSUME NEW x \in UNION { Gift(b, t, q) : q \in O } PROVE x \in UNION { r.paths : r \in Made }
    <3>. HIDE DEF D
    <3>1. PICK c \in D : ~Opens(At(b, c).field) /\ x \in Gift(b, t, c)
      OBVIOUS
    <3>2. PICK r \in Made : r.paths = Gift(b, t, c)
      BY <1>3, <3>1
    <3>. QED  BY <3>1, <3>2
  <2>. QED  BY <2>1, <2>2
<1>11. mask \cup leaves \cup UNION { r.paths : r \in Made } = MaskUpTo(b, t, n + 1)
  <2> DEFINE A == { q \in Found(b, t) : Len(q) < n \/ (Len(q) = n /\ ~Opens(At(b, q).field)) }
             B == { p \in Found(b, t) : Len(p) = n /\ Opens(At(b, p).field) }
             C == { p \in D : ~Opens(At(b, p).field) }
             E == { q \in Found(b, t) : Len(q) < n + 1 \/ (Len(q) = n + 1 /\ ~Opens(At(b, q).field)) }
  <2>1. E = A \cup B \cup C
    <3>1. \A q \in Found(b, t) : Len(q) < n + 1 <=> Len(q) < n \/ Len(q) = n
      BY <1>6
    <3>. QED  BY <3>1
  <2>2. MaskUpTo(b, t, n + 1) = UNION { Gift(b, t, q) : q \in E }
    BY DEF MaskUpTo
  <2>3. mask = UNION { Gift(b, t, q) : q \in A }
    BY DEF MaskUpTo
  <2>. HIDE DEF A, B, C, E
  <2>4. UNION { Gift(b, t, q) : q \in E } =
          (UNION { Gift(b, t, q) : q \in A }) \cup (UNION { Gift(b, t, q) : q \in B })
            \cup (UNION { Gift(b, t, q) : q \in C })
    BY <2>1
  <2>. QED  BY <1>9, <1>10, <2>2, <2>3, <2>4 DEF B, C
<1>. QED  BY <1>4, <1>11 DEF NextItems, NextMask

\* When no item is left, all that is found has given to the mask.
LEMMA LevelsEnd ==
  ASSUME NEW b, NEW t, TreeOk(b, t), NEW n \in Nat, Items(b, t, n) = {}
  PROVE  MaskUpTo(b, t, n) = FullMask(b, t)
<1>1. Level(b, t, n) = {}
  BY DEF Items
<1>2. ASSUME NEW q \in Found(b, t) PROVE Len(q) < n \/ (Len(q) = n /\ ~Opens(At(b, q).field))
  <2>1. q \in DOMAIN t /\ q # << >> /\ Front(q) \in DOMAIN t /\ Visits(b, t, Front(q)) /\ At(b, q).known
    BY DEF Found, TreeOk
  <2>2. Len(Front(q)) = Len(q) - 1 /\ Len(q) \in Nat /\ Len(q) >= 1
    BY <2>1, FrontAndLast DEF TreeOk, Path
  <2>3. ~(n <= Len(q) - 1)
    <3> SUFFICES ASSUME n <= Len(q) - 1 PROVE FALSE
      OBVIOUS
    <3>1. n \in 0..Len(Front(q))
      BY <2>2
    <3>2. SubSeq(Front(q), 1, n) \in Level(b, t, n)
      BY <2>1, <3>1, VisitsPrefix
    <3>. QED  BY <1>1, <3>2
  <2>4. ~(Len(q) = n /\ Opens(At(b, q).field))
    <3> SUFFICES ASSUME Len(q) = n, Opens(At(b, q).field) PROVE FALSE
      OBVIOUS
    <3>1. Visits(b, t, q)
      BY <2>1, VisitsFront
    <3>. QED  BY <1>1, <2>1, <3>1 DEF Level
  <2>. QED  BY <2>2, <2>3, <2>4
<1>3. { q \in Found(b, t) : Len(q) < n \/ (Len(q) = n /\ ~Opens(At(b, q).field)) } = Found(b, t)
  BY <1>2
<1>. QED  BY <1>3 DEF MaskUpTo, FullMask

-----------------------------------------------------------------------------
(* The mask at each stage. *)

Behind == {"params", "nested", "query", "validate", "balance", "called"}
Masked == req.patch /\ req.body # << >>

\* A search that has done n levels has the mask of the levels above.
Searched ==
  \E n \in Nat : todo = Items(req.body, req.tree, n) /\ mask = MaskUpTo(req.body, req.tree, n)

MaskInv ==
  /\ req \in Requests
  /\ pc \in {"hook", "timeout", "headers", "body"} => mask = {}
  /\ pc = "mask" => Searched
  /\ pc \in Behind /\ Masked => mask = FullMask(req.body, req.tree)

\* There is no mask to begin with.
LEMMA InitMask == Init => MaskInv
BY DEF Init, MaskInv, Behind

\* The search starts at the root.
LEMMA BodyMask == MaskInv /\ DecodeBody => MaskInv'
<1> SUFFICES ASSUME MaskInv, DecodeBody PROVE MaskInv'
  OBVIOUS
<1>1. req' = req /\ mask' = mask /\ pc = "body" /\ req \in Requests /\ mask = {} /\ Masked' = Masked
  BY DEF DecodeBody, Refuse, MaskInv, Masked
<1>2. CASE pc' = "refused"
  BY <1>1, <1>2 DEF MaskInv, Behind
<1>3. CASE pc' # "refused" /\ Masked
  <2>1. pc' = "mask" /\ todo' = {[path |-> << >>, at |-> << >>, type |-> Resolve(req.body).type]}
    BY <1>3 DEF DecodeBody, Refuse, Masked
  <2>2. todo' = Items(req.body, req.tree, 0) /\ mask' = MaskUpTo(req.body, req.tree, 0)
    BY <1>1, <2>1, TreeOfRequest, LevelZero
  <2>3. todo' = Items(req'.body, req'.tree, 0) /\ mask' = MaskUpTo(req'.body, req'.tree, 0)
    BY <1>1, <2>2
  <2>4. Searched'
    BY <2>3 DEF Searched
  <2>. QED  BY <1>1, <2>1, <2>4 DEF MaskInv, Behind
<1>4. CASE pc' # "refused" /\ ~Masked
  <2>1. pc' = "params"
    BY <1>4 DEF DecodeBody, Refuse, Masked
  <2>. QED  BY <1>1, <1>4, <2>1 DEF MaskInv
<1>. QED  BY <1>2, <1>3, <1>4

\* A level done, the next is to come, or the mask is complete.
LEMMA LevelMask == MaskInv /\ MaskLevel => MaskInv'
<1> SUFFICES ASSUME MaskInv, MaskLevel PROVE MaskInv'
  OBVIOUS
<1>1. req' = req /\ pc = "mask" /\ req \in Requests /\ Masked' = Masked
  BY DEF MaskLevel, Refuse, Crash, MaskInv, Masked
<1>2. PICK n \in Nat : todo = Items(req.body, req.tree, n) /\ mask = MaskUpTo(req.body, req.tree, n)
  BY <1>1 DEF MaskInv, Searched
<1>3. CASE pc' \in {"refused", "panicked"}
  BY <1>1, <1>3 DEF MaskInv, Behind
<1>4. CASE pc' \notin {"refused", "panicked"}
  <2>1. /\ \A r \in LevelMade : r.is = "ok"
        /\ mask' = NextMask
        /\ IF NextItems # {} THEN todo' = NextItems /\ pc' = pc
           ELSE todo' = DOMAIN req.params /\ pc' = "params"
    BY <1>4 DEF MaskLevel, Refuse, Crash, LevelMade, LevelLeaves, NextItems, NextMask
  <2>2. NextItems = Items(req.body, req.tree, n + 1) /\ mask' = MaskUpTo(req.body, req.tree, n + 1)
    BY <1>1, <1>2, <2>1, LevelDone
  <2>3. CASE NextItems # {}
    <3>1. todo' = Items(req'.body, req'.tree, n + 1) /\ mask' = MaskUpTo(req'.body, req'.tree, n + 1)
          /\ n + 1 \in Nat
      BY <1>1, <2>1, <2>2, <2>3
    <3>2. Searched'
      BY <3>1 DEF Searched
    <3>3. pc' = "mask"
      BY <1>1, <2>1, <2>3
    <3>. QED  BY <1>1, <3>2, <3>3 DEF MaskInv, Behind
  <2>4. CASE NextItems = {}
    <3>1. mask' = FullMask(req.body, req.tree)
      <4>1. TreeOk(req.body, req.tree) /\ n + 1 \in Nat
        BY <1>1, TreeOfRequest
      <4>. QED  BY <2>2, <2>4, <4>1, LevelsEnd
    <3>2. mask' = FullMask(req'.body, req'.tree)
      BY <1>1, <3>1
    <3>3. pc' = "params"
      BY <2>1, <2>4
    <3>. QED  BY <1>1, <3>2, <3>3 DEF MaskInv
  <2>. QED  BY <2>3, <2>4
<1>. QED  BY <1>3, <1>4

\* The other stages leave the mask alone.
LEMMA RestMask ==
  ASSUME MaskInv, UNCHANGED <<req, mask>>,
         \/ pc' \in {"refused", "panicked"}
         \/ pc \in Behind /\ pc' \in Behind
         \/ {pc, pc'} \subseteq {"hook", "timeout", "headers", "body"}
         \/ UNCHANGED vars
  PROVE  MaskInv'
<1>1. Masked' = Masked /\ FullMask(req.body, req.tree)' = FullMask(req'.body, req'.tree)
      /\ FullMask(req'.body, req'.tree) = FullMask(req.body, req.tree)
  BY DEF Masked
<1>2. CASE UNCHANGED vars
  <2>1. Searched' = Searched /\ pc' = pc
    BY <1>2 DEF vars, Searched
  <2>. QED  BY <1>1, <2>1 DEF MaskInv
<1>3. CASE ~UNCHANGED vars
  BY <1>1, <1>3 DEF MaskInv, Behind
<1>. QED  BY <1>2, <1>3

\* At every stage the mask is that of the levels done.
THEOREM MaskInvariance == Spec => []MaskInv
<1>1. MaskInv /\ [Next]_vars => MaskInv'
  <2> SUFFICES ASSUME MaskInv, [Next]_vars PROVE MaskInv'
    OBVIOUS
  <2>1. CASE DecodeBody
    BY <2>1, BodyMask
  <2>2. CASE MaskLevel
    BY <2>2, LevelMask
  <2>3. CASE VerifyHeader \/ DecodeTimeout
    BY <2>3, RestMask DEF VerifyHeader, DecodeTimeout, Refuse
  <2>4. CASE AddHeader \/ Forward
    BY <2>4, RestMask DEF AddHeader, Forward, Refuse
  <2>5. CASE BindParam \/ StartQuery \/ ParseKey
    BY <2>5, RestMask DEF BindParam, StartQuery, ParseKey, Refuse, Behind
  <2>6. CASE SkipUnknown \/ Descend \/ SetLast
    <3>1. pc \in {"nested", "query"} /\ UNCHANGED <<req, mask>>
      BY <2>6 DEF SkipUnknown, Descend, SetLast, Walking, Refuse, Crash
    <3>2. pc' \in {"refused", "panicked", "params", "nested", "query"}
      BY <2>6, <3>1 DEF SkipUnknown, Descend, SetLast, BackToStage, Refuse, Crash
    <3>. QED  BY <3>1, <3>2, RestMask DEF Behind
  <2>7. CASE EndQuery \/ Validate \/ PreLoadBalance
    BY <2>7, RestMask DEF EndQuery, Validate, PreLoadBalance, Refuse, Behind
  <2>8. CASE Done \/ UNCHANGED vars
    BY <2>8, RestMask DEF Done, vars
  <2>. QED  BY <2>1, <2>2, <2>3, <2>4, <2>5, <2>6, <2>7, <2>8 DEF Next
<1>. QED  BY <1>1, InitMask, PTL DEF Spec

-----------------------------------------------------------------------------
(* The mask found is the mask of the reference. *)

\* A concatenation is the one sequence and then the other.
LEMMA ConcatFacts ==
  ASSUME NEW S, NEW a \in Seq(S), NEW b \in Seq(S), NEW m, m = Len(a), NEW n, n = Len(b)
  PROVE  /\ a \o b \in Seq(S) /\ Len(a \o b) = m + n /\ \A i \in 1..m : (a \o b)[i] = a[i]
         /\ \A i \in 1..n : (a \o b)[m + i] = b[i]
OBVIOUS

\* What is behind a place of a list, with the element there in front or not.
LEMMA JoinBehind ==
  ASSUME NEW S, NEW x \in Seq(S), NEW l \in Seq(S), NEW k \in 1..Len(l)
  PROVE  x \o SubSeq(l, k, Len(l)) = Append(x, l[k]) \o SubSeq(l, k + 1, Len(l))
<1> DEFINE m == Len(l)
           n == Len(x)
           u == SubSeq(l, k, m)
           v == SubSeq(l, k + 1, m)
           y == Append(x, l[k])
<1>1. k \in Nat /\ m \in Nat /\ n \in Nat /\ k >= 1 /\ k <= m /\ l[k] \in S /\ m = Len(l) /\ n = Len(x)
  OBVIOUS
<1>. HIDE DEF m, n
<1>2. u \in Seq(S) /\ Len(u) = m - k + 1 /\ \A i \in 1..(m - k + 1) : u[i] = l[k + i - 1]
  BY <1>1
<1>3. v \in Seq(S) /\ Len(v) = m - k /\ \A i \in 1..(m - k) : v[i] = l[k + i]
  <2>1. v \in Seq(S) /\ Len(v) = m - (k + 1) + 1 /\ \A i \in 1..(m - (k + 1) + 1) : v[i] = l[k + 1 + i - 1]
    BY <1>1
  <2>. HIDE DEF v
  <2>2. m - (k + 1) + 1 = m - k /\ \A i \in 1..(m - k) : k + 1 + i - 1 = k + i
    BY <1>1
  <2>. QED  BY <2>1, <2>2
<1>4. y \in Seq(S) /\ Len(y) = n + 1 /\ y[n + 1] = l[k] /\ \A i \in 1..n : y[i] = x[i]
  BY <1>1, AppendFacts
<1>. HIDE DEF u, v, y
<1>5. /\ x \o u \in Seq(S) /\ Len(x \o u) = n + (m - k + 1) /\ \A i \in 1..n : (x \o u)[i] = x[i]
      /\ \A i \in 1..(m - k + 1) : (x \o u)[n + i] = u[i]
  <2> DEFINE c == m - k + 1
  <2>1. x \in Seq(S) /\ u \in Seq(S) /\ n = Len(x) /\ c = Len(u)
    BY <1>1, <1>2
  <2>. HIDE DEF c
  <2>2. /\ x \o u \in Seq(S) /\ Len(x \o u) = n + c /\ \A i \in 1..n : (x \o u)[i] = x[i]
        /\ \A i \in 1..c : (x \o u)[n + i] = u[i]
    BY ONLY <2>1, ConcatFacts
  <2>. QED  BY <2>2 DEF c
<1>6. /\ y \o v \in Seq(S) /\ Len(y \o v) = (n + 1) + (m - k) /\ \A i \in 1..(n + 1) : (y \o v)[i] = y[i]
      /\ \A i \in 1..(m - k) : (y \o v)[(n + 1) + i] = v[i]
  <2> DEFINE c == m - k
             d == n + 1
  <2>1. y \in Seq(S) /\ v \in Seq(S) /\ d = Len(y) /\ c = Len(v)
    BY <1>3, <1>4
  <2>. HIDE DEF c, d
  <2>2. /\ y \o v \in Seq(S) /\ Len(y \o v) = d + c /\ \A i \in 1..d : (y \o v)[i] = y[i]
        /\ \A i \in 1..c : (y \o v)[d + i] = v[i]
    BY ONLY <2>1, ConcatFacts
  <2>. QED  BY <2>2 DEF c, d
<1>7. Len(x \o u) = Len(y \o v) /\ Len(x \o u) = n + (m - k) + 1
  BY <1>1, <1>5, <1>6
<1>8. ASSUME NEW i \in 1..(n + (m - k) + 1) PROVE (x \o u)[i] = (y \o v)[i]
  <2>1. CASE i \in 1..n
    <3>1. i \in 1..(n + 1)
      BY <1>1, <2>1
    <3>. QED  BY <1>4, <1>5, <1>6, <2>1, <3>1
  <2>2. CASE i = n + 1
    <3>1. 1 \in 1..(m - k + 1) /\ n + 1 \in 1..(n + 1) /\ k + 1 - 1 = k
      BY <1>1
    <3>2. (x \o u)[n + 1] = u[1] /\ u[1] = l[k]
      BY <1>2, <1>5, <3>1
    <3>3. (y \o v)[n + 1] = l[k]
      BY <1>4, <1>6, <3>1
    <3>. QED  BY <2>2, <3>2, <3>3
  <2>3. CASE i \notin 1..n /\ i # n + 1
    <3> DEFINE j == i - (n + 1)
    <3>1. j \in 1..(m - k) /\ j + 1 \in 1..(m - k + 1) /\ i = n + (j + 1) /\ i = (n + 1) + j
          /\ k + (j + 1) - 1 = k + j
      BY <1>1, <2>3
    <3>. HIDE DEF j
    <3>2. (x \o u)[n + (j + 1)] = u[j + 1] /\ u[j + 1] = l[k + j]
      BY <1>2, <1>5, <3>1
    <3>3. (y \o v)[(n + 1) + j] = l[k + j]
      BY <1>3, <1>6, <3>1
    <3>. QED  BY <3>1, <3>2, <3>3
  <2>. QED  BY <2>1, <2>2, <2>3
<1>9. x \o u = y \o v
  BY <1>5, <1>6, <1>7, <1>8, SeqEqual
<1>. QED  BY <1>9 DEF u, v, y, m

\* The fields the reference speaks of are those found.
LEMMA FoundAreSetFields ==
  ASSUME req \in Requests
  PROVE  SetFields = Found(req.body, req.tree) /\ \A p : FieldName(p) = NameOf(req.body, p)
<1>1. \A p : AtField(p) = At(req.body, p)
  BY DEF AtField, At
<1>2. SetFields = FieldsSet(req.body, req.tree)
  <2>1. \A p : (\A r \in Above(p) : ~AsWhole(AtField(r).field))
              <=> \A i \in 1..(Len(p) - 1) : ~AsWhole(At(req.body, SubSeq(p, 1, i)).field)
    BY <1>1 DEF Above
  <2>. QED  BY <1>1, <2>1 DEF SetFields, FieldsSet
<1>3. \A p : FieldName(p) = NameOf(req.body, p)
  BY <1>1 DEF FieldName, NameOf
<1>. QED  BY <1>2, <1>3, TreeOfRequest, FoundAreSet

\* What the reference has for a field.
Share(b, t, p) ==
  IF At(b, p).field.msg = "Struct"
  THEN { NameOf(b, p) \o SubSeq(l, Len(p) + 1, Len(l)) : l \in { m \in DOMAIN t : t[m] # "object" /\ IsPrefix(p, m) } }
  ELSE IF AsWhole(At(b, p).field) \/ t[p] # "object" THEN { NameOf(b, p) } ELSE {}

\* The reference, field by field.
LEMMA ReferenceIsShares ==
  ASSUME req \in Requests
  PROVE  MaskReference = UNION { Share(req.body, req.tree, p) : p \in Found(req.body, req.tree) }
<1> DEFINE b == req.body
           t == req.tree
           F == Found(b, t)
<1>1. SetFields = F /\ \A p : FieldName(p) = NameOf(b, p) /\ AtField(p) = At(b, p)
  BY FoundAreSetFields DEF AtField, At
<1>2. \A p : (IsStruct(p) <=> At(b, p).field.msg = "Struct") /\ (IsObject(p) <=> t[p] = "object")
  BY <1>1 DEF IsStruct, IsObject
<1>3. ASSUME NEW x \in MaskReference PROVE \E p \in F : x \in Share(b, t, p)
  <2>1. CASE x \in { FieldName(p) : p \in { q \in SetFields : ~IsStruct(q) /\ (AsWhole(AtField(q).field) \/ ~IsObject(q)) } }
    <3>1. PICK p \in SetFields : x = FieldName(p) /\ ~IsStruct(p) /\ (AsWhole(AtField(p).field) \/ ~IsObject(p))
      BY <2>1
    <3>. HIDE DEF F
    <3>. QED  BY <1>1, <1>2, <3>1 DEF Share
  <2>2. CASE \E q \in { r \in SetFields : IsStruct(r) } :
               x \in { FieldName(q) \o SubSeq(p, Len(q) + 1, Len(p)) :
                        p \in { l \in DOMAIN req.tree : ~IsObject(l) /\ IsPrefix(q, l) } }
    <3>1. PICK q \in SetFields : IsStruct(q) /\
            x \in { FieldName(q) \o SubSeq(p, Len(q) + 1, Len(p)) :
                     p \in { l \in DOMAIN req.tree : ~IsObject(l) /\ IsPrefix(q, l) } }
      BY <2>2
    <3>2. q \in F /\ At(b, q).field.msg = "Struct"
      BY <1>1, <1>2, <3>1
    <3>3. PICK p \in DOMAIN t : ~IsObject(p) /\ IsPrefix(q, p) /\ x = FieldName(q) \o SubSeq(p, Len(q) + 1, Len(p))
      BY <3>1
    <3>. HIDE DEF F, b, t
    <3>4. x = NameOf(b, q) \o SubSeq(p, Len(q) + 1, Len(p)) /\ t[p] # "object" /\ IsPrefix(q, p)
      BY <1>1, <1>2, <3>3
    <3>5. x \in Share(b, t, q)
      BY <3>2, <3>3, <3>4 DEF Share
    <3>. QED  BY <3>2, <3>5
  <2>. QED  BY <2>1, <2>2 DEF MaskReference
<1>4. ASSUME NEW p \in F, NEW x \in Share(b, t, p) PROVE x \in MaskReference
  <2>1. p \in SetFields
    BY <1>1
  <2>2. CASE At(b, p).field.msg = "Struct"
    <3>1. PICK l \in DOMAIN t : t[l] # "object" /\ IsPrefix(p, l) /\ x = NameOf(b, p) \o SubSeq(l, Len(p) + 1, Len(l))
      BY <2>2 DEF Share
    <3>2. ~IsObject(l) /\ x = FieldName(p) \o SubSeq(l, Len(p) + 1, Len(l)) /\ p \in { r \in SetFields : IsStruct(r) }
      BY <1>1, <1>2, <2>1, <2>2, <3>1
    <3>3. x \in { FieldName(p) \o SubSeq(u, Len(p) + 1, Len(u)) :
                    u \in { v \in DOMAIN req.tree : ~IsObject(v) /\ IsPrefix(p, v) } }
      BY <3>1, <3>2
    <3>. QED  BY <3>2, <3>3 DEF MaskReference
  <2>3. CASE At(b, p).field.msg # "Struct"
    <3>1. x = NameOf(b, p) /\ (AsWhole(At(b, p).field) \/ t[p] # "object")
      BY <2>3 DEF Share
    <3>2. x = FieldName(p) /\ ~IsStruct(p) /\ (AsWhole(AtField(p).field) \/ ~IsObject(p))
      BY <1>1, <1>2, <2>3, <3>1
    <3>. QED  BY <2>1, <3>2 DEF MaskReference
  <2>. QED  BY <2>2, <2>3
<1>. QED  BY <1>3, <1>4

\* Where the names are alike, a field gives its share.
LEMMA GiftIsShare ==
  ASSUME NEW b, NEW t, TreeOk(b, t), NEW p \in Found(b, t),
         At(b, p).field.msg \in {"Struct", "Any"} => Last(NameOf(b, p)) = Last(p),
         At(b, p).field.msg = "Any" => Len(p) = 1
  PROVE  Gift(b, t, p) = Share(b, t, p)
<1> DEFINE a == Front(p)
           f == The(At(b, a), Last(p))
<1>1. /\ b \in Path /\ DOMAIN t \subseteq Path /\ p \in Path /\ p # << >> /\ p \in DOMAIN t /\ At(b, p).known
  BY DEF Found, TreeOk
<1>2. a \in Path /\ Last(p) \in STRING /\ p = Append(a, Last(p)) /\ Len(p) \in Nat /\ Len(p) >= 1
  BY <1>1, FrontAndLast DEF Path
<1>3. NameOf(b, p) = Append(NameOf(b, a), f) /\ NameOf(b, a) \in Path
  <2> DEFINE l == Last(p)
             q == a
  <2>1. q \in Path /\ l \in STRING /\ p = Append(q, l)
    BY <1>2
  <2>2. f = The(At(b, q), l) /\ q = a
    OBVIOUS
  <2>. HIDE DEF l, q, f, a
  <2>3. At(b, q).known /\ NameOf(b, p) = Append(NameOf(b, q), The(At(b, q), l))
    <3>1. b \in Path /\ At(b, p).known
      BY <1>1
    <3>2. /\ At(b, p).known <=> At(b, q).known /\ Fields(At(b, q), l) # {}
          /\ At(b, p).known => NameOf(b, p) = Append(NameOf(b, q), The(At(b, q), l))
      BY ONLY <2>1, <3>1, AtChild
    <3>. QED  BY <3>1, <3>2
  <2>4. NameOf(b, q) \in Path
    BY <1>1, <2>1, <2>3, AtFacts
  <2>. QED  BY <2>2, <2>3, <2>4
<1>4. NameOf(b, p) \in Path /\ Len(NameOf(b, p)) = Len(p)
  BY <1>1, AtFacts
<1>5. CASE At(b, p).field.msg = "Struct"
  <2>1. NameOf(b, p) = Append(NameOf(b, a), Last(p))
    <3>1. NameOf(b, p) # << >>
      <4>1. Len(<< >>) = 0
        OBVIOUS
      <4>2. Len(NameOf(b, p)) # 0
        BY <1>2, <1>4
      <4>. QED  BY <4>1, <4>2
    <3>2. NameOf(b, p) = Append(Front(NameOf(b, p)), Last(NameOf(b, p)))
      BY <1>4, <3>1, FrontAndLast DEF Path
    <3>3. Last(NameOf(b, p)) = Last(p)
      BY <1>5
    <3>4. Front(NameOf(b, p)) = NameOf(b, a)
      <4> DEFINE x == NameOf(b, a)
                 y == NameOf(b, p)
                 g == f
      <4>1. x \in Path /\ y \in Path /\ y = Append(x, g)
        BY <1>3, <1>4
      <4>. HIDE DEF x, y, g
      <4>2. y[Len(y)] = g /\ y[Len(y)] \in STRING
        <5>1. Len(y) \in Nat /\ Len(y) = Len(x) + 1 /\ Append(x, g)[Len(x) + 1] = g
          BY <4>1 DEF Path
        <5>2. Len(x) \in Nat
          BY <4>1 DEF Path
        <5>3. Len(y) \in 1..Len(y)
          BY ONLY <5>1, <5>2
        <5>4. y[Len(y)] \in STRING
          BY <4>1, <5>3 DEF Path
        <5>. QED  BY <4>1, <5>1, <5>4
      <4>3. g \in STRING
        BY <4>2
      <4>4. Front(Append(x, g)) = x
        BY <4>1, <4>3, AppendFacts DEF Path
      <4>5. Front(y) = x
        BY <4>1, <4>4
      <4>. QED  BY <4>5 DEF x, y
    <3>. QED  BY <3>2, <3>3, <3>4
  <2>2. ASSUME NEW l \in DOMAIN t, IsPrefix(p, l)
        PROVE  NameOf(b, a) \o SubSeq(l, Len(p), Len(l)) = NameOf(b, p) \o SubSeq(l, Len(p) + 1, Len(l))
    <3>1. l \in Path /\ Len(p) <= Len(l) /\ SubSeq(p, 1, Len(p)) = SubSeq(l, 1, Len(p))
      BY <1>1, <2>2 DEF IsPrefix
    <3>2. Len(l) \in Nat /\ Len(p) \in 1..Len(l) /\ Len(p) \in 1..Len(p)
      <4>1. Len(l) \in Nat
        BY <3>1 DEF Path
      <4>2. Len(p) <= Len(l)
        BY <3>1
      <4>. QED  BY ONLY <1>2, <4>1, <4>2
    <3>3. l[Len(p)] = Last(p)
      <4> DEFINE k == Len(p)
                 x == SubSeq(p, 1, k)
                 y == SubSeq(l, 1, k)
      <4>1. k \in Nat /\ k \in 1..k /\ k <= Len(p) /\ k <= Len(l)
        BY <1>2, <3>1, <3>2
      <4>2. p \in Path /\ l \in Path /\ x = y
        BY <1>1, <3>1
      <4>. HIDE DEF k
      <4>3. x[k] = p[k] /\ y[k] = l[k]
        BY <4>1, <4>2 DEF Path
      <4>4. p[k] = l[k]
        BY <4>2, <4>3
      <4>. QED  BY <4>4 DEF k, Last
    <3> DEFINE k == Len(p)
               x == NameOf(b, a)
    <3>4. x \in Path /\ k \in 1..Len(l) /\ l \in Path
      BY <1>3, <3>1, <3>2
    <3>5. x \o SubSeq(l, k, Len(l)) = Append(x, l[k]) \o SubSeq(l, k + 1, Len(l))
      <4>. HIDE DEF x, k
      <4>. QED  BY <3>4, JoinBehind DEF Path
    <3>6. Append(x, l[k]) = NameOf(b, p)
      BY <2>1, <3>3
    <3>. QED  BY <3>5, <3>6
  <2>. HIDE DEF a
  <2>3. Gift(b, t, p) = { NameOf(b, a) \o SubSeq(l, Len(p), Len(l)) : l \in { m \in DOMAIN t : IsPrefix(p, m) /\ t[m] # "object" } }
    BY <1>5 DEF Gift, a
  <2>4. Share(b, t, p) = { NameOf(b, p) \o SubSeq(l, Len(p) + 1, Len(l)) : l \in { m \in DOMAIN t : t[m] # "object" /\ IsPrefix(p, m) } }
    BY <1>5 DEF Share
  <2>. QED  BY <2>2, <2>3, <2>4
<1>6. CASE At(b, p).field.msg = "Any"
  <2>1. Gift(b, t, p) = {<< Last(p) >>} /\ Share(b, t, p) = { NameOf(b, p) }
    BY <1>6 DEF Gift, Share, AsWhole
  <2>2. NameOf(b, p) = << Last(p) >>
    <3> DEFINE y == NameOf(b, p)
               g == Last(p)
    <3>1. y \in Path /\ Len(y) = 1 /\ Last(y) = g
      BY <1>4, <1>6
    <3>. HIDE DEF y, g
    <3>2. y[1] = g
      BY <3>1 DEF Last
    <3>3. y = << g >>
      BY <3>1, <3>2 DEF Path
    <3>. QED  BY <3>3 DEF y, g
  <2>. QED  BY <2>1, <2>2
<1>7. CASE At(b, p).field.msg \notin {"Struct", "Any"}
  BY <1>7 DEF Gift, Share, AsWhole
<1>. QED  BY <1>5, <1>6, <1>7

\* The mask made for a PATCH of one field is the mask of the fields the body sets.
THEOREM MasksExactly == Spec => []MaskExact
<1>1. MaskInv => MaskExact
  <2> SUFFICES ASSUME MaskInv, pc = "called", req.patch, req.body # << >>, NamedAlike
               PROVE  mask = MaskReference
    BY DEF MaskExact
  <2>1. req \in Requests /\ mask = FullMask(req.body, req.tree)
    BY DEF MaskInv, Behind, Masked
  <2>2. \A p \in Found(req.body, req.tree) : Gift(req.body, req.tree, p) = Share(req.body, req.tree, p)
    <3> SUFFICES ASSUME NEW p \in Found(req.body, req.tree)
                 PROVE  Gift(req.body, req.tree, p) = Share(req.body, req.tree, p)
      OBVIOUS
    <3>1. p \in SetFields /\ FieldName(p) = NameOf(req.body, p) /\ AtField(p) = At(req.body, p)
      BY <2>1, FoundAreSetFields DEF AtField, At
    <3>2. /\ At(req.body, p).field.msg \in {"Struct", "Any"} => Last(NameOf(req.body, p)) = Last(p)
          /\ At(req.body, p).field.msg = "Any" => Len(p) = 1
      BY <3>1 DEF NamedAlike
    <3>. QED  BY <2>1, <3>2, TreeOfRequest, GiftIsShare
  <2>3. FullMask(req.body, req.tree) = UNION { Share(req.body, req.tree, p) : p \in Found(req.body, req.tree) }
    BY <2>2 DEF FullMask
  <2>. QED  BY <2>1, <2>3, ReferenceIsShares
<1>. QED  BY <1>1, MaskInvariance, PTL
=============================================================================
