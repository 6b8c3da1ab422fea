---------------------------- MODULE Registry_proof ----------------------------
(***************************************************************************)
(* What start-up leaves in the services' lists and in the mux, for every   *)
(* program and every order of initialisation and of map iteration; and     *)
(* what the generator's registry calls Go packages, for every request and  *)
(* every order in which its files are loaded, what follows for the imports *)
(* of generated code, and which handlers the code has.                     *)
(***************************************************************************)
EXTENDS Registry, Generator, SequenceTheorems, WellFoundedInduction, TLAPS

-----------------------------------------------------------------------------
(* The services' lists and the mux.  The argument counts the bindings       *)
(* registered so far: a service's list holds, in order, every binding of    *)
(* this gateway among them, and an HTTP method's handlers hold them all,    *)
(* the latest first.                                                        *)

Programmed == [Services -> Seq(Api)]

TypeOK ==
  /\ stage \in {"init", "bootstrap", "enabling", "serving", "panicked"}
  /\ apis \in Programmed
  /\ methods \in [Services -> Seq(Entry)]
  /\ handlers \in [Verbs -> Seq(Entry)]
  /\ pending \subseteq Services
  /\ current \in Services \cup {"none"}
  /\ bound \in Nat /\ i \in Nat \ {0}

\* How many bindings of a service have been registered.
Upto(s) == IF s \in pending THEN 0 ELSE IF s = current THEN bound ELSE Len(apis[s])

\* The first n bindings of a service as its list may hold them: in order, and
\* none of this gateway's missing.
ListIs(list, s, n, bindings) ==
  /\ \A p \in 1..Len(list) : list[p].svc = s /\ list[p].k \in 1..n
  /\ \A p, q \in 1..Len(list) : p < q => list[p].k < list[q].k
  /\ \A k \in 1..n : bindings[k].mine => \E p \in 1..Len(list) : list[p] = EntryOf(s, k)

\* Behind the filter's index, and in the lists it has left, all are this gateway's.
FilterInv ==
  \A s \in Services \ pending : \A p \in 1..Len(methods[s]) :
    (s = current /\ p >= i) \/ apis[s][methods[s][p].k].mine

\* The handlers of HTTP method v when upto[s] bindings of each service s are
\* registered, the latest first.
HandlersAre(list, v, upto, program) ==
  /\ \A p \in 1..Len(list) : list[p].svc \in Services /\ list[p].k \in 1..upto[list[p].svc]
  /\ \A p, q \in 1..Len(list) : p < q => Later(list, q, p)
  /\ \A s \in Services : \A k \in 1..upto[s] : program[s][k].verb = v =>
       \E p \in 1..Len(list) : list[p] = EntryOf(s, k)

Uptos == [s \in Services |-> Upto(s)]

PhaseInv ==
  /\ stage \notin {"init", "bootstrap"} => pending = {} /\ current = "none"
  /\ current # "none" =>
       /\ current \notin pending /\ bound \in 0..Len(apis[current])
       /\ bound < Len(apis[current]) => i = 1

IInv ==
  /\ TypeOK /\ PhaseInv /\ FilterInv
  /\ \A s \in Services : ListIs(methods[s], s, Upto(s), apis[s])
  /\ \A v \in Verbs : HandlersAre(handlers[v], v, Uptos, apis)

-----------------------------------------------------------------------------
(* What the operations do to a list. *)

LEMMA EntryTyped ==
  ASSUME NEW s \in Services, NEW k \in Nat
  PROVE  EntryOf(s, k) \in Entry /\ EntryOf(s, k).svc = s /\ EntryOf(s, k).k = k
BY DEF EntryOf, Entry

\* Removing the element at n moves the later ones down by one.
LEMMA RemoveAtProperties ==
  ASSUME NEW S, NEW list \in Seq(S), NEW n \in 1..Len(list)
  PROVE  /\ RemoveAt(list, n) \in Seq(S)
         /\ Len(RemoveAt(list, n)) = Len(list) - 1
         /\ \A p \in 1..(Len(list) - 1) : RemoveAt(list, n)[p] = IF p < n THEN list[p] ELSE list[p + 1]
<1> DEFINE a == SubSeq(list, 1, n - 1)
           b == SubSeq(list, n + 1, Len(list))
<1>1. Len(list) \in Nat /\ n \in Nat /\ n >= 1 /\ n <= Len(list)
  OBVIOUS
<1>2. \A p \in 1..Len(list) : list[p] \in S
  BY ElementOfSeq
<1>3. a \in Seq(S) /\ Len(a) = n - 1 /\ \A p \in 1..(n - 1) : a[p] = list[p]
  <2>1. \A p \in 1..(n - 1) : list[p] \in S
    BY <1>1, <1>2
  <2>2. n - 1 \in Int /\ 1 \in Int
    BY <1>1
  <2>3. /\ a \in Seq(S) /\ Len(a) = IF 1 <= n - 1 THEN (n - 1) - 1 + 1 ELSE 0
        /\ \A p \in 1..((n - 1) - 1 + 1) : a[p] = list[1 + p - 1]
    BY <2>1, <2>2, SubSeqProperties
  <2>. HIDE DEF a
  <2>4. Len(a) = n - 1
    BY <1>1, <2>3
  <2>5. \A p \in 1..(n - 1) : p \in 1..((n - 1) - 1 + 1) /\ 1 + p - 1 = p
    BY <1>1
  <2>. QED  BY <2>3, <2>4, <2>5
<1>4. b \in Seq(S) /\ Len(b) = Len(list) - n /\ \A p \in 1..(Len(list) - n) : b[p] = list[n + p]
  <2>1. \A p \in (n + 1)..Len(list) : list[p] \in S
    BY <1>1, <1>2
  <2>2. n + 1 \in Int /\ Len(list) \in Int
    BY <1>1
  <2>3. /\ b \in Seq(S) /\ Len(b) = IF n + 1 <= Len(list) THEN Len(list) - (n + 1) + 1 ELSE 0
        /\ \A p \in 1..(Len(list) - (n + 1) + 1) : b[p] = list[(n + 1) + p - 1]
    BY <2>1, <2>2, SubSeqProperties
  <2>. HIDE DEF b
  <2>4. Len(b) = Len(list) - n
    <3>1. CASE n + 1 <= Len(list)
      BY <1>1, <2>3, <3>1
    <3>2. CASE n = Len(list)
      BY <1>1, <2>3, <3>2
    <3>. QED  BY <1>1, <3>1, <3>2
  <2>5. \A p \in 1..(Len(list) - n) : p \in 1..(Len(list) - (n + 1) + 1) /\ (n + 1) + p - 1 = n + p
    BY <1>1
  <2>. QED  BY <2>3, <2>4, <2>5
<1>5. RemoveAt(list, n) = a \o b
  BY DEF RemoveAt
<1>. HIDE DEF a, b
<1>6. /\ a \o b \in Seq(S) /\ Len(a \o b) = Len(a) + Len(b)
      /\ \A p \in 1..(Len(a) + Len(b)) : (a \o b)[p] = IF p <= Len(a) THEN a[p] ELSE b[p - Len(a)]
  BY <1>3, <1>4, ConcatProperties
<1>7. Len(a) + Len(b) = Len(list) - 1
  BY <1>1, <1>3, <1>4
<1>8. ASSUME NEW p \in 1..(Len(list) - 1)
      PROVE  (a \o b)[p] = IF p < n THEN list[p] ELSE list[p + 1]
  <2>1. CASE p < n
    <3>1. p \in 1..(n - 1) /\ p <= Len(a)
      BY <1>1, <1>3, <2>1
    <3>. QED  BY <1>3, <1>6, <1>7, <2>1, <3>1
  <2>2. CASE ~(p < n)
    <3>1. p - (n - 1) \in 1..(Len(list) - n) /\ ~(p <= Len(a)) /\ n + (p - (n - 1)) = p + 1
      BY <1>1, <1>3, <2>2
    <3>2. (a \o b)[p] = b[p - (n - 1)]
      BY <1>3, <1>6, <1>7, <3>1
    <3>3. b[p - (n - 1)] = list[p + 1]
      BY <1>4, <3>1
    <3>. QED  BY <2>2, <3>2, <3>3
  <2>. QED  BY <2>1, <2>2
<1>. QED  BY <1>5, <1>6, <1>7, <1>8

\* A list of entries grows by the next binding.
LEMMA AppendKeeps ==
  ASSUME NEW s \in Services, NEW n \in Nat, NEW list \in Seq(Entry), NEW bindings,
         ListIs(list, s, n, bindings)
  PROVE  ListIs(Append(list, EntryOf(s, n + 1)), s, n + 1, bindings)
<1> DEFINE e == EntryOf(s, n + 1)
           new == Append(list, e)
<1>1. e \in Entry /\ e.svc = s /\ e.k = n + 1 /\ Len(list) \in Nat
  BY EntryTyped
<1>. HIDE DEF e, Entry
<1>2. /\ Len(new) = Len(list) + 1 /\ new[Len(list) + 1] = e
      /\ \A p \in 1..Len(list) : new[p] = list[p]
  BY <1>1, AppendProperties
<1>. HIDE DEF new
<1>3. \A p \in 1..Len(new) : p \in 1..Len(list) \/ p = Len(list) + 1
  BY <1>1, <1>2
<1>4. \A p \in 1..Len(list) : list[p].k \in 1..n /\ list[p].k < n + 1 /\ list[p].svc = s
  BY DEF ListIs
<1>5. \A p \in 1..Len(new) : new[p].svc = s /\ new[p].k \in 1..(n + 1)
  BY <1>1, <1>2, <1>3, <1>4
<1>6. ASSUME NEW p \in 1..Len(new), NEW q \in 1..Len(new), p < q PROVE new[p].k < new[q].k
  <2>1. p \in 1..Len(list)
    BY <1>1, <1>2, <1>6
  <2>2. CASE q \in 1..Len(list)
    BY <1>2, <1>6, <2>1, <2>2 DEF ListIs
  <2>3. CASE q = Len(list) + 1
    BY <1>1, <1>2, <1>4, <2>1, <2>3
  <2>. QED  BY <1>3, <2>2, <2>3
<1>7. ASSUME NEW k \in 1..(n + 1), bindings[k].mine PROVE \E p \in 1..Len(new) : new[p] = EntryOf(s, k)
  <2>1. CASE k \in 1..n
    <3>1. PICK p \in 1..Len(list) : list[p] = EntryOf(s, k)
      BY <1>7, <2>1 DEF ListIs
    <3>. QED  BY <1>1, <1>2, <3>1
  <2>2. CASE k = n + 1
    <3>1. Len(list) + 1 \in 1..Len(new) /\ new[Len(list) + 1] = EntryOf(s, k)
      BY <1>1, <1>2, <2>2 DEF e
    <3>. QED  BY <3>1
  <2>. QED  BY <2>1, <2>2
<1>. QED  BY <1>5, <1>6, <1>7 DEF ListIs, new, e

\* A list stays right without an entry that is not this gateway's.
LEMMA RemoveKeeps ==
  ASSUME NEW s \in Services, NEW n \in Nat, NEW list \in Seq(Entry), NEW bindings, NEW m \in 1..Len(list),
         ListIs(list, s, n, bindings), ~bindings[list[m].k].mine
  PROVE  ListIs(RemoveAt(list, m), s, n, bindings)
<1> DEFINE new == RemoveAt(list, m)
           from(p) == IF p < m THEN p ELSE p + 1
<1>0. Len(list) \in Nat
  OBVIOUS
<1>. HIDE DEF new
<1>1. Len(new) = Len(list) - 1 /\ Len(list) \in Nat
      /\ \A p \in 1..(Len(list) - 1) : new[p] = IF p < m THEN list[p] ELSE list[p + 1]
  <2>1. /\ RemoveAt(list, m) \in Seq(Entry)
        /\ Len(RemoveAt(list, m)) = Len(list) - 1
        /\ \A p \in 1..(Len(list) - 1) : RemoveAt(list, m)[p] = IF p < m THEN list[p] ELSE list[p + 1]
    BY RemoveAtProperties
  <2>. QED  BY <1>0, <2>1 DEF new
<1>2. \A p \in 1..Len(new) : from(p) \in 1..Len(list) /\ new[p] = list[from(p)]
  BY <1>1
<1>3. \A p, q \in 1..Len(new) : p < q => from(p) < from(q)
  BY <1>1
<1>4. ASSUME NEW k \in 1..n, bindings[k].mine PROVE \E p \in 1..Len(new) : new[p] = EntryOf(s, k)
  <2>1. PICK q \in 1..Len(list) : list[q] = EntryOf(s, k)
    BY <1>4 DEF ListIs
  <2>2. q # m
    BY <1>4, <2>1, EntryTyped
  <2>3. CASE q < m
    <3>1. q \in 1..Len(new) /\ new[q] = list[q]
      BY <1>1, <2>3
    <3>. QED  BY <2>1, <3>1
  <2>4. CASE q > m
    <3>1. q - 1 \in 1..Len(new) /\ new[q - 1] = list[q]
      BY <1>1, <2>4
    <3>. QED  BY <2>1, <3>1
  <2>. QED  BY <2>2, <2>3, <2>4
<1>5. \A p \in 1..Len(new) : new[p].svc = s /\ new[p].k \in 1..n
  BY <1>2 DEF ListIs
<1>6. \A p, q \in 1..Len(new) : p < q => new[p].k < new[q].k
  BY <1>2, <1>3 DEF ListIs
<1>. QED  BY <1>4, <1>5, <1>6 DEF ListIs, new

\* The handlers of a method stay right when the next binding of a service comes
\* first, and are not concerned when it is another method's.
LEMMA PrependKeeps ==
  ASSUME NEW list \in Seq(Entry), NEW v, NEW upto \in [Services -> Nat], NEW later \in [Services -> Nat],
         NEW program, NEW s \in Services, later = [upto EXCEPT ![s] = @ + 1],
         program[s][upto[s] + 1].verb = v, HandlersAre(list, v, upto, program)
  PROVE  HandlersAre(<< EntryOf(s, upto[s] + 1) >> \o list, v, later, program)
<1> DEFINE e == EntryOf(s, upto[s] + 1)
           new == << e >> \o list
<1>1. e \in Entry /\ e.svc = s /\ e.k = upto[s] + 1 /\ Len(list) \in Nat
  BY EntryTyped
<1>a. later[s] = upto[s] + 1 /\ \A u \in Services : u # s => later[u] = upto[u]
  OBVIOUS
<1>b. \A u \in Services : upto[u] \in Nat /\ later[u] \in Nat
  OBVIOUS
<1>. HIDE DEF e, Entry
<1>2. Len(new) = Len(list) + 1 /\ new[1] = e /\ \A p \in 1..Len(list) : new[p + 1] = list[p]
  <2>1. << e >> \in Seq(Entry) /\ Len(<< e >>) = 1 /\ << e >>[1] = e
    BY <1>1
  <2>2. /\ Len(new) = 1 + Len(list)
        /\ \A p \in 1..(1 + Len(list)) : new[p] = IF p <= 1 THEN << e >>[p] ELSE list[p - 1]
    BY <2>1, ConcatProperties
  <2>. HIDE DEF new
  <2>3. \A p \in 1..Len(list) : p + 1 \in 1..(1 + Len(list)) /\ ~(p + 1 <= 1) /\ (p + 1) - 1 = p
    BY <1>1
  <2>4. 1 \in 1..(1 + Len(list))
    BY <1>1
  <2>. QED  BY <1>1, <2>1, <2>2, <2>3, <2>4
<1>. HIDE DEF new
<1>3. \A p \in 1..Len(new) : p = 1 \/ (p - 1 \in 1..Len(list) /\ new[p] = list[p - 1])
  <2> SUFFICES ASSUME NEW p \in 1..Len(new), p # 1
               PROVE  p - 1 \in 1..Len(list) /\ new[p] = list[p - 1]
    OBVIOUS
  <2>1. p - 1 \in 1..Len(list) /\ (p - 1) + 1 = p
    BY <1>1, <1>2
  <2>. QED  BY <1>2, <2>1
<1>4. \A p \in 1..Len(list) :
        /\ list[p].svc \in Services /\ list[p].k \in 1..upto[list[p].svc]
        /\ list[p].k \in 1..later[list[p].svc] /\ (list[p].svc = s => list[p].k < upto[s] + 1)
  <2> SUFFICES ASSUME NEW p \in 1..Len(list)
               PROVE  /\ list[p].svc \in Services /\ list[p].k \in 1..upto[list[p].svc]
                      /\ list[p].k \in 1..later[list[p].svc] /\ (list[p].svc = s => list[p].k < upto[s] + 1)
    OBVIOUS
  <2>1. list[p].svc \in Services /\ list[p].k \in 1..upto[list[p].svc]
    BY DEF HandlersAre
  <2>2. CASE list[p].svc = s
    BY <1>a, <1>b, <2>1, <2>2
  <2>3. CASE list[p].svc # s
    BY <1>a, <1>b, <2>1, <2>3
  <2>. QED  BY <2>1, <2>2, <2>3
<1>5. ASSUME NEW p \in 1..Len(new) PROVE new[p].svc \in Services /\ new[p].k \in 1..later[new[p].svc]
  <2>1. CASE p = 1
    <3>1. upto[s] + 1 \in 1..later[s]
      BY <1>a, <1>b
    <3>. QED  BY <1>1, <1>2, <2>1, <3>1
  <2>2. CASE p # 1
    <3>1. p - 1 \in 1..Len(list) /\ new[p] = list[p - 1]
      BY <1>3, <2>2
    <3>. QED  BY <1>4, <3>1
  <2>. QED  BY <2>1, <2>2
<1>6. ASSUME NEW p \in 1..Len(new), NEW q \in 1..Len(new), p < q PROVE Later(new, q, p)
  <2>1. q - 1 \in 1..Len(list) /\ new[q] = list[q - 1]
    BY <1>1, <1>2, <1>3, <1>6
  <2>2. CASE p = 1
    BY <1>1, <1>2, <1>4, <2>1, <2>2 DEF Later
  <2>3. CASE p # 1
    <3>1. p - 1 \in 1..Len(list) /\ new[p] = list[p - 1] /\ p - 1 < q - 1
      BY <1>1, <1>2, <1>3, <1>6, <2>3
    <3>2. Later(list, q - 1, p - 1)
      BY <2>1, <3>1 DEF HandlersAre
    <3>. QED  BY <2>1, <3>1, <3>2 DEF Later
  <2>. QED  BY <2>2, <2>3
<1>7. ASSUME NEW u \in Services, NEW k \in 1..later[u], program[u][k].verb = v
      PROVE  \E p \in 1..Len(new) : new[p] = EntryOf(u, k)
  <2>1. CASE k \in 1..upto[u]
    <3>1. PICK p \in 1..Len(list) : list[p] = EntryOf(u, k)
      BY <1>7, <2>1 DEF HandlersAre
    <3>2. p + 1 \in 1..Len(new) /\ new[p + 1] = list[p]
      BY <1>1, <1>2
    <3>. QED  BY <3>1, <3>2
  <2>2. CASE u = s /\ k = upto[s] + 1
    <3>1. 1 \in 1..Len(new) /\ new[1] = EntryOf(u, k)
      BY <1>1, <1>2, <2>2 DEF e
    <3>. QED  BY <3>1
  <2>3. k \in 1..upto[u] \/ (u = s /\ k = upto[s] + 1)
    BY <1>a, <1>b
  <2>. QED  BY <2>1, <2>2, <2>3
<1>. QED  BY <1>5, <1>6, <1>7 DEF HandlersAre, new, e

LEMMA OtherMethodKeeps ==
  ASSUME NEW list \in Seq(Entry), NEW v, NEW upto \in [Services -> Nat], NEW later \in [Services -> Nat],
         NEW program, NEW s \in Services, later = [upto EXCEPT ![s] = @ + 1],
         program[s][upto[s] + 1].verb # v, HandlersAre(list, v, upto, program)
  PROVE  HandlersAre(list, v, later, program)
<1>a. later[s] = upto[s] + 1 /\ \A u \in Services : u # s => later[u] = upto[u]
  OBVIOUS
<1>b. \A u \in Services : upto[u] \in Nat /\ later[u] \in Nat
  OBVIOUS
<1>1. ASSUME NEW p \in 1..Len(list) PROVE list[p].svc \in Services /\ list[p].k \in 1..later[list[p].svc]
  <2>1. list[p].svc \in Services /\ list[p].k \in 1..upto[list[p].svc]
    BY DEF HandlersAre
  <2>2. upto[list[p].svc] <= later[list[p].svc]
    BY <1>a, <1>b, <2>1
  <2>. QED  BY <1>b, <2>1, <2>2
<1>2. ASSUME NEW u \in Services, NEW k \in 1..later[u], program[u][k].verb = v
      PROVE  k \in 1..upto[u]
  <2>1. k \in 1..upto[u] \/ (u = s /\ k = upto[s] + 1)
    BY <1>a, <1>b
  <2>. QED  BY <1>2, <2>1
<1>. QED  BY <1>1, <1>2 DEF HandlersAre

-----------------------------------------------------------------------------
(* The invariant. *)

LEMMA ProgramTyped ==
  ASSUME TypeOK, NEW s \in Services
  PROVE  /\ apis[s] \in Seq(Api) /\ Len(apis[s]) \in Nat
         /\ \A k \in 1..Len(apis[s]) : apis[s][k] \in Api /\ apis[s][k].verb \in Verbs
<1>1. apis[s] \in Seq(Api)
  BY DEF TypeOK, Programmed
<1>2. \A k \in 1..Len(apis[s]) : apis[s][k] \in Api
  BY <1>1, ElementOfSeq
<1>. QED  BY <1>1, <1>2 DEF Api

LEMMA UptoTyped ==
  ASSUME TypeOK
  PROVE  /\ \A s \in Services : Upto(s) \in Nat /\ Uptos[s] = Upto(s)
         /\ Uptos \in [Services -> Nat]
<1>1. \A s \in Services : Upto(s) \in Nat
  BY ProgramTyped DEF Upto, TypeOK
<1>. QED  BY <1>1 DEF Uptos

LEMMA InitInv == Init => IInv
<1> SUFFICES ASSUME Init PROVE IInv
  OBVIOUS
<1>1. TypeOK
  <2>1. apis \in Programmed
    BY ProgramsAssumption DEF Init, Programmed
  <2>2. << >> \in Seq(Entry)
    BY EmptySeq
  <2>. QED  BY <2>1, <2>2 DEF Init, TypeOK
<1>2. \A s \in Services : Upto(s) = 0 /\ Uptos[s] = 0
  BY DEF Init, Upto, Uptos
<1>3. PhaseInv
  BY DEF Init, PhaseInv
<1>4. FilterInv
  BY DEF Init, FilterInv
<1>5. ASSUME NEW s \in Services PROVE ListIs(methods[s], s, Upto(s), apis[s])
  <2>1. methods[s] = << >> /\ Len(methods[s]) = 0
    BY DEF Init
  <2>. QED  BY <1>2, <2>1 DEF ListIs
<1>6. ASSUME NEW v \in Verbs PROVE HandlersAre(handlers[v], v, Uptos, apis)
  <2>1. handlers[v] = << >> /\ Len(handlers[v]) = 0
    BY DEF Init
  <2>. QED  BY <1>2, <2>1 DEF HandlersAre
<1>. QED  BY <1>1, <1>3, <1>4, <1>5, <1>6 DEF IInv

\* Nothing has been registered of a service still to visit.
LEMMA Unvisited ==
  ASSUME IInv, NEW s \in pending
  PROVE  s \in Services /\ Len(methods[s]) = 0 /\ methods[s] \in Seq(Entry)
<1>1. s \in Services /\ methods[s] \in Seq(Entry) /\ Len(methods[s]) \in Nat
  BY DEF IInv, TypeOK
<1>2. ListIs(methods[s], s, 0, apis[s])
  BY <1>1 DEF IInv, Upto
<1>3. \A p \in 1..Len(methods[s]) : FALSE
  BY <1>2 DEF ListIs
<1>4. Len(methods[s]) < 1
  <2> SUFFICES ASSUME Len(methods[s]) >= 1 PROVE FALSE
    BY <1>1
  <2>1. 1 \in 1..Len(methods[s])
    BY <1>1
  <2>. QED  BY <1>3, <2>1
<1>. QED  BY <1>1, <1>4

\* A step that registers nothing and removes nothing.
LEMMA ListsStand ==
  ASSUME IInv, UNCHANGED <<apis, methods, handlers>>, \A s \in Services : Upto(s)' = Upto(s)
  PROVE  /\ \A s \in Services : ListIs(methods'[s], s, Upto(s)', apis'[s])
         /\ \A v \in Verbs : HandlersAre(handlers'[v], v, Uptos', apis')
<1>1. Uptos' = Uptos
  BY DEF Uptos
<1>. QED  BY <1>1 DEF IInv

LEMMA BindStep == ASSUME IInv, Bind PROVE IInv'
<1> DEFINE s == current
           e == EntryOf(s, bound + 1)
           v == apis[s][bound + 1].verb
<1>1. /\ s \in Services /\ s \notin pending /\ bound \in Nat /\ bound + 1 \in 1..Len(apis[s])
      /\ i = 1 /\ Upto(s) = bound /\ v \in Verbs /\ Len(apis[s]) \in Nat
  <2>1. s \in Services /\ s \notin pending /\ bound \in Nat /\ bound < Len(apis[s]) /\ i = 1
    BY DEF Bind, IInv, PhaseInv, TypeOK
  <2>2. Len(apis[s]) \in Nat /\ \A k \in 1..Len(apis[s]) : apis[s][k].verb \in Verbs
    BY <2>1, ProgramTyped DEF IInv
  <2>3. bound + 1 \in 1..Len(apis[s])
    BY <2>1, <2>2
  <2>. QED  BY <2>1, <2>2, <2>3 DEF Upto
<1>2. /\ methods' = [methods EXCEPT ![s] = Append(methods[s], e)]
      /\ handlers' = [handlers EXCEPT ![v] = << e >> \o handlers[v]]
      /\ bound' = bound + 1
      /\ UNCHANGED <<stage, apis, pending, current, i>>
  <2>1. e.svc = s /\ e.k = bound + 1
    BY <1>1, EntryTyped
  <2>2. ApiOf(e) = apis[s][bound + 1]
    BY <2>1 DEF ApiOf
  <2>3. methods' = [methods EXCEPT ![e.svc] = Append(@, e)] /\ handlers' = [handlers EXCEPT ![ApiOf(e).verb] = << e >> \o @]
    BY DEF Bind, AddMethod, Handle
  <2>4. bound' = bound + 1 /\ UNCHANGED <<stage, apis, pending, current, i>>
    BY DEF Bind
  <2>. HIDE DEF e
  <2>. QED  BY <1>1, <2>1, <2>2, <2>3, <2>4
<1>3. methods \in [Services -> Seq(Entry)] /\ handlers \in [Verbs -> Seq(Entry)] /\ e \in Entry
  BY <1>1, EntryTyped DEF IInv, TypeOK
<1>4. TypeOK'
  <2>1. Append(methods[s], e) \in Seq(Entry)
    BY <1>1, <1>3, AppendProperties
  <2>2. << e >> \o handlers[v] \in Seq(Entry)
    <3>1. << e >> \in Seq(Entry) /\ handlers[v] \in Seq(Entry)
      BY <1>1, <1>3
    <3>. QED  BY <3>1, ConcatProperties
  <2>3. methods' \in [Services -> Seq(Entry)] /\ handlers' \in [Verbs -> Seq(Entry)]
    <3>. HIDE DEF e, s, v, Entry
    <3>. QED  BY <1>2, <1>3, <2>1, <2>2
  <2>. QED  BY <1>2, <1>1, <2>3 DEF TypeOK, IInv
<1>5. PhaseInv'
  BY <1>1, <1>2 DEF PhaseInv, IInv
<1>6. FilterInv'
  <2> SUFFICES ASSUME NEW u \in Services \ pending, NEW p \in 1..Len(methods'[u])
               PROVE  (u = s /\ p >= i) \/ apis[u][methods'[u][p].k].mine
    BY <1>2 DEF FilterInv
  <2>1. CASE u = s
    BY <1>1, <2>1
  <2>2. CASE u # s
    <3>1. methods'[u] = methods[u]
      BY <1>2, <1>3, <2>2
    <3>. QED  BY <2>2, <3>1 DEF IInv, FilterInv
  <2>. QED  BY <2>1, <2>2
<1>7. Upto(s)' = bound + 1 /\ \A u \in Services : u # s => Upto(u)' = Upto(u)
  BY <1>1, <1>2 DEF Upto
<1>8. ASSUME NEW u \in Services PROVE ListIs(methods'[u], u, Upto(u)', apis'[u])
  <2>1. CASE u = s
    <3>1. methods'[s] = Append(methods[s], e)
      BY <1>1, <1>2, <1>3
    <3>2. ListIs(methods[s], s, bound, apis[s]) /\ methods[s] \in Seq(Entry)
      BY <1>1, <1>3 DEF IInv
    <3>3. ListIs(Append(methods[s], e), s, bound + 1, apis[s])
      BY <1>1, <3>2, AppendKeeps
    <3>. QED  BY <1>2, <1>7, <2>1, <3>1, <3>3
  <2>2. CASE u # s
    <3>1. methods'[u] = methods[u]
      BY <1>2, <1>3, <2>2
    <3>. QED  BY <1>2, <1>7, <2>2, <3>1 DEF IInv
  <2>. QED  BY <2>1, <2>2
<1>9. ASSUME NEW w \in Verbs PROVE HandlersAre(handlers'[w], w, Uptos', apis')
  <2>1. Uptos \in [Services -> Nat] /\ Uptos[s] = bound
    BY <1>1, UptoTyped DEF IInv
  <2>2. Uptos' = [Uptos EXCEPT ![s] = @ + 1]
    <3>1. \A u \in Services : Uptos'[u] = IF u = s THEN Uptos[s] + 1 ELSE Uptos[u]
      <4>1. \A u \in Services : Uptos'[u] = Upto(u)' /\ Uptos[u] = Upto(u)
        BY DEF Uptos
      <4>2. Uptos'[s] = Uptos[s] + 1
        <5>1. Upto(s)' = Uptos'[s]
          BY <1>1, <1>2, <4>1
        <5>. QED  BY <1>7, <2>1, <5>1
      <4>3. \A u \in Services : u # s => Uptos'[u] = Uptos[u]
        BY <1>7, <4>1
      <4>. QED  BY <4>2, <4>3
    <3>. QED  BY <3>1 DEF Uptos
  <2>3. Uptos' \in [Services -> Nat]
    BY <1>1, <2>1, <2>2
  <2>4. HandlersAre(handlers[w], w, Uptos, apis) /\ handlers[w] \in Seq(Entry)
    BY <1>3 DEF IInv
  <2>5. CASE w = v
    <3>1. handlers'[w] = << e >> \o handlers[w]
      BY <1>2, <1>3, <2>5
    <3>2. HandlersAre(<< EntryOf(s, Uptos[s] + 1) >> \o handlers[w], w, Uptos', apis)
      <4>1. apis[s][Uptos[s] + 1].verb = w
        BY <2>1, <2>5
      <4>. HIDE DEF s, e, v
      <4>. QED  BY <1>1, <2>1, <2>2, <2>3, <2>4, <4>1, PrependKeeps
    <3>. QED  BY <1>2, <2>1, <3>1, <3>2
  <2>6. CASE w # v
    <3>1. handlers'[w] = handlers[w]
      BY <1>2, <1>3, <2>6
    <3>2. HandlersAre(handlers[w], w, Uptos', apis)
      <4>1. apis[s][Uptos[s] + 1].verb # w
        BY <2>1, <2>6
      <4>. HIDE DEF s, e, v
      <4>. QED  BY <1>1, <2>1, <2>2, <2>3, <2>4, <4>1, OtherMethodKeeps
    <3>. QED  BY <1>2, <3>1, <3>2
  <2>. QED  BY <2>5, <2>6
<1>10. ASSUME NEW u \in Services PROVE ListIs(methods[u], u, Upto(u), apis[u])'
  BY <1>8
<1>. QED  BY <1>4, <1>5, <1>6, <1>9, <1>10 DEF IInv

LEMMA FilterStep == ASSUME IInv, Filter PROVE IInv'
<1> DEFINE s == current
           list == methods[s]
<1>1. /\ s \in Services /\ s \notin pending /\ Upto(s) = Len(apis[s]) /\ Len(apis[s]) \in Nat
      /\ i \in Nat \ {0} /\ i \in 1..Len(list) /\ list \in Seq(Entry) /\ Len(list) \in Nat
      /\ methods \in [Services -> Seq(Entry)]
  <2>1. s \in Services /\ s \notin pending /\ bound = Len(apis[s]) /\ i <= Len(list)
    BY DEF Filter, Filtering, IInv, PhaseInv, TypeOK
  <2>2. Len(apis[s]) \in Nat
    BY <2>1, ProgramTyped DEF IInv
  <2>3. methods \in [Services -> Seq(Entry)] /\ i \in Nat \ {0}
    BY DEF IInv, TypeOK
  <2>4. list \in Seq(Entry) /\ Len(list) \in Nat
    BY <2>1, <2>3
  <2>. QED  BY <2>1, <2>2, <2>3, <2>4 DEF Upto
<1>2. UNCHANGED <<stage, apis, handlers, pending, current, bound>>
  BY DEF Filter
<1>3. \A u \in Services : Upto(u)' = Upto(u)
  BY <1>2 DEF Upto
<1>4. ListIs(list, s, Len(apis[s]), apis[s])
  BY <1>1 DEF IInv
<1>5. PhaseInv'
  BY <1>2, <1>1 DEF PhaseInv, IInv, Filter, Filtering
<1>6. \A v \in Verbs : HandlersAre(handlers'[v], v, Uptos', apis')
  BY <1>2, <1>3 DEF Uptos, IInv
<1>7. list[i].svc = s /\ list[i].k \in 1..Len(apis[s]) /\ ApiOf(list[i]) = apis[s][list[i].k]
  BY <1>1, <1>4 DEF ListIs, ApiOf
<1>8. CASE ApiOf(list[i]).mine /\ i' = i + 1 /\ UNCHANGED methods
  <2>1. TypeOK'
    BY <1>1, <1>2, <1>8 DEF TypeOK, IInv
  <2>2. FilterInv'
    <3> SUFFICES ASSUME NEW u \in Services \ pending, NEW p \in 1..Len(methods[u])
                 PROVE  (u = s /\ p >= i + 1) \/ apis[u][methods[u][p].k].mine
      BY <1>2, <1>8 DEF FilterInv
    <3>1. (u = s /\ p >= i) \/ apis[u][methods[u][p].k].mine
      BY DEF IInv, FilterInv
    <3>2. CASE u = s /\ p = i
      BY <1>7, <1>8, <3>2
    <3>3. CASE u = s /\ p # i
      BY <1>1, <3>1, <3>3
    <3>. QED  BY <3>1, <3>2, <3>3
  <2>3. \A u \in Services : ListIs(methods'[u], u, Upto(u)', apis'[u])
    BY <1>2, <1>3, <1>8 DEF IInv
  <2>. QED  BY <1>5, <1>6, <2>1, <2>2, <2>3 DEF IInv
<1>9. CASE ~ApiOf(list[i]).mine /\ methods' = [methods EXCEPT ![s] = RemoveAt(@, i)] /\ UNCHANGED i
  <2> DEFINE new == RemoveAt(list, i)
  <2>1. /\ new \in Seq(Entry) /\ Len(new) = Len(list) - 1
        /\ \A p \in 1..(Len(list) - 1) : new[p] = IF p < i THEN list[p] ELSE list[p + 1]
    BY <1>1, RemoveAtProperties
  <2>2. ListIs(new, s, Len(apis[s]), apis[s])
    <3>1. ~apis[s][list[i].k].mine
      BY <1>7, <1>9
    <3>. HIDE DEF s, list
    <3>. QED  BY <1>1, <1>4, <3>1, RemoveKeeps
  <2>. HIDE DEF new
  <2>3. methods'[s] = new /\ (\A u \in Services : u # s => methods'[u] = methods[u])
        /\ methods' \in [Services -> Seq(Entry)]
    <3>1. methods' = [methods EXCEPT ![s] = new]
      BY <1>9 DEF new
    <3>. HIDE DEF list
    <3>. QED  BY <1>1, <2>1, <3>1
  <2>4. TypeOK'
    BY <1>2, <1>9, <2>3 DEF TypeOK, IInv
  <2>5. FilterInv'
    <3> SUFFICES ASSUME NEW u \in Services \ pending, NEW p \in 1..Len(methods'[u])
                 PROVE  (u = s /\ p >= i) \/ apis[u][methods'[u][p].k].mine
      BY <1>2, <1>9 DEF FilterInv
    <3>1. CASE u = s /\ p < i
      <4>1. p \in 1..(Len(list) - 1) /\ p \in 1..Len(list) /\ new[p] = list[p]
        BY <1>1, <2>1, <2>3, <3>1
      <4>2. apis[s][list[p].k].mine
        BY <1>1, <3>1, <4>1 DEF IInv, FilterInv
      <4>. QED  BY <2>3, <3>1, <4>1, <4>2
    <3>2. CASE u = s /\ ~(p < i)
      BY <1>1, <2>1, <2>3, <3>2
    <3>3. CASE u # s
      BY <2>3, <3>3 DEF IInv, FilterInv
    <3>. QED  BY <3>1, <3>2, <3>3
  <2>6. ASSUME NEW u \in Services PROVE ListIs(methods'[u], u, Upto(u)', apis'[u])
    <3>1. CASE u = s
      BY <1>1, <1>2, <1>3, <2>2, <2>3, <3>1
    <3>2. CASE u # s
      BY <1>2, <1>3, <2>3, <3>2 DEF IInv
    <3>. QED  BY <3>1, <3>2
  <2>7. ASSUME NEW u \in Services PROVE ListIs(methods[u], u, Upto(u), apis[u])'
    BY <2>6
  <2>. QED  BY <1>5, <1>6, <2>4, <2>5, <2>7 DEF IInv
<1>. QED  BY <1>8, <1>9 DEF Filter

LEMMA StepInv == IInv /\ [Next]_vars => IInv'
<1> SUFFICES ASSUME IInv, [Next]_vars PROVE IInv'
  OBVIOUS
<1>a. ASSUME TypeOK', PhaseInv', FilterInv', UNCHANGED <<apis, methods, handlers>>,
             \A s \in Services : Upto(s)' = Upto(s)
      PROVE  IInv'
  BY <1>a, ListsStand DEF IInv
<1>0. CASE UNCHANGED vars
  BY <1>0 DEF vars, IInv, TypeOK, PhaseInv, FilterInv, Upto, Uptos
<1>1. ASSUME NEW s \in Services, AddService(s) PROVE IInv'
  <2>1. UNCHANGED <<stage, apis, methods, handlers, pending, current, bound, i>>
    BY <1>1 DEF AddService
  <2>. QED  BY <1>a, <2>1 DEF IInv, TypeOK, PhaseInv, FilterInv, Upto
<1>2. ASSUME NEW s \in Services, Register(s) PROVE IInv'
  <2>1. /\ s \in pending /\ stage = "bootstrap" /\ current = "none" /\ pending' = pending \ {s} /\ current' = s
        /\ bound' = 0 /\ i' = 1 /\ UNCHANGED <<stage, apis, methods, handlers>>
    BY <1>2 DEF Register, Visitable
  <2>2. Len(methods[s]) = 0
    BY <2>1, Unvisited
  <2>3. TypeOK'
    BY <2>1 DEF IInv, TypeOK
  <2>4. Len(apis[s]) \in Nat
    BY ProgramTyped DEF IInv
  <2>5. PhaseInv'
    BY <2>1, <2>4 DEF PhaseInv
  <2>6. FilterInv'
    BY <2>1, <2>2, NoneAssumption DEF FilterInv, IInv
  <2>7. \A u \in Services : Upto(u)' = Upto(u)
    BY <2>1, NoneAssumption DEF Upto
  <2>. QED  BY <1>a, <2>1, <2>3, <2>5, <2>6, <2>7
<1>3. CASE SetGatewayServiceHook
  <2>1. stage = "init" /\ stage' = "bootstrap" /\ UNCHANGED <<apis, methods, handlers, pending, current, bound, i>>
    BY <1>3 DEF SetGatewayServiceHook
  <2>. QED  BY <1>a, <2>1 DEF IInv, TypeOK, PhaseInv, FilterInv, Upto
<1>4. CASE Bind
  BY <1>4, BindStep
<1>5. CASE Filter
  BY <1>5, FilterStep
<1>6. CASE Filtered
  <2>1. /\ current # "none" /\ bound = Len(apis[current]) /\ i > Len(methods[current]) /\ current' = "none"
        /\ stage' = (IF pending = {} THEN "enabling" ELSE stage) /\ UNCHANGED <<apis, methods, handlers, pending, bound, i>>
    BY <1>6 DEF Filtered, Filtering
  <2>2. TypeOK'
    BY <2>1 DEF IInv, TypeOK
  <2>3. PhaseInv'
    BY <2>1 DEF IInv, PhaseInv
  <2>4. FilterInv'
    <3>1. current \in Services /\ Len(methods[current]) \in Nat /\ i \in Nat
      BY <2>1 DEF IInv, TypeOK
    <3>2. \A p \in 1..Len(methods[current]) : ~(p >= i)
      BY <2>1, <3>1
    <3>. QED  BY <2>1, <3>2 DEF IInv, FilterInv
  <2>5. \A u \in Services : Upto(u)' = Upto(u)
    BY <2>1, NoneAssumption DEF Upto
  <2>. QED  BY <1>a, <2>1, <2>2, <2>3, <2>4, <2>5
<1>7. ASSUME NEW g \in Groups, Enable(g) PROVE IInv'
  <2>1. stage = "enabling" /\ stage' \in {"enabling", "panicked"} /\ UNCHANGED <<apis, methods, handlers, pending, current, bound, i>>
    BY <1>7 DEF Enable
  <2>. QED  BY <1>a, <2>1 DEF IInv, TypeOK, PhaseInv, FilterInv, Upto
<1>8. CASE Serve
  <2>1. stage = "enabling" /\ stage' = "serving" /\ UNCHANGED <<apis, methods, handlers, pending, current, bound, i>>
    BY <1>8 DEF Serve
  <2>. QED  BY <1>a, <2>1 DEF IInv, TypeOK, PhaseInv, FilterInv, Upto
<1>. QED  BY <1>0, <1>1, <1>2, <1>3, <1>4, <1>5, <1>6, <1>7, <1>8 DEF Next

LEMMA Invariance == Spec => []IInv
BY InitInv, StepInv, PTL DEF Spec

\* However the bindings of this gateway and of others are mixed, the loop that
\* deletes from the list it walks leaves this gateway's, each once and in order.
THEOREM FiltersExactly == Spec => []FilterExact
<1>1. IInv => FilterExact
  <2> SUFFICES ASSUME IInv, NEW s \in Services, s \notin pending, s # current
               PROVE  /\ \A k \in DOMAIN apis[s] : apis[s][k].mine =>
                           \E p \in DOMAIN methods[s] : methods[s][p] = EntryOf(s, k)
                      /\ \A p \in DOMAIN methods[s] :
                           \E k \in DOMAIN apis[s] : apis[s][k].mine /\ methods[s][p] = EntryOf(s, k)
                      /\ \A p, q \in DOMAIN methods[s] : p < q => Later(methods[s], p, q)
    BY DEF FilterExact
  <2>1. /\ methods[s] \in Seq(Entry) /\ DOMAIN methods[s] = 1..Len(methods[s])
        /\ apis[s] \in Seq(Api) /\ DOMAIN apis[s] = 1..Len(apis[s])
    BY ProgramTyped, LenProperties DEF IInv, TypeOK
  <2>2. ListIs(methods[s], s, Len(apis[s]), apis[s])
    BY DEF IInv, Upto
  <2>3. ASSUME NEW p \in 1..Len(methods[s])
        PROVE  \E k \in 1..Len(apis[s]) : apis[s][k].mine /\ methods[s][p] = EntryOf(s, k)
    <3>1. methods[s][p] \in Entry
      BY <2>1, ElementOfSeq
    <3>2. methods[s][p].svc = s /\ methods[s][p].k \in 1..Len(apis[s])
      BY <2>2 DEF ListIs
    <3>3. methods[s][p] = EntryOf(s, methods[s][p].k)
      BY <3>1, <3>2 DEF Entry, EntryOf
    <3>4. apis[s][methods[s][p].k].mine
      BY DEF IInv, FilterInv
    <3>. QED  BY <3>2, <3>3, <3>4
  <2>. QED  BY <2>1, <2>2, <2>3 DEF ListIs, Later
<1>. QED  BY <1>1, Invariance, PTL

\* When the gateway serves, every binding of every service has one handler under
\* its HTTP method, and of two of a service the later declared is tried first.
THEOREM RoutesAll == Spec => []RoutesComplete
<1>1. IInv => RoutesComplete
  <2> SUFFICES ASSUME IInv, stage = "serving", NEW v \in Verbs
               PROVE  /\ \A s \in Services : \A k \in DOMAIN apis[s] : apis[s][k].verb = v =>
                           \E p \in DOMAIN handlers[v] : handlers[v][p] = EntryOf(s, k)
                      /\ \A p, q \in DOMAIN handlers[v] : p < q => Later(handlers[v], q, p)
    BY DEF RoutesComplete
  <2>1. handlers[v] \in Seq(Entry) /\ DOMAIN handlers[v] = 1..Len(handlers[v])
    BY LenProperties DEF IInv, TypeOK
  <2>2. \A s \in Services : DOMAIN apis[s] = 1..Len(apis[s]) /\ Uptos[s] = Len(apis[s])
    BY ProgramTyped, LenProperties, NoneAssumption DEF IInv, PhaseInv, Upto, Uptos
  <2>. QED  BY <2>1, <2>2 DEF IInv, HandlersAre
<1>. QED  BY <1>1, Invariance, PTL

-----------------------------------------------------------------------------
(* The names of Go packages. *)


\* "%s_%d" is never the empty text, which stands for no alias.
NumberedNonEmpty == \A name, n : Numbered(name, n) # ""

\* The name a package goes by is reserved for it.
Owned(p) == Pkg(p) \in DOMAIN aliases /\ aliases[Pkg(p)] = p.path

\* It is the package's own name, or the first alternative nobody else has.
First(p) ==
  IF p.alias = "" THEN Available(p.name, p.path)
  ELSE \E n \in Nat :
         /\ p.alias = Numbered(p.name, n)
         /\ ~Available(p.name, p.path) /\ Available(p.alias, p.path)
         /\ \A j \in 0..(n - 1) : ~Available(Numbered(p.name, j), p.path)

\* The standard names belong to their imports.
StandardOwned ==
  \A n \in StandardNames : n \in DOMAIN aliases /\ aliases[n] = Owner(n)

\* A Go package has a path, a name and an alias, and nothing else.
IsPackage(p) == p = Package(p.path, p.name, p.alias)

NamesInv ==
  /\ phase = "rules" => DOMAIN goPkg = {}
  /\ phase = "files" => todo \cap DOMAIN goPkg = {}
  /\ phase = "files" \/ DOMAIN goPkg # {} => StandardOwned
  /\ \A f \in DOMAIN goPkg : IsPackage(goPkg[f]) /\ Owned(goPkg[f]) /\ First(goPkg[f])

-----------------------------------------------------------------------------
\* What LoadFile comes to: a file that was not loaded gets a package, whose
\* name nobody else had.
Takes(f, p) ==
  /\ phase = "files" /\ f \in todo
  /\ IsPackage(p) /\ First(p) /\ Available(Pkg(p), p.path)
  /\ p.path = File(f).path /\ p.name = File(f).name
  /\ aliases' = Reserved(Pkg(p), p.path)
  /\ goPkg' = [g \in DOMAIN goPkg \cup {f} |-> IF g = f THEN p ELSE goPkg[g]]
  /\ todo' = todo \ {f}
  /\ phase' = IF todo = {f} THEN "services" ELSE phase
  /\ UNCHANGED <<req, services>>

\* The package LoadFile picks is the first that is available.
LEMMA LoadFileTakes ==
  ASSUME NumberedNonEmpty, NEW f, LoadFile(f)
  PROVE  \E p : Takes(f, p)
<1> DEFINE name == File(f).name
           path == File(f).path
           Take(alias, local) ==
             /\ aliases' = Reserved(local, path)
             /\ goPkg' = [g \in DOMAIN goPkg \cup {f} |->
                            IF g = f THEN Package(path, name, alias) ELSE goPkg[g]]
<1>1. /\ phase = "files" /\ f \in todo /\ todo' = todo \ {f}
      /\ phase' = IF todo = {f} THEN "services" ELSE phase
      /\ UNCHANGED <<req, services>>
  BY DEF LoadFile
<1>2. CASE Available(name, path) /\ Take("", name)
  <2> DEFINE p == Package(path, name, "")
  <2>1. p.path = path /\ p.name = name /\ p.alias = "" /\ Pkg(p) = name
    BY DEF Package, Pkg
  <2>2. First(p) /\ Available(Pkg(p), p.path)
    BY <1>2, <2>1 DEF First
  <2>3. IsPackage(p)
    BY <2>1 DEF IsPackage
  <2>. QED  BY <1>1, <1>2, <2>1, <2>2, <2>3 DEF Takes
<1>3. CASE /\ ~Available(name, path)
           /\ \E n \in 0..Cardinality(DOMAIN aliases) :
                /\ Available(Numbered(name, n), path)
                /\ \A j \in 0..(n - 1) : ~Available(Numbered(name, j), path)
                /\ Take(Numbered(name, n), Numbered(name, n))
  <2>1. PICK n \in 0..Cardinality(DOMAIN aliases) :
          /\ Available(Numbered(name, n), path)
          /\ \A j \in 0..(n - 1) : ~Available(Numbered(name, j), path)
          /\ Take(Numbered(name, n), Numbered(name, n))
    BY <1>3
  <2> DEFINE p == Package(path, name, Numbered(name, n))
  <2>2. p.path = path /\ p.name = name /\ p.alias = Numbered(name, n) /\ p.alias # ""
    BY DEF Package, NumberedNonEmpty
  <2>3. Pkg(p) = Numbered(name, n)
    BY <2>2 DEF Pkg
  <2>4. n \in Nat
    OBVIOUS
  <2>5. First(p)
    BY <1>3, <2>1, <2>2, <2>4 DEF First
  <2>6. IsPackage(p)
    BY <2>2 DEF IsPackage
  <2>. QED  BY <1>1, <2>1, <2>2, <2>3, <2>5, <2>6 DEF Takes
<1>4. \/ Available(name, path) /\ Take("", name)
      \/ /\ ~Available(name, path)
         /\ \E n \in 0..Cardinality(DOMAIN aliases) :
              /\ Available(Numbered(name, n), path)
              /\ \A j \in 0..(n - 1) : ~Available(Numbered(name, j), path)
              /\ Take(Numbered(name, n), Numbered(name, n))
  BY DEF LoadFile
<1>. QED  BY <1>2, <1>3, <1>4

\* A reservation that was free to make changes nobody's name but the reserver's.
LEMMA ReservedKeeps ==
  ASSUME NEW a, NEW path, Available(a, path), aliases' = Reserved(a, path)
  PROVE  /\ \A n \in DOMAIN aliases : n \in DOMAIN aliases' /\ aliases'[n] = aliases[n]
         /\ a \in DOMAIN aliases' /\ aliases'[a] = path
         /\ \A n, q : ~Available(n, q) => ~Available(n, q)'
BY DEF Available, Reserved

\* Who has a name keeps it, and it stays the first that was to be had: what
\* others had already is not given back.
LEMMA PackageKept ==
  ASSUME NEW p, Owned(p), First(p),
         \A n \in DOMAIN aliases : n \in DOMAIN aliases' /\ aliases'[n] = aliases[n],
         \A n, q : ~Available(n, q) => ~Available(n, q)'
  PROVE  Owned(p)' /\ First(p)'
<1>1. Pkg(p) \in DOMAIN aliases' /\ aliases'[Pkg(p)] = p.path
  BY DEF Owned
<1>2. ASSUME p.alias = ""
      PROVE  Available(p.name, p.path)'
  BY <1>1, <1>2 DEF Pkg, Available
<1>3. ASSUME p.alias # ""
      PROVE  \E n \in Nat :
               /\ p.alias = Numbered(p.name, n)
               /\ ~Available(p.name, p.path)' /\ Available(p.alias, p.path)'
               /\ \A j \in 0..(n - 1) : ~Available(Numbered(p.name, j), p.path)'
  <2>1. PICK n \in Nat :
          /\ p.alias = Numbered(p.name, n)
          /\ ~Available(p.name, p.path)
          /\ \A j \in 0..(n - 1) : ~Available(Numbered(p.name, j), p.path)
    BY <1>3 DEF First
  <2>2. Available(p.alias, p.path)'
    BY <1>1, <1>3 DEF Pkg, Available
  <2>. QED  BY <2>1, <2>2
<1>4. Owned(p)'
  BY <1>1 DEF Owned, Pkg
<1>5. First(p)'
  BY <1>2, <1>3 DEF First
<1>. QED  BY <1>4, <1>5

-----------------------------------------------------------------------------
LEMMA NamesInit == DescriptorsInit => NamesInv
BY DEF DescriptorsInit, NamesInv

LEMMA NamesLoadFile ==
  ASSUME NamesInv, NEW f, NEW p, Takes(f, p)
  PROVE  NamesInv'
<1>1. /\ \A n \in DOMAIN aliases : n \in DOMAIN aliases' /\ aliases'[n] = aliases[n]
      /\ Pkg(p) \in DOMAIN aliases' /\ aliases'[Pkg(p)] = p.path
      /\ \A n, q : ~Available(n, q) => ~Available(n, q)'
  BY ReservedKeeps DEF Takes
<1>2. StandardOwned'
  BY <1>1 DEF Takes, NamesInv, StandardOwned, StandardNames, Owner
<1>3. (phase = "rules" => DOMAIN goPkg = {})' /\ (phase = "files" => todo \cap DOMAIN goPkg = {})'
  BY DEF Takes, NamesInv
<1>4. ASSUME NEW g \in DOMAIN goPkg', NEW q, q = goPkg'[g]
      PROVE  IsPackage(q) /\ Owned(q)' /\ First(q)'
  <2>1. CASE g # f
    <3>1. IsPackage(q) /\ Owned(q) /\ First(q)
      BY <1>4, <2>1 DEF Takes, NamesInv
    <3>. QED  BY <1>1, <3>1, PackageKept DEF Owned, First, Available, Pkg
  <2>2. CASE g = f
    <3>1. q = p /\ IsPackage(p) /\ First(p)
      BY <1>4, <2>2 DEF Takes
    <3>2. Owned(p)'
      BY <1>1 DEF Owned, Pkg
    <3>3. ASSUME p.alias = ""
          PROVE  First(p)'
      BY <1>1, <3>1, <3>3 DEF First, Pkg, Available
    <3>4. ASSUME p.alias # ""
          PROVE  First(p)'
      <4>1. PICK n \in Nat :
              /\ p.alias = Numbered(p.name, n) /\ ~Available(p.name, p.path)
              /\ \A j \in 0..(n - 1) : ~Available(Numbered(p.name, j), p.path)
        BY <3>1, <3>4 DEF First
      <4>2. /\ ~Available(p.name, p.path)'
            /\ \A j \in 0..(n - 1) : ~Available(Numbered(p.name, j), p.path)'
        BY <1>1, <4>1
      <4>3. Available(p.alias, p.path)'
        BY <1>1, <3>4 DEF Pkg, Available
      <4>. QED  BY <3>4, <4>1, <4>2, <4>3 DEF First
    <3>5. First(p)'
      BY <3>3, <3>4
    <3>. QED  BY <3>1, <3>2, <3>5 DEF Owned, First, Available, Pkg
  <2>. QED  BY <2>1, <2>2
<1>5. \A g \in DOMAIN goPkg' : IsPackage(goPkg'[g]) /\ Owned(goPkg[g])' /\ First(goPkg[g])'
  BY <1>4 DEF Owned, First, Available, Pkg
<1>. QED  BY <1>2, <1>3, <1>5 DEF NamesInv, IsPackage, Package

LEMMA NamesStep ==
  ASSUME NumberedNonEmpty, NamesInv, [Load]_descriptorVars
  PROVE  NamesInv'
<1>1. CASE AddExternalHTTPRule
  BY <1>1 DEF AddExternalHTTPRule, Fail, NamesInv
<1>2. CASE New
  <2>1. goPkg' = goPkg /\ DOMAIN goPkg = {} /\ phase' = "files"
    BY <1>2 DEF New, NamesInv
  <2>2. StandardOwned'
    BY <1>2 DEF New, StandardOwned, StandardNames, Owner
  <2>. QED  BY <2>1, <2>2 DEF NamesInv
<1>3. CASE \E f \in DOMAIN req.files : LoadFile(f)
  BY <1>3, LoadFileTakes, NamesLoadFile
<1>4. ASSUME UNCHANGED <<goPkg, aliases, todo>>, phase' = phase \/ phase' \notin {"rules", "files"}
      PROVE  NamesInv'
  BY <1>4 DEF NamesInv, StandardOwned, StandardNames, Owner, Owned, First, Available, Pkg
<1>5. CASE \E f \in DOMAIN req.files : LoadServices(f)
  BY <1>4, <1>5 DEF LoadServices, Fail
<1>6. CASE CheckUnbound
  BY <1>4, <1>6 DEF CheckUnbound
<1>7. CASE UNCHANGED descriptorVars
  BY <1>4, <1>7 DEF descriptorVars
<1>. QED  BY <1>1, <1>2, <1>3, <1>5, <1>6, <1>7 DEF Load

\* While files are loaded, and later, the names of the packages are the first
\* each could have, and the standard names belong to the imports.
THEOREM NamesInvariant == ASSUME NumberedNonEmpty PROVE LoadSpec => []NamesInv
<1>1. NamesInv /\ [Load]_descriptorVars => NamesInv'
  BY NamesStep
<1>. QED  BY NamesInit, <1>1, PTL DEF LoadSpec

-----------------------------------------------------------------------------
\* In whatever order the files come, two packages never share a name: what
\* ImportsSound needs of the imports of one file.
THEOREM DistinctNames == ASSUME NumberedNonEmpty PROVE LoadSpec => []NamesDistinct
<1>1. NamesInv => NamesDistinct
  BY DEF NamesInv, NamesDistinct, Owned
<1>. QED  BY NamesInvariant, <1>1, PTL

\* All files of a package call it by one name, whoever reserved names between
\* the loading of two of them.
THEOREM OneName == ASSUME NumberedNonEmpty PROVE LoadSpec => []OneNameEach
<1>1. ASSUME NEW p, NEW q, IsPackage(p), IsPackage(q), First(p), First(q),
             p.path = q.path, p.name = q.name
      PROVE  p = q
  <2>1. (p.alias = "") <=> (q.alias = "")
    BY <1>1 DEF First
  <2>2. CASE p.alias # ""
    <3>1. PICK n \in Nat :
            /\ p.alias = Numbered(p.name, n) /\ Available(p.alias, p.path)
            /\ \A j \in 0..(n - 1) : ~Available(Numbered(p.name, j), p.path)
      BY <1>1, <2>2 DEF First
    <3>2. PICK k \in Nat :
            /\ q.alias = Numbered(p.name, k) /\ Available(q.alias, p.path)
            /\ \A j \in 0..(k - 1) : ~Available(Numbered(p.name, j), p.path)
      BY <1>1, <2>1, <2>2 DEF First
    <3>3. ~(n < k) /\ ~(k < n)
      <4>1. n < k => n \in 0..(k - 1)
        OBVIOUS
      <4>2. k < n => k \in 0..(n - 1)
        OBVIOUS
      <4>. QED  BY <3>1, <3>2, <4>1, <4>2
    <3>4. n = k
      BY <3>3
    <3>. QED  BY <1>1, <3>1, <3>2, <3>4 DEF IsPackage
  <2>3. CASE p.alias = ""
    BY <1>1, <2>1, <2>3 DEF IsPackage
  <2>. QED  BY <2>2, <2>3
<1>2. NamesInv => OneNameEach
  BY <1>1 DEF NamesInv, OneNameEach
<1>. QED  BY NamesInvariant, <1>2, PTL

\* No package takes the name of an import that every generated file has.
THEOREM StandardNamesSafe == ASSUME NumberedNonEmpty PROVE LoadSpec => []StandardNamesKept
<1>1. NamesInv => StandardNamesKept
  BY DEF NamesInv, StandardNamesKept, StandardOwned, Owned
<1>. QED  BY NamesInvariant, <1>1, PTL

\* A loaded file keeps its package.
THEOREM PackagesSettle == ASSUME NumberedNonEmpty PROVE LoadSpec => PackagesSettled
<1> DEFINE Settled == \A f \in DOMAIN goPkg : f \in DOMAIN goPkg' /\ goPkg'[f] = goPkg[f]
<1>1. NamesInv /\ [Load]_descriptorVars => [Settled]_descriptorVars
  <2> SUFFICES ASSUME NamesInv, Load PROVE Settled
    BY DEF descriptorVars
  <2>1. CASE \E f \in DOMAIN req.files : LoadFile(f)
    <3>1. PICK f, p : Takes(f, p)
      BY <2>1, LoadFileTakes
    <3>. QED  BY <3>1 DEF Takes, NamesInv
  <2>2. CASE ~\E f \in DOMAIN req.files : LoadFile(f)
    BY <2>2 DEF Load, AddExternalHTTPRule, New, LoadServices, CheckUnbound
  <2>. QED  BY <2>1, <2>2
<1>2. LoadSpec => [][Settled]_descriptorVars
  BY NamesInvariant, <1>1, PTL DEF LoadSpec
<1>. QED  BY <1>2 DEF PackagesSettled

-----------------------------------------------------------------------------
(* The imports of generated code.  The services of a loaded file name      *)
(* messages that are loaded, so every package its code needs is one the    *)
(* theorems about names speak of.                                          *)

\* A set of naturals that is not empty has a least element.
LEMMA Least ==
  ASSUME NEW S, S \subseteq Nat, S # {}
  PROVE  \E n \in S : \A m \in S : n <= m
<1> DEFINE R == { ss \in Nat \X Nat : ss[1] < ss[2] }
<1>1. IsWellFoundedOn(R, Nat)
  BY NatLessThanWellFounded DEF OpToRel
<1>2. PICK n \in S : \A m \in S : ~(<<m, n>> \in R)
  BY <1>1, WFMin
<1>3. \A k, m \in Nat : k < m => <<k, m>> \in R
  OBVIOUS
<1>. HIDE DEF R
<1>4. \A m \in S : m \in Nat /\ n \in Nat /\ ~(m < n)
  BY <1>2, <1>3
<1>5. \A m \in S : n <= m
  BY <1>4
<1>. QED  BY <1>2, <1>5

\* Induction up to n, on a set: 1 is in it, and k + 1 whenever k is.
LEMMA Climb ==
  ASSUME NEW n \in Nat, NEW S, 1 \in S, \A k \in 1..(n - 1) : k \in S => k + 1 \in S
  PROVE  \A k \in 1..n : k \in S
<1> DEFINE Bad == (1..n) \ S
<1> SUFFICES ASSUME Bad # {} PROVE FALSE
  OBVIOUS
<1>1. PICK m \in Bad : \A k \in Bad : m <= k
  <2>1. Bad \subseteq Nat
    OBVIOUS
  <2>. HIDE DEF Bad
  <2>. QED  BY Least, <2>1
<1>2. m # 1 /\ m - 1 \in 1..(n - 1)
  BY <1>1
<1>3. m - 1 \in S
  BY <1>1, <1>2
<1>4. (m - 1) + 1 \in S
  BY <1>2, <1>3
<1>. QED  BY <1>1, <1>4

\* g[m] is the concatenation of the first m of the sequences.
Joins(g, seqs, n) == g = [m \in 1..n |-> IF m = 1 THEN seqs[m] ELSE g[m - 1] \o seqs[m]]

\* The joins of the first m sequences extend to the next one.
LEMMA JoinsExtends ==
  ASSUME NEW seqs, NEW m \in Nat, NEW g, Joins(g, seqs, m)
  PROVE  \E h : Joins(h, seqs, m + 1)
<1> DEFINE v == IF m + 1 = 1 THEN seqs[m + 1] ELSE g[m] \o seqs[m + 1]
           h == [k \in 1..(m + 1) |-> IF k = m + 1 THEN v ELSE g[k]]
<1>2. \A k \in 1..(m + 1) : h[k] = IF k = 1 THEN seqs[k] ELSE h[k - 1] \o seqs[k]
  <2> SUFFICES ASSUME NEW k \in 1..(m + 1)
               PROVE  h[k] = IF k = 1 THEN seqs[k] ELSE h[k - 1] \o seqs[k]
    OBVIOUS
  <2>1. CASE k = m + 1
    <3>1. k # 1 => h[k - 1] = g[k - 1] /\ k - 1 = m
      BY <2>1
    <3>. QED  BY <2>1, <3>1
  <2>2. CASE k # m + 1
    <3>1. k \in 1..m /\ h[k] = g[k]
      BY <2>2
    <3>2. k # 1 => h[k - 1] = g[k - 1]
      BY <3>1
    <3>3. g[k] = IF k = 1 THEN seqs[k] ELSE g[k - 1] \o seqs[k]
      BY <3>1 DEF Joins
    <3>. QED  BY <3>1, <3>2, <3>3
  <2>. QED  BY <2>1, <2>2
<1>3. h = [k \in 1..(m + 1) |-> h[k]]
  OBVIOUS
<1>4. Joins(h, seqs, m + 1)
  <2>. HIDE DEF h
  <2>. QED  BY <1>2, <1>3 DEF Joins
<1>. QED  BY <1>4

\* So they exist, however many sequences there are.
LEMMA JoinsExists ==
  ASSUME NEW seqs, NEW n \in Nat, n > 0
  PROVE  \E g : Joins(g, seqs, n)
<1> DEFINE S == { m \in Nat : \E g : Joins(g, seqs, m) }
<1>1. 1 \in S
  <2> DEFINE g == [m \in 1..1 |-> seqs[m]]
  <2>1. \A m \in 1..1 : seqs[m] = IF m = 1 THEN seqs[m] ELSE g[m - 1] \o seqs[m]
    OBVIOUS
  <2>2. Joins(g, seqs, 1)
    BY <2>1 DEF Joins
  <2>. QED  BY <2>2
<1>2. \A k \in 1..(n - 1) : k \in S => k + 1 \in S
  BY JoinsExtends
<1>3. n \in S
  <2>. HIDE DEF S
  <2>. QED  BY Climb, <1>1, <1>2
<1>. QED  BY <1>3

\* What FlattenSeq makes of n sequences: the last of their joins.
Flattens(g, seqs, n) ==
  /\ FlattenSeq(seqs) = g[n] /\ g[1] = seqs[1]
  /\ \A m \in 1..(n - 1) : g[m + 1] = g[m] \o seqs[m + 1]

LEMMA FlattenJoins ==
  ASSUME NEW S, NEW n \in Nat, n > 0, NEW seqs \in [1..n -> Seq(S)]
  PROVE  \E g \in [1..n -> Seq(S)] : Flattens(g, seqs, n)
<1>1. Len(seqs) = n
  BY IsASeq
<1> DEFINE g == CHOOSE f : Joins(f, seqs, n)
<1>2. Joins(g, seqs, n)
  BY JoinsExists
<1>3. FlattenSeq(seqs) = g[n]
  BY <1>1 DEF FlattenSeq, Joins
<1>. HIDE DEF g
<1>4. \A m \in 1..n : g[m] = IF m = 1 THEN seqs[m] ELSE g[m - 1] \o seqs[m]
  BY <1>2 DEF Joins
<1>5. 1 \in 1..n /\ \A m \in 1..(n - 1) : m + 1 \in 1..n /\ m + 1 # 1 /\ (m + 1) - 1 = m
  OBVIOUS
<1>6. Flattens(g, seqs, n)
  BY <1>3, <1>4, <1>5 DEF Flattens
<1> DEFINE T == { m \in 1..n : g[m] \in Seq(S) }
<1>7. 1 \in T
  BY <1>5, <1>6 DEF Flattens
<1>8. ASSUME NEW m \in 1..(n - 1), m \in T PROVE m + 1 \in T
  <2>1. g[m] \in Seq(S) /\ seqs[m + 1] \in Seq(S) /\ m + 1 \in 1..n
    BY <1>8
  <2>2. g[m + 1] = g[m] \o seqs[m + 1]
    BY <1>6 DEF Flattens
  <2>3. g[m] \o seqs[m + 1] \in Seq(S)
    BY <2>1
  <2>. HIDE DEF Joins, g
  <2>. QED  BY <2>1, <2>2, <2>3
<1>9. \A m \in 1..n : m \in T
  <2>. HIDE DEF T
  <2>. QED  BY <1>7, <1>8, Climb
<1>10. g \in [1..n -> Seq(S)]
  BY <1>2, <1>9 DEF Joins
<1>. QED  BY <1>6, <1>10

\* FlattenSeq makes a sequence of the same things.
LEMMA FlattenType ==
  ASSUME NEW S, NEW n \in Nat, NEW seqs \in [1..n -> Seq(S)]
  PROVE  FlattenSeq(seqs) \in Seq(S)
<1>1. CASE n = 0
  <2>1. seqs \in Seq(Seq(S)) /\ Len(seqs) = 0 /\ seqs = << >>
    BY <1>1, IsASeq
  <2>. QED  BY <2>1 DEF FlattenSeq
<1>2. CASE n > 0
  <2>1. n \in 1..n
    BY <1>2
  <2>2. PICK g \in [1..n -> Seq(S)] : Flattens(g, seqs, n)
    BY <1>2, FlattenJoins
  <2>. QED  BY <2>1, <2>2 DEF Flattens
<1>. QED  BY <1>1, <1>2

LEMMA FlattenNone == ASSUME NEW seqs, DOMAIN seqs = 1..0, NEW S, seqs \in [1..0 -> S] PROVE FlattenSeq(seqs) = << >>
<1>1. seqs \in Seq(S) /\ Len(seqs) = 0 /\ seqs = << >>
  BY IsASeq
<1>. QED  BY <1>1 DEF FlattenSeq

\* A longer list of sequences, flattened.
LEMMA FlattenSnoc ==
  ASSUME NEW S, NEW n \in Nat, NEW old \in [1..n -> Seq(S)], NEW new \in [1..(n + 1) -> Seq(S)],
         \A m \in 1..n : new[m] = old[m]
  PROVE  FlattenSeq(old) \in Seq(S) /\ FlattenSeq(new) = FlattenSeq(old) \o new[n + 1]
<1>0. n + 1 \in Nat /\ n + 1 > 0 /\ n + 1 \in 1..(n + 1)
  OBVIOUS
<1>1. PICK h \in [1..(n + 1) -> Seq(S)] : Flattens(h, new, n + 1)
  BY <1>0, FlattenJoins
<1>2. CASE n = 0
  <2>1. FlattenSeq(old) = << >>
    BY <1>2, FlattenNone
  <2>2. FlattenSeq(new) = new[1] /\ new[1] \in Seq(S)
    BY <1>1, <1>2 DEF Flattens
  <2>. QED  BY <1>2, <2>1, <2>2
<1>3. CASE n > 0
  <2>1. PICK g \in [1..n -> Seq(S)] : Flattens(g, old, n)
    BY <1>3, FlattenJoins
  <2> DEFINE T == { m \in 1..n : h[m] = g[m] }
  <2>2. 1 \in T
    <3>1. 1 \in 1..n
      BY <1>3
    <3>. QED  BY <1>1, <2>1, <3>1 DEF Flattens
  <2>3. ASSUME NEW m \in 1..(n - 1), m \in T PROVE m + 1 \in T
    <3>1. m + 1 \in 1..n /\ m \in 1..((n + 1) - 1)
      OBVIOUS
    <3>2. g[m + 1] = g[m] \o old[m + 1] /\ h[m + 1] = h[m] \o new[m + 1]
      BY <1>1, <2>1, <3>1 DEF Flattens
    <3>3. h[m] = g[m] /\ new[m + 1] = old[m + 1]
      BY <2>3, <3>1
    <3>4. h[m + 1] = g[m + 1]
      BY <3>2, <3>3
    <3>. QED  BY <3>1, <3>4
  <2>4. \A m \in 1..n : m \in T
    <3>. HIDE DEF T
    <3>. QED  BY <2>2, <2>3, Climb
  <2>5. n \in 1..n /\ n \in 1..((n + 1) - 1)
    BY <1>3
  <2>6. h[n] = g[n] /\ g[n] \in Seq(S) /\ h[n + 1] = h[n] \o new[n + 1]
    BY <1>1, <2>4, <2>5 DEF Flattens
  <2>. QED  BY <1>1, <2>1, <2>6 DEF Flattens
<1>. QED  BY <1>2, <1>3

\* Induction up to n from 0.
LEMMA ClimbFromNone ==
  ASSUME NEW n \in Nat, NEW S, 0 \in S, \A m \in 0..(n - 1) : m \in S => m + 1 \in S
  PROVE  n \in S
<1>1. CASE n = 0
  BY <1>1
<1>2. CASE n > 0
  <2>1. 1 \in S
    <3>1. 0 \in 0..(n - 1)
      BY <1>2
    <3>. QED  BY <3>1
  <2>2. \A m \in 1..(n - 1) : m \in S => m + 1 \in S
    OBVIOUS
  <2>3. n \in 1..n
    BY <1>2
  <2>. QED  BY <2>1, <2>2, <2>3, Climb
<1>. QED  BY <1>1, <1>2

\* A sequence is the concatenation of two.
Concats(c, a, b) == c = a \o b

\* The first m of a list of sequences.
Firsts(seqs, m) == [k \in 1..m |-> seqs[k]]

\* What the first m + 1 of n sequences flatten to.
LEMMA FirstsFlatten ==
  ASSUME NEW S, NEW n \in Nat, NEW seqs \in [1..n -> Seq(S)]
  PROVE  /\ FlattenSeq(Firsts(seqs, 0)) = << >>
         /\ \A m \in 0..n : FlattenSeq(Firsts(seqs, m)) \in Seq(S)
         /\ \A m \in 0..(n - 1) :
              Concats(FlattenSeq(Firsts(seqs, m + 1)), FlattenSeq(Firsts(seqs, m)), seqs[m + 1])
         /\ Firsts(seqs, n) = seqs
<1>1. Firsts(seqs, 0) \in [1..0 -> Seq(S)]
  BY DEF Firsts
<1>2. FlattenSeq(Firsts(seqs, 0)) = << >>
  BY <1>1, FlattenNone
<1>3. ASSUME NEW m \in 0..n PROVE Firsts(seqs, m) \in [1..m -> Seq(S)]
  BY DEF Firsts
<1>4. ASSUME NEW m \in 0..n PROVE FlattenSeq(Firsts(seqs, m)) \in Seq(S)
  BY <1>3, FlattenType
<1>5. ASSUME NEW m \in 0..(n - 1)
      PROVE  Concats(FlattenSeq(Firsts(seqs, m + 1)), FlattenSeq(Firsts(seqs, m)), seqs[m + 1])
  <2>1. m \in Nat /\ m \in 0..n /\ m + 1 \in 0..n
    OBVIOUS
  <2>2. Firsts(seqs, m) \in [1..m -> Seq(S)] /\ Firsts(seqs, m + 1) \in [1..(m + 1) -> Seq(S)]
    BY <1>3, <2>1
  <2>3. /\ \A k \in 1..m : Firsts(seqs, m + 1)[k] = Firsts(seqs, m)[k]
        /\ Firsts(seqs, m + 1)[m + 1] = seqs[m + 1]
    BY DEF Firsts
  <2>4. FlattenSeq(Firsts(seqs, m + 1)) = FlattenSeq(Firsts(seqs, m)) \o Firsts(seqs, m + 1)[m + 1]
    BY <2>1, <2>2, <2>3, FlattenSnoc
  <2>. QED  BY <2>3, <2>4 DEF Concats
<1>6. Firsts(seqs, n) = seqs
  BY DEF Firsts
<1>. QED  BY <1>2, <1>4, <1>5, <1>6

\* A function of the elements, applied to all of a list.
Mapped(h, s) == [p \in DOMAIN s |-> h[s[p]]]

LEMMA MapConcat ==
  ASSUME NEW S, NEW T, NEW h \in [S -> T]
  PROVE  /\ Mapped(h, << >>) = << >>
         /\ \A a \in Seq(S) : Mapped(h, a) \in Seq(T)
         /\ \A a, b \in Seq(S) : \A c : Concats(c, a, b) => Concats(Mapped(h, c), Mapped(h, a), Mapped(h, b))
<1>0. Mapped(h, << >>) = << >>
  BY DEF Mapped
<1>1. ASSUME NEW s \in Seq(S)
      PROVE  /\ Mapped(h, s) \in Seq(T) /\ Len(Mapped(h, s)) = Len(s)
             /\ \A p \in 1..Len(s) : Mapped(h, s)[p] = h[s[p]]
  <2>1. Mapped(h, s) \in [1..Len(s) -> T] /\ Len(s) \in Nat /\ \A p \in 1..Len(s) : Mapped(h, s)[p] = h[s[p]]
    BY DEF Mapped
  <2>2. \A g, m : m \in Nat /\ g \in [1..m -> T] => g \in Seq(T) /\ Len(g) = m
    BY IsASeq
  <2>. QED  BY <2>1, <2>2
<1>2. ASSUME NEW a \in Seq(S), NEW b \in Seq(S)
      PROVE  \A c : Concats(c, a, b) => Concats(Mapped(h, c), Mapped(h, a), Mapped(h, b))
  <2> DEFINE c == Mapped(h, a)
             d == Mapped(h, b)
             ab == a \o b
             e == Mapped(h, ab)
  <2>1. /\ ab \in Seq(S) /\ Len(ab) = Len(a) + Len(b)
        /\ \A p \in 1..(Len(a) + Len(b)) : ab[p] = IF p <= Len(a) THEN a[p] ELSE b[p - Len(a)]
    BY ConcatProperties
  <2>. HIDE DEF ab
  <2>2. /\ c \in Seq(T) /\ Len(c) = Len(a) /\ \A p \in 1..Len(a) : c[p] = h[a[p]]
        /\ d \in Seq(T) /\ Len(d) = Len(b) /\ \A p \in 1..Len(b) : d[p] = h[b[p]]
    BY <1>1
  <2>3. /\ e \in Seq(T) /\ Len(e) = Len(a) + Len(b)
        /\ \A p \in 1..(Len(a) + Len(b)) : e[p] = h[ab[p]]
    BY <1>1, <2>1
  <2>. HIDE DEF c, d, e
  <2> DEFINE cd == c \o d
  <2>4. /\ cd \in Seq(T) /\ Len(cd) = Len(a) + Len(b)
        /\ \A p \in 1..(Len(a) + Len(b)) : cd[p] = IF p <= Len(a) THEN c[p] ELSE d[p - Len(a)]
    <3>1. /\ cd \in Seq(T) /\ Len(cd) = Len(c) + Len(d)
          /\ \A p \in 1..(Len(c) + Len(d)) : cd[p] = IF p <= Len(c) THEN c[p] ELSE d[p - Len(c)]
      BY <2>2, ConcatProperties
    <3>. HIDE DEF cd
    <3>. QED  BY <2>2, <3>1
  <2>. HIDE DEF cd
  <2>5. ASSUME NEW p \in 1..(Len(a) + Len(b))
        PROVE  e[p] = cd[p]
    <3>1. CASE p <= Len(a)
      <4>1. p \in 1..Len(a)
        BY <3>1
      <4>2. ab[p] = a[p] /\ cd[p] = c[p] /\ e[p] = h[ab[p]]
        BY <2>1, <2>3, <2>4, <3>1
      <4>. QED  BY <2>2, <4>1, <4>2
    <3>2. CASE ~(p <= Len(a))
      <4>1. p - Len(a) \in 1..Len(b)
        BY <3>2
      <4>2. ab[p] = b[p - Len(a)] /\ cd[p] = d[p - Len(a)] /\ e[p] = h[ab[p]]
        BY <2>1, <2>3, <2>4, <3>2
      <4>. QED  BY <2>2, <4>1, <4>2
    <3>. QED  BY <3>1, <3>2
  <2>6. e = cd
    BY <2>3, <2>4, <2>5, SeqEqual
  <2>. QED  BY <2>6 DEF c, d, e, ab, cd, Concats
<1>. QED  BY <1>0, <1>1, <1>2

\* To map what sequences flatten to is to flatten what they map to.
MapsFlat(h, n, seqs) == Mapped(h, FlattenSeq(seqs)) = FlattenSeq([k \in 1..n |-> Mapped(h, seqs[k])])

LEMMA MapFlatten ==
  ASSUME NEW S, NEW T, NEW h \in [S -> T], NEW n \in Nat, NEW seqs \in [1..n -> Seq(S)]
  PROVE  MapsFlat(h, n, seqs)
<1> DEFINE maps == [k \in 1..n |-> Mapped(h, seqs[k])]
           M == { m \in 0..n : Mapped(h, FlattenSeq(Firsts(seqs, m))) = FlattenSeq(Firsts(maps, m)) }
<1>1. maps \in [1..n -> Seq(T)] /\ \A k \in 1..n : maps[k] = Mapped(h, seqs[k])
  BY MapConcat
<1>2. 0 \in M
  <2>1. FlattenSeq(Firsts(seqs, 0)) = << >> /\ FlattenSeq(Firsts(maps, 0)) = << >>
    <3>. HIDE DEF maps
    <3>. QED  BY <1>1, FirstsFlatten
  <2>2. Mapped(h, << >>) = << >>
    BY DEF Mapped
  <2>. QED  BY <2>1, <2>2
<1>3. ASSUME NEW m \in 0..(n - 1), m \in M PROVE m + 1 \in M
  <2>1. m + 1 \in 1..n /\ m + 1 \in 0..n /\ m \in 0..n
    OBVIOUS
  <2>. HIDE DEF maps
  <2>2. /\ FlattenSeq(Firsts(seqs, m)) \in Seq(S) /\ seqs[m + 1] \in Seq(S)
        /\ Concats(FlattenSeq(Firsts(seqs, m + 1)), FlattenSeq(Firsts(seqs, m)), seqs[m + 1])
    BY <2>1, FirstsFlatten
  <2>3. Concats(FlattenSeq(Firsts(maps, m + 1)), FlattenSeq(Firsts(maps, m)), maps[m + 1])
    BY <1>1, FirstsFlatten
  <2>4. Concats(Mapped(h, FlattenSeq(Firsts(seqs, m + 1))), Mapped(h, FlattenSeq(Firsts(seqs, m))), Mapped(h, seqs[m + 1]))
    BY <2>2, MapConcat
  <2>5. Mapped(h, FlattenSeq(Firsts(seqs, m))) = FlattenSeq(Firsts(maps, m)) /\ Mapped(h, seqs[m + 1]) = maps[m + 1]
    BY <1>1, <1>3, <2>1
  <2>. QED  BY <2>1, <2>3, <2>4, <2>5 DEF Concats
<1>4. n \in M
  <2>. HIDE DEF M
  <2>. QED  BY <1>2, <1>3, ClimbFromNone
<1>5. Firsts(seqs, n) = seqs /\ Firsts(maps, n) = maps
  <2>. HIDE DEF maps
  <2>. QED  BY <1>1, FirstsFlatten
<1>. QED  BY <1>4, <1>5 DEF MapsFlat

\* Lists of one element flatten to the list of the elements.
LEMMA FlattenOnes ==
  ASSUME NEW S, NEW n \in Nat, NEW a \in [1..n -> S]
  PROVE  FlattenSeq([k \in 1..n |-> << a[k] >>]) = a
<1> DEFINE ones == [k \in 1..n |-> << a[k] >>]
           M == { m \in 0..n : FlattenSeq(Firsts(ones, m)) = Firsts(a, m) }
<1>1. ones \in [1..n -> Seq(S)] /\ \A k \in 1..n : ones[k] = << a[k] >>
  OBVIOUS
<1>. HIDE DEF ones
<1>2. 0 \in M
  <2>1. Firsts(a, 0) = << >>
    BY DEF Firsts
  <2>. QED  BY <1>1, <2>1, FirstsFlatten
<1>3. ASSUME NEW m \in 0..(n - 1), m \in M PROVE m + 1 \in M
  <2>1. m + 1 \in 1..n /\ m + 1 \in 0..n /\ m \in Nat
    OBVIOUS
  <2>2. FlattenSeq(Firsts(ones, m + 1)) = Firsts(a, m) \o << a[m + 1] >>
    <3>1. Concats(FlattenSeq(Firsts(ones, m + 1)), FlattenSeq(Firsts(ones, m)), ones[m + 1])
      BY <1>1, FirstsFlatten
    <3>2. FlattenSeq(Firsts(ones, m)) = Firsts(a, m) /\ ones[m + 1] = << a[m + 1] >>
      BY <1>1, <1>3, <2>1
    <3>. QED  BY <3>1, <3>2 DEF Concats
  <2>3. Firsts(a, m) \in [1..m -> S] /\ Firsts(a, m + 1) \in [1..(m + 1) -> S]
    BY <2>1 DEF Firsts
  <2>4. Firsts(a, m) \in Seq(S) /\ Len(Firsts(a, m)) = m /\ Firsts(a, m + 1) \in Seq(S) /\ Len(Firsts(a, m + 1)) = m + 1
    BY <2>1, <2>3, IsASeq
  <2>5. Firsts(a, m) \o << a[m + 1] >> = Append(Firsts(a, m), a[m + 1])
    BY <2>1, <2>4
  <2>6. /\ Append(Firsts(a, m), a[m + 1]) \in Seq(S) /\ Len(Append(Firsts(a, m), a[m + 1])) = m + 1
        /\ \A k \in 1..(m + 1) : Append(Firsts(a, m), a[m + 1])[k] = Firsts(a, m + 1)[k]
    <3>1. a[m + 1] \in S
      BY <2>1
    <3>. QED  BY <2>1, <2>4, <3>1, AppendProperties DEF Firsts
  <2>7. Append(Firsts(a, m), a[m + 1]) = Firsts(a, m + 1)
    BY <2>4, <2>6, SeqEqual
  <2>. QED  BY <2>1, <2>2, <2>5, <2>7
<1>4. n \in M
  <2>. HIDE DEF M
  <2>. QED  BY <1>2, <1>3, ClimbFromNone
<1>5. Firsts(ones, n) = ones /\ Firsts(a, n) = a
  BY <1>1 DEF Firsts
<1>. QED  BY <1>4, <1>5 DEF ones

\* To leave elements out that map to nothing makes no difference.
KeptFlat(h, n, L, seqs) == FlattenSeq(Mapped(h, FlattenSeq(seqs))) = FlattenSeq([k \in 1..n |-> h[L[k]]])

LEMMA FlattenKept ==
  ASSUME NEW S, NEW T, NEW h \in [S -> Seq(T)], NEW n \in Nat,
         NEW L \in [1..n -> S], NEW seqs \in [1..n -> Seq(S)],
         \A k \in 1..n : seqs[k] = << L[k] >> \/ (seqs[k] = << >> /\ h[L[k]] = << >>)
  PROVE  KeptFlat(h, n, L, seqs)
<1> DEFINE maps == [k \in 1..n |-> h[L[k]]]
           M == { m \in 0..n : FlattenSeq(Mapped(h, FlattenSeq(Firsts(seqs, m)))) = FlattenSeq(Firsts(maps, m)) }
<1>1. maps \in [1..n -> Seq(T)] /\ \A k \in 1..n : maps[k] = h[L[k]]
  OBVIOUS
<1>. HIDE DEF maps
<1>0. FlattenSeq(<< >>) = << >>
  BY DEF FlattenSeq
<1>2. 0 \in M
  <2>1. FlattenSeq(Firsts(seqs, 0)) = << >> /\ FlattenSeq(Firsts(maps, 0)) = << >>
    BY <1>1, FirstsFlatten
  <2>2. Mapped(h, << >>) = << >>
    BY DEF Mapped
  <2>. QED  BY <1>0, <2>1, <2>2
<1>3. ASSUME NEW m \in 0..(n - 1), m \in M PROVE m + 1 \in M
  <2>1. m + 1 \in 1..n /\ m + 1 \in 0..n /\ m \in 0..n
    OBVIOUS
  <2> DEFINE before == FlattenSeq(Firsts(seqs, m))
             flat == FlattenSeq(Firsts(maps, m))
             x == L[m + 1]
  <2>2. before \in Seq(S) /\ Concats(FlattenSeq(Firsts(seqs, m + 1)), before, seqs[m + 1])
    BY <2>1, FirstsFlatten
  <2>3. flat \in Seq(T) /\ Concats(FlattenSeq(Firsts(maps, m + 1)), flat, h[x]) /\ x \in S /\ h[x] \in Seq(T)
    <3>1. flat \in Seq(T) /\ Concats(FlattenSeq(Firsts(maps, m + 1)), flat, maps[m + 1])
      BY <1>1, <2>1, FirstsFlatten
    <3>. QED  BY <1>1, <2>1, <3>1
  <2>4. FlattenSeq(Mapped(h, before)) = flat
    BY <1>3
  <2>5. CASE seqs[m + 1] = << >> /\ h[x] = << >>
    <3>. HIDE DEF before, flat, x
    <3>1. before \o << >> = before /\ flat \o << >> = flat
      BY <2>2, <2>3
    <3>2. FlattenSeq(Firsts(seqs, m + 1)) = before /\ FlattenSeq(Firsts(maps, m + 1)) = flat
      BY <2>2, <2>3, <2>5, <3>1 DEF Concats
    <3>. QED  BY <2>1, <2>4, <3>2
  <2>6. CASE seqs[m + 1] = << x >>
    <3> DEFINE old == Mapped(h, before)
               after == FlattenSeq(Firsts(seqs, m + 1))
               new == Mapped(h, after)
               one == << x >>
    <3>. HIDE DEF before, flat, x, after
    <3>1. Mapped(h, one) = << h[x] >> /\ one \in Seq(S) /\ Concats(after, before, one)
      BY <2>2, <2>3, <2>6 DEF Mapped, after
    <3>. HIDE DEF one
    <3>2. Concats(new, old, Mapped(h, one)) /\ old \in Seq(Seq(T))
      BY <2>2, <3>1, MapConcat
    <3>. HIDE DEF old, new
    <3>3. /\ Len(old) \in Nat /\ new \in Seq(Seq(T)) /\ Len(new) = Len(old) + 1
          /\ new[Len(old) + 1] = h[x] /\ \A k \in 1..Len(old) : new[k] = old[k]
      BY <2>3, <3>1, <3>2 DEF Concats
    <3>4. old \in [1..Len(old) -> Seq(T)] /\ new \in [1..(Len(old) + 1) -> Seq(T)]
      <4>1. \A U, s : s \in Seq(U) => s \in [1..Len(s) -> U]
        BY ElementOfSeq
      <4>. QED  BY <3>2, <3>3, <4>1
    <3>5. FlattenSeq(new) = FlattenSeq(old) \o new[Len(old) + 1]
      BY <3>3, <3>4, FlattenSnoc
    <3>6. FlattenSeq(new) = flat \o h[x]
      BY <2>4, <3>3, <3>5 DEF old
    <3>. QED  BY <2>1, <2>3, <3>6 DEF Concats, new, after
  <2>. QED  BY <2>1, <2>5, <2>6 DEF x
<1>4. n \in M
  <2>. HIDE DEF M
  <2>. QED  BY <1>2, <1>3, ClimbFromNone
<1>5. Firsts(seqs, n) = seqs /\ Firsts(maps, n) = maps
  BY <1>1, FirstsFlatten
<1>. QED  BY <1>4, <1>5 DEF maps, KeptFlat

\* No element of a list comes twice.
Apart(s) == \A p, q \in DOMAIN s : s[p] = s[q] => p = q

\* Lists of distinct elements, of sets that have none in common, flatten to a list of such.
AllApart(n, P, seqs) ==
  /\ \A k \in 1..n : Apart(seqs[k]) /\ \A p \in DOMAIN seqs[k] : seqs[k][p] \in P[k]
  /\ \A j, k \in 1..n : j # k => P[j] \cap P[k] = {}

LEMMA FlattenApart ==
  ASSUME NEW S, NEW n \in Nat, NEW P, NEW seqs \in [1..n -> Seq(S)], AllApart(n, P, seqs)
  PROVE  Apart(FlattenSeq(seqs))
<1> DEFINE F(m) == FlattenSeq(Firsts(seqs, m))
           In(m) == \A p \in DOMAIN F(m) : \E k \in 1..m : F(m)[p] \in P[k]
           M == { m \in 0..n : Apart(F(m)) /\ In(m) }
<1>1. 0 \in M
  <2>1. F(0) = << >>
    BY FirstsFlatten
  <2>2. DOMAIN F(0) = {}
    BY <2>1
  <2>. QED  BY <2>2 DEF Apart
<1>2. ASSUME NEW m \in 0..(n - 1), m \in M PROVE m + 1 \in M
  <2> DEFINE a == F(m)
             b == seqs[m + 1]
             new == F(m + 1)
  <2>1. m + 1 \in 1..n /\ m + 1 \in 0..n /\ m \in 0..n
    OBVIOUS
  <2>2. a \in Seq(S) /\ b \in Seq(S) /\ new = a \o b
    <3>1. FlattenSeq(Firsts(seqs, m)) \in Seq(S) /\ seqs[m + 1] \in Seq(S)
      BY <2>1, FirstsFlatten
    <3>2. Concats(FlattenSeq(Firsts(seqs, m + 1)), FlattenSeq(Firsts(seqs, m)), seqs[m + 1])
      BY <2>1, FirstsFlatten
    <3>. QED  BY <3>1, <3>2 DEF Concats
  <2>3. Apart(a) /\ Apart(b) /\ In(m) /\ \A p \in DOMAIN b : b[p] \in P[m + 1]
    BY <1>2, <2>1 DEF AllApart
  <2>4. \A p \in DOMAIN a : \E k \in 1..m : a[p] \in P[k]
    BY <2>3
  <2>. HIDE DEF F
  <2>5. /\ Len(a) \in Nat /\ Len(b) \in Nat /\ DOMAIN a = 1..Len(a) /\ DOMAIN b = 1..Len(b)
        /\ DOMAIN new = 1..(Len(a) + Len(b))
        /\ \A p \in 1..(Len(a) + Len(b)) : new[p] = IF p <= Len(a) THEN a[p] ELSE b[p - Len(a)]
    BY <2>2
  <2>. HIDE DEF a, b, new
  <2>6. \A p \in DOMAIN a, q \in DOMAIN b : a[p] # b[q]
    <3>1. \A k \in 1..m : k \in 1..n /\ k # m + 1
      BY <2>1
    <3>. QED  BY <2>1, <2>3, <2>4, <3>1 DEF AllApart
  <2>7. \A p \in DOMAIN new : \/ p \in DOMAIN a /\ p <= Len(a) /\ new[p] = a[p]
                              \/ p - Len(a) \in DOMAIN b /\ ~(p <= Len(a)) /\ new[p] = b[p - Len(a)]
    BY <2>5
  <2>8. Apart(new)
    <3> SUFFICES ASSUME NEW p \in DOMAIN new, NEW q \in DOMAIN new, new[p] = new[q] PROVE p = q
      BY DEF Apart
    <3>1. p \in Nat /\ q \in Nat
      BY <2>5
    <3>2. CASE p \in DOMAIN a /\ p <= Len(a) /\ new[p] = a[p]
      <4>1. q \in DOMAIN a /\ new[q] = a[q]
        BY <2>6, <2>7, <3>2
      <4>. QED  BY <2>3, <3>2, <4>1 DEF Apart
    <3>3. CASE p - Len(a) \in DOMAIN b /\ ~(p <= Len(a)) /\ new[p] = b[p - Len(a)]
      <4>1. q - Len(a) \in DOMAIN b /\ new[q] = b[q - Len(a)]
        BY <2>6, <2>7, <3>3
      <4>2. p - Len(a) = q - Len(a)
        BY <2>3, <3>3, <4>1 DEF Apart
      <4>. QED  BY <2>5, <3>1, <4>2
    <3>. QED  BY <2>7, <3>2, <3>3
  <2>9. \A p \in DOMAIN new : \E k \in 1..(m + 1) : new[p] \in P[k]
    <3>1. m + 1 \in 1..(m + 1) /\ \A k \in 1..m : k \in 1..(m + 1)
      BY <2>1
    <3>. QED  BY <2>3, <2>4, <2>7, <3>1
  <2>. QED  BY <2>1, <2>8, <2>9 DEF new
<1>3. n \in M
  <2>. HIDE DEF M
  <2>. QED  BY <1>1, <1>2, ClimbFromNone
<1>4. Firsts(seqs, n) = seqs
  BY FirstsFlatten
<1>. QED  BY <1>3, <1>4

Occurs(x, s) == \E q \in DOMAIN s : s[q] = x

\* What sequences are flattened to has all their elements.
LEMMA FlattenAll ==
  ASSUME NEW S, NEW n \in Nat, NEW seqs \in [1..n -> Seq(S)]
  PROVE  \A k \in 1..n : \A p \in DOMAIN seqs[k] : Occurs(seqs[k][p], FlattenSeq(seqs))
<1> DEFINE F(m) == FlattenSeq(Firsts(seqs, m))
           Has(m, j) == \A r \in DOMAIN seqs[j] : \E q \in DOMAIN F(m) : F(m)[q] = seqs[j][r]
           M == { m \in 0..n : \A j \in 1..m : Has(m, j) }
<1>1. 0 \in M
  OBVIOUS
<1>2. ASSUME NEW m \in 0..(n - 1), m \in M PROVE m + 1 \in M
  <2> DEFINE a == F(m)
             b == seqs[m + 1]
             new == F(m + 1)
  <2>1. m + 1 \in 1..n /\ m + 1 \in 0..n /\ m \in 0..n
    OBVIOUS
  <2>2. a \in Seq(S) /\ b \in Seq(S)
    BY <2>1, FirstsFlatten
  <2>3. Concats(new, a, b)
    BY <2>1, FirstsFlatten
  <2>4. \A j \in 1..m : Has(m, j)
    BY <1>2
  <2>. HIDE DEF F
  <2>5. /\ Len(a) \in Nat /\ Len(b) \in Nat /\ DOMAIN a = 1..Len(a) /\ DOMAIN b = 1..Len(b)
        /\ DOMAIN new = 1..(Len(a) + Len(b))
        /\ \A q \in 1..(Len(a) + Len(b)) : new[q] = IF q <= Len(a) THEN a[q] ELSE b[q - Len(a)]
    BY <2>2, <2>3 DEF Concats
  <2>. HIDE DEF a, b, new
  <2>6. ASSUME NEW j \in 1..m PROVE Has(m + 1, j)
    <3>1. \A q \in DOMAIN a : q \in DOMAIN new /\ new[q] = a[q]
      BY <2>5
    <3>. QED  BY <2>4, <3>1 DEF a, new
  <2>7. Has(m + 1, m + 1)
    <3> SUFFICES ASSUME NEW r \in DOMAIN b PROVE \E q \in DOMAIN new : new[q] = b[r]
      BY DEF b, new
    <3>1. Len(a) + r \in DOMAIN new /\ new[Len(a) + r] = b[r]
      <4>1. r \in 1..Len(b) /\ Len(a) + r \in 1..(Len(a) + Len(b)) /\ ~(Len(a) + r <= Len(a)) /\ (Len(a) + r) - Len(a) = r
        BY <2>5
      <4>. QED  BY <2>5, <4>1
    <3>. QED  BY <3>1
  <2>8. \A j \in 1..(m + 1) : j \in 1..m \/ j = m + 1
    BY <2>1
  <2>. HIDE DEF Has
  <2>. QED  BY <2>1, <2>6, <2>7, <2>8
<1>3. n \in M
  <2>. HIDE DEF M
  <2>. QED  BY <1>1, <1>2, ClimbFromNone
<1>4. Firsts(seqs, n) = seqs
  BY FirstsFlatten
<1>. QED  BY <1>3, <1>4 DEF Occurs

\* A single list is what it flattens to.
LEMMA FlattenOne == ASSUME NEW S, NEW s \in Seq(S) PROVE FlattenSeq([k \in 1..1 |-> s]) = s
<1> DEFINE seqs == [k \in 1..1 |-> s]
<1>1. seqs \in [1..1 -> Seq(S)] /\ seqs[1] = s
  OBVIOUS
<1>. HIDE DEF seqs
<1>2. PICK g \in [1..1 -> Seq(S)] : Flattens(g, seqs, 1)
  <2>1. 1 \in Nat /\ 1 > 0
    OBVIOUS
  <2>. QED  BY <1>1, <2>1, FlattenJoins
<1>. QED  BY <1>1, <1>2 DEF Flattens, seqs

-----------------------------------------------------------------------------
\* The request messages of services are among those of some names.
InputsIn(svcs, names) ==
  \A k \in DOMAIN svcs : \A m \in DOMAIN svcs[k].methods : svcs[k].methods[m].input \in names

\* The names of the loaded messages.
MessageNames == { m.name : m \in Registered }

LEMMA MethodKnown ==
  ASSUME NEW svc, NEW meth, NEW m \in newMethod(svc, meth)
  PROVE  m.input \in MessageNames
<1>1. m.input = meth.input /\ LookupMsg(meth.input) # {}
  BY DEF newMethod
<1>. QED  BY <1>1 DEF LookupMsg, MessageNames

\* A file whose services were loaded names messages that are loaded.
LEMMA ServicesKnown ==
  ASSUME req \in Requests, NEW f \in DOMAIN req.files, NEW svcs \in loadServices(f)
  PROVE  InputsIn(svcs, MessageNames)
<1> DEFINE declared == File(f).services
           n == Len(declared)
           Methods(svc) == [k \in DOMAIN svc.methods |-> newMethod(svc, svc.methods[k])]
           Refused(svc) == ~svc.hasSpec \/ \E k \in DOMAIN svc.methods : Methods(svc)[k] = {}
           Loaded(svc) ==
             [name |-> svc.name, controller |-> svc.controller, balancer |-> svc.balancer, labels |-> svc.labels,
              methods |-> [k \in DOMAIN svc.methods |-> CHOOSE m \in Methods(svc)[k] : TRUE]]
           Kept(svc) == IF svc.methods = << >> THEN << >> ELSE << Loaded(svc) >>
           kept == [k \in DOMAIN declared |-> Kept(declared[k])]
           Sound == { Loaded(declared[k]) : k \in DOMAIN declared }
<1>1. n \in Nat /\ DOMAIN declared = 1..n
  <2>1. IsList(declared)
    BY RequestsAssumption DEF File, WellFormedFile
  <2>. HIDE DEF declared
  <2>. QED  BY <2>1 DEF IsList
<1>2. svcs = FlattenSeq(kept) /\ \A k \in DOMAIN declared : ~Refused(declared[k])
  BY DEF loadServices
<1>3. ASSUME NEW k \in DOMAIN declared, NEW m \in DOMAIN Loaded(declared[k]).methods
      PROVE  Loaded(declared[k]).methods[m].input \in MessageNames
  <2> DEFINE found == newMethod(declared[k], declared[k].methods[m])
  <2>1. m \in DOMAIN declared[k].methods /\ Methods(declared[k])[m] = found /\ found # {}
    BY <1>2, <1>3
  <2>2. Loaded(declared[k]).methods[m] = CHOOSE x \in found : TRUE
    BY <2>1
  <2>3. Loaded(declared[k]).methods[m] \in found
    <3>. HIDE DEF found, Loaded
    <3>. QED  BY <2>1, <2>2
  <2>. QED  BY <2>3, MethodKnown
<1>4. svcs \in Seq(Sound)
  <2>1. \A k \in DOMAIN declared : Loaded(declared[k]) \in Sound
    OBVIOUS
  <2>. HIDE DEF Sound, Loaded
  <2>2. ASSUME NEW k \in DOMAIN declared PROVE Kept(declared[k]) \in Seq(Sound)
    BY <2>1
  <2>3. kept \in [1..n -> Seq(Sound)]
    <3>. HIDE DEF Kept, declared, n
    <3>. QED  BY <1>1, <2>2
  <2>. HIDE DEF kept, n
  <2>. QED  BY <1>1, <1>2, <2>3, FlattenType
<1>5. ASSUME NEW k \in DOMAIN svcs PROVE svcs[k] \in Sound
  <2>. HIDE DEF Sound
  <2>. QED  BY <1>4
<1>6. ASSUME NEW s \in Sound, NEW m \in DOMAIN s.methods PROVE s.methods[m].input \in MessageNames
  <2>1. PICK k \in DOMAIN declared : s = Loaded(declared[k])
    OBVIOUS
  <2>. HIDE DEF Loaded, declared, Sound
  <2>. QED  BY <1>3, <1>6, <2>1
<1>. HIDE DEF Sound
<1>. QED  BY <1>5, <1>6 DEF InputsIn

-----------------------------------------------------------------------------
LEMMA CodeImports == ASSUME NEW f, NEW d, NEW v PROVE CodeOf(f, d, v).imports = Imports(f)
BY DEF CodeOf

LEMMA ImportsStand == ASSUME UNCHANGED descriptorVars, NEW f PROVE Imports(f)' = Imports(f)
BY DEF descriptorVars, Imports, BindingsOf, FileOf, LookupMsg, Registered, LookupEnum, File

\* What Generate leaves alone, and the code it adds.
Adds(f) ==
  \/ code' = code \/ code' = << >>
  \/ \E d, v : code' = [g \in DOMAIN code \cup {f} |-> IF g = f THEN CodeOf(f, d, v) ELSE code[g]]

LEMMA GenerateAdds ==
  ASSUME NEW f, Generate(f)
  PROVE  phase = "loaded" /\ UNCHANGED descriptorVars /\ Adds(f)
<1> DEFINE bindings == Ordered(services[f])
           asked == Ask(Asked(f).inputs \o Asked(f).messages \o Asked(f).handlers, checked)
           from == 1 + Len(Asked(f).inputs)
           to == from + Len(Asked(f).messages)
           defined == { Asked(f).messages[k] : k \in { j \in DOMAIN Asked(f).messages : asked[from + j].has } }
           validated == { Asked(f).handlers[k] : k \in { j \in DOMAIN Asked(f).handlers : asked[to + j].has } }
           more == [g \in DOMAIN code \cup {f} |-> IF g = f THEN CodeOf(f, defined, validated) ELSE code[g]]
<1>1. phase = "loaded" /\ UNCHANGED descriptorVars
  BY DEF Generate
<1>2. code' = code \/ code' = << >> \/ code' = (IF bindings = << >> THEN code ELSE more)
  BY Zenon DEF Generate
<1>3. code' = code \/ code' = << >> \/ code' = more
  <2>. HIDE DEF bindings, more
  <2>. QED  BY <1>2
<1>4. code' = more => Adds(f)
  <2>. HIDE DEF defined, validated
  <2>. QED  BY DEF Adds
<1>. HIDE DEF more
<1>. QED  BY <1>1, <1>3, <1>4 DEF Adds

-----------------------------------------------------------------------------
(* The imports every file has: their paths and names differ.               *)

Is(p, path, name, alias) == p.path = path /\ p.name = name /\ p.alias = alias

IsBaseImport(p) ==
  \/ Is(p, "context", "context", "")
  \/ Is(p, "io", "io", "")
  \/ Is(p, "net/http", "http", "")
  \/ Is(p, "regexp", "regexp", "")
  \/ Is(p, "strings", "strings", "")
  \/ Is(p, "sync", "sync", "")
  \/ Is(p, "unicode/utf8", "utf8", "")
  \/ Is(p, "runtime", "runtime", "")
  \/ Is(p, "utilities", "utilities", "")
  \/ Is(p, "proto", "proto", "")
  \/ Is(p, "client", "client", "")
  \/ Is(p, "grpc", "grpc", "")
  \/ Is(p, "codes", "codes", "")
  \/ Is(p, "grpclog", "grpclog", "")
  \/ Is(p, "metadata", "metadata", "")
  \/ Is(p, "status", "status", "")
  \/ Is(p, "gateway-proto/data", "data", "vexpb")
  \/ Is(p, "gateway-proto/frontend", "frontend", "fpb")
  \/ Is(p, "letsgo/grpc", "grpc", "lgr")
  \/ Is(p, "skylb-api/proto", "proto", "skypb")

LEMMA BaseListed ==
  ASSUME NEW p \in BaseImports
  PROVE  IsPackage(p) /\ IsBaseImport(p)
<1>1. ASSUME NEW path, NEW name, NEW alias, p = Package(path, name, alias)
      PROVE  IsPackage(p) /\ Is(p, path, name, alias)
  BY <1>1 DEF Package, IsPackage, Is
<1>2. CASE p \in StandardImports
  BY <1>1, <1>2 DEF StandardImports, IsBaseImport
<1>3. CASE p \in GatewayImports
  BY <1>1, <1>3 DEF GatewayImports, IsBaseImport
<1>. QED  BY <1>2, <1>3 DEF BaseImports

LEMMA BaseDistinct ==
  ASSUME NEW p \in BaseImports, NEW q \in BaseImports, Pkg(p) = Pkg(q) \/ p.path = q.path
  PROVE  p = q
<1>1. p.path = q.path /\ p.name = q.name /\ p.alias = q.alias
  BY BaseListed DEF IsBaseImport, Is, Pkg
<1>. QED  BY <1>1, BaseListed DEF IsPackage

LEMMA BaseOwned ==
  ASSUME NEW p \in BaseImports, p.alias = ""
  PROVE  p.name \in StandardNames /\ Owner(p.name) = p.path
<1>1. ASSUME NEW q \in Unaliased, q.name = p.name PROVE q = p
  BY <1>1, BaseDistinct DEF Unaliased, Pkg
<1>. QED  BY <1>1 DEF Unaliased, StandardNames, Owner

-----------------------------------------------------------------------------
\* What has been loaded when: each file's package is as the file says, and its
\* services name messages that are loaded.
LoadedInv ==
  /\ req \in Requests
  /\ phase \in {"rules", "files"} => DOMAIN services = {}
  /\ phase = "rules" => DOMAIN goPkg = {}
  /\ phase = "files" => todo = DOMAIN req.files \ DOMAIN goPkg
  /\ phase \in {"services", "loaded"} => DOMAIN goPkg = DOMAIN req.files
  /\ phase = "loaded" => ToGenerate \subseteq DOMAIN services
  /\ DOMAIN goPkg \subseteq DOMAIN req.files
  /\ \A f \in DOMAIN goPkg : goPkg[f].path = File(f).path /\ goPkg[f].name = File(f).name
  /\ \A f \in DOMAIN services : f \in DOMAIN req.files /\ InputsIn(services[f], MessageNames)

LEMMA LoadedInit == DescriptorsInit => LoadedInv
BY DEF DescriptorsInit, LoadedInv

LEMMA MessagesStand == ASSUME UNCHANGED <<req, goPkg>> PROVE MessageNames' = MessageNames
BY DEF MessageNames, Registered, File

LEMMA LoadedStep ==
  ASSUME NumberedNonEmpty, LoadedInv, [Load]_descriptorVars
  PROVE  LoadedInv'
<1>1. ASSUME UNCHANGED <<req, goPkg, services>>,
             \/ phase' = phase /\ todo' = todo
             \/ phase' = "rules" /\ phase = "rules"
             \/ phase' = "failed"
      PROVE  LoadedInv'
  <2>. QED  BY <1>1, MessagesStand DEF LoadedInv, ToGenerate, File
<1>2. CASE AddExternalHTTPRule
  BY <1>1, <1>2 DEF AddExternalHTTPRule, Fail
<1>3. CASE New
  BY <1>3 DEF New, LoadedInv
<1>4. CASE \E f \in DOMAIN req.files : LoadFile(f)
  <2>1. PICK f, p : Takes(f, p)
    BY <1>4, LoadFileTakes
  <2>2. DOMAIN services' = {}
    BY <2>1 DEF Takes, LoadedInv
  <2>3. \A g \in DOMAIN goPkg' : goPkg'[g].path = File(g)'.path /\ goPkg'[g].name = File(g)'.name
    BY <2>1 DEF Takes, LoadedInv, File
  <2>4. /\ req' \in Requests /\ DOMAIN goPkg' \subseteq DOMAIN req'.files
        /\ phase' = "files" => todo' = DOMAIN req'.files \ DOMAIN goPkg'
        /\ phase' = "services" => DOMAIN goPkg' = DOMAIN req'.files
        /\ phase' \in {"files", "services"}
    BY <2>1 DEF Takes, LoadedInv
  <2>. QED  BY <2>2, <2>3, <2>4 DEF LoadedInv
<1>5. ASSUME NEW f \in DOMAIN req.files, LoadServices(f)
      PROVE  LoadedInv'
  <2>1. CASE loadServices(f) = {}
    BY <1>1, <1>5, <2>1 DEF LoadServices, Fail
  <2>2. CASE loadServices(f) # {}
    <3>1. PICK svcs \in loadServices(f) :
            services' = [g \in DOMAIN services \cup {f} |-> IF g = f THEN svcs ELSE services[g]]
      BY <1>5, <2>2 DEF LoadServices
    <3>2. /\ phase = "services" /\ phase' = "services"
          /\ UNCHANGED <<req, todo, goPkg>>
      BY <1>5, <2>2 DEF LoadServices
    <3>3. \A g \in DOMAIN services' : g \in DOMAIN req.files /\ InputsIn(services'[g], MessageNames)
      BY <3>1, ServicesKnown DEF LoadedInv
    <3>. QED  BY <3>2, <3>3, MessagesStand DEF LoadedInv, File
  <2>. QED  BY <2>1, <2>2
<1>6. CASE CheckUnbound
  <2>1. CASE phase' = "failed"
    BY <1>1, <1>6, <2>1 DEF CheckUnbound
  <2>2. CASE phase' = "loaded"
    <3>1. /\ phase = "services" /\ ToGenerate \subseteq DOMAIN services
          /\ UNCHANGED <<req, todo, goPkg, services>>
      BY <1>6 DEF CheckUnbound
    <3>. QED  BY <2>2, <3>1, MessagesStand DEF LoadedInv, ToGenerate, File
  <2>. QED  BY <1>6, <2>1, <2>2 DEF CheckUnbound
<1>7. CASE UNCHANGED descriptorVars
  BY <1>1, <1>7 DEF descriptorVars
<1>. QED  BY <1>2, <1>3, <1>4, <1>5, <1>6, <1>7 DEF Load

-----------------------------------------------------------------------------
\* A generated file's imports are those its loaded services ask for.
CodeInv ==
  \A f \in DOMAIN code : phase = "loaded" /\ f \in ToGenerate /\ code[f].imports = Imports(f)

LEMMA CodeStep ==
  ASSUME CodeInv, [GeneratorNext]_<<descriptorVars, generatorVars>>
  PROVE  CodeInv'
<1>1. ASSUME UNCHANGED <<descriptorVars, code>>
      PROVE  CodeInv'
  <2>1. \A f : Imports(f)' = Imports(f)
    BY <1>1, ImportsStand
  <2>. QED  BY <1>1, <2>1 DEF CodeInv, ToGenerate, descriptorVars
<1>2. CASE Load /\ UNCHANGED generatorVars
  <2>1. phase # "loaded"
    BY <1>2 DEF Load, AddExternalHTTPRule, New, LoadFile, LoadServices, CheckUnbound
  <2>. QED  BY <1>2, <2>1 DEF CodeInv, generatorVars
<1>3. ASSUME NEW f \in ToGenerate, Generate(f)
      PROVE  CodeInv'
  <2>1. phase = "loaded" /\ UNCHANGED descriptorVars /\ Adds(f)
    BY <1>3, GenerateAdds
  <2>2. \A g : Imports(g)' = Imports(g)
    BY <2>1, ImportsStand
  <2>3. CASE code' = code
    BY <1>1, <2>1, <2>3
  <2>4. CASE code' = << >>
    BY <2>4 DEF CodeInv
  <2>5. ASSUME NEW d, NEW v,
               code' = [g \in DOMAIN code \cup {f} |-> IF g = f THEN CodeOf(f, d, v) ELSE code[g]]
        PROVE  CodeInv'
    <3>1. \A g \in DOMAIN code' : g \in ToGenerate /\ code'[g].imports = Imports(g)
      BY <2>5, CodeImports DEF CodeInv
    <3>. QED  BY <2>1, <2>2, <3>1 DEF CodeInv, ToGenerate, descriptorVars
  <2>. QED  BY <2>1, <2>3, <2>4, <2>5 DEF Adds
<1>4. CASE UNCHANGED <<descriptorVars, generatorVars>>
  BY <1>1, <1>4 DEF generatorVars
<1>. QED  BY <1>2, <1>3, <1>4 DEF GeneratorNext

\* The loading is the same, whatever is generated from it.
LEMMA GeneratorLoads == GeneratorSpec => LoadSpec
<1>1. [GeneratorNext]_<<descriptorVars, generatorVars>> => [Load]_descriptorVars
  BY GenerateAdds DEF GeneratorNext
<1>. QED  BY <1>1, PTL DEF GeneratorSpec, LoadSpec

\* Alternative names are none of those the imports have beside their own, and
\* not the empty text.
NumberedApart == \A name, n : Numbered(name, n) \notin { p.alias : p \in BaseImports }

LEMMA ApartNonEmpty == NumberedApart => NumberedNonEmpty
<1>1. Package("io", "io", "") \in BaseImports
  BY DEF BaseImports, StandardImports
<1>2. Package("io", "io", "").alias = ""
  BY DEF Package
<1>. QED  BY <1>1, <1>2 DEF NumberedApart, NumberedNonEmpty

\* What a file's code needs comes from a loaded file.
Needed(f) ==
  { goPkg[FileOf(x.meth.input)] : x \in BindingsOf(f) }
    \cup (UNION { { goPkg[e] : e \in UNION { LookupEnum(x.b.params[k].field.typeName) : k \in DOMAIN x.b.params } } :
                    x \in BindingsOf(f) })

LEMMA NeededLoaded ==
  ASSUME LoadedInv, phase = "loaded", NEW f \in ToGenerate, NEW p \in Needed(f)
  PROVE  \E g \in DOMAIN goPkg : p = goPkg[g]
<1>1. ASSUME NEW x \in BindingsOf(f) PROVE FileOf(x.meth.input) \in DOMAIN goPkg
  <2>1. PICK svc \in ToSet(services[f]) : \E meth \in ToSet(svc.methods) : x.meth = meth
    BY DEF BindingsOf
  <2>2. x.meth.input \in MessageNames
    BY <2>1 DEF LoadedInv, InputsIn, ToSet
  <2>3. LookupMsg(x.meth.input) # {}
    BY <2>2 DEF MessageNames, LookupMsg
  <2>4. \A r \in LookupMsg(x.meth.input) : r.file \in DOMAIN goPkg
    BY DEF LookupMsg, Registered
  <2>. QED  BY <2>3, <2>4 DEF FileOf
<1>2. \A name : LookupEnum(name) \subseteq DOMAIN goPkg
  BY DEF LookupEnum
<1>. QED  BY <1>1, <1>2 DEF Needed

\* No needed package has the path of an import every file has, or its name.
LEMMA NeededApart ==
  ASSUME NumberedApart, NamesInv, NEW f, WellNamed(f), NEW g \in DOMAIN goPkg, NEW p \in BaseImports
  PROVE  goPkg[g].path # p.path /\ Pkg(goPkg[g]) # Pkg(p)
<1> DEFINE q == goPkg[g]
<1>1. q.path # p.path /\ (p.alias # "" => q.name # p.alias)
  BY DEF WellNamed
<1>2. CASE p.alias = ""
  <2>1. p.name \in StandardNames /\ Owner(p.name) = p.path /\ Pkg(p) = p.name
    BY <1>2, BaseOwned DEF Pkg
  <2>2. Pkg(q) = p.name => q.path = p.path
    <3>1. phase = "files" \/ DOMAIN goPkg # {}
      OBVIOUS
    <3>. QED  BY <2>1, <3>1 DEF NamesInv, StandardOwned, Owned
  <2>. QED  BY <1>1, <2>1, <2>2
<1>3. CASE p.alias # ""
  <2>1. q.alias # "" => q.alias # p.alias
    <3>1. \A name, n : Numbered(name, n) # p.alias
      BY DEF NumberedApart
    <3>2. q.alias # "" => \E n \in Nat : q.alias = Numbered(q.name, n)
      BY DEF NamesInv, First
    <3>. QED  BY <3>1, <3>2
  <2>. QED  BY <1>1, <1>3, <2>1 DEF Pkg
<1>. QED  BY <1>2, <1>3

\* Packages with one path are one: protogen has seen to their names.
LEMMA OnePackageEach ==
  ASSUME LoadedInv, OneNameEach, NEW g \in DOMAIN goPkg, NEW h \in DOMAIN goPkg,
         goPkg[g].path = goPkg[h].path
  PROVE  goPkg[g] = goPkg[h]
<1>1. \A e \in {g, h} : e \in DOMAIN req.files /\ goPkg[e].path = File(e).path /\ goPkg[e].name = File(e).name
  BY DEF LoadedInv
<1>2. File(g).path = File(h).path => File(g).name = File(h).name
  BY <1>1, RequestsAssumption DEF LoadedInv, File
<1>. QED  BY <1>1, <1>2 DEF OneNameEach

LEMMA SoundImports ==
  ASSUME NumberedApart, NamesInv, NamesDistinct, OneNameEach, LoadedInv, CodeInv
  PROVE  ImportsSound
<1> SUFFICES ASSUME NEW f \in DOMAIN code, WellNamed(f)
             PROVE  LET imports == code[f].imports
                    IN  /\ PackagesNamed(f) = imports \ BaseImports
                        /\ \A p, q \in imports : Pkg(p) = Pkg(q) \/ p.path = q.path => p = q
  BY DEF ImportsSound
<1> DEFINE own == goPkg[f]
           others == { p \in Needed(f) : p # own }
<1>1. phase = "loaded" /\ f \in ToGenerate /\ f \in DOMAIN goPkg /\ code[f].imports = Imports(f)
  BY DEF CodeInv, LoadedInv
<1>2. \A p \in Needed(f) : \E g \in DOMAIN goPkg : p = goPkg[g]
  BY <1>1, NeededLoaded
<1>3. \A p \in Needed(f), q \in BaseImports : p.path # q.path /\ Pkg(p) # Pkg(q)
  BY <1>2, NeededApart
<1>4. Imports(f) = BaseImports \cup others
  <2>1. Imports(f) = BaseImports \cup
          { p \in Needed(f) : p # own /\ \A q \in BaseImports : q.path # p.path }
    BY DEF Imports, Needed
  <2>. HIDE DEF own
  <2>. QED  BY <1>3, <2>1
<1>5. \A p \in Needed(f) : p # own <=> p.path # own.path
  BY <1>1, <1>2, OnePackageEach
<1>6. PackagesNamed(f) = others
  <2> DEFINE files(x) == {FileOf(x.meth.input)}
               \cup (UNION { LookupEnum(p.field.typeName) : p \in ToSet(x.b.params) })
               \cup (IF x.b.resp = << >> THEN {} ELSE {FileOf(x.meth.output)})
             named == UNION { { goPkg[g] : g \in files(x) } : x \in BindingsOf(f) }
  <2>1. PackagesNamed(f) = { p \in named : p.path # own.path }
    BY DEF PackagesNamed
  <2>2. ASSUME NEW x \in BindingsOf(f), NEW g \in files(x)
        PROVE  goPkg[g] \in Needed(f) \/ goPkg[g].path = own.path
    <3>1. CASE g = FileOf(x.meth.input)
      BY <3>1 DEF Needed
    <3>2. ASSUME NEW p \in ToSet(x.b.params), g \in LookupEnum(p.field.typeName)
          PROVE  goPkg[g] \in Needed(f)
      <4>1. PICK k \in DOMAIN x.b.params : p = x.b.params[k]
        BY DEF ToSet
      <4>. QED  BY <3>2, <4>1 DEF Needed
    <3>3. CASE x.b.resp # << >> /\ g = FileOf(x.meth.output)
      BY <3>3 DEF WellNamed
    <3>. QED  BY <2>2, <3>1, <3>2, <3>3
  <2>3. ASSUME NEW p \in Needed(f)
        PROVE  p \in named
    <3>1. CASE \E x \in BindingsOf(f) : p = goPkg[FileOf(x.meth.input)]
      BY <3>1
    <3>2. ASSUME NEW x \in BindingsOf(f), NEW k \in DOMAIN x.b.params,
                 NEW e \in LookupEnum(x.b.params[k].field.typeName), p = goPkg[e]
          PROVE  p \in named
      <4>1. x.b.params[k] \in ToSet(x.b.params)
        BY DEF ToSet
      <4>2. e \in files(x)
        BY <4>1
      <4>. QED  BY <3>2, <4>2
    <3>. QED  BY <2>3, <3>1, <3>2 DEF Needed
  <2>4. \A p \in named : p \in Needed(f) \/ p.path = own.path
    <3>. HIDE DEF files, own
    <3>. QED  BY <2>2
  <2>. HIDE DEF named, own
  <2>. QED  BY <1>5, <2>1, <2>3, <2>4
<1>7. \A p, q \in others : Pkg(p) = Pkg(q) \/ p.path = q.path => p = q
  <2>1. \A p, q \in Needed(f) : Pkg(p) = Pkg(q) => p.path = q.path
    BY <1>2 DEF NamesDistinct
  <2>2. \A p, q \in Needed(f) : p.path = q.path => p = q
    BY <1>2, OnePackageEach
  <2>. QED  BY <2>1, <2>2
<1>8. \A p, q \in BaseImports : Pkg(p) = Pkg(q) \/ p.path = q.path => p = q
  BY BaseDistinct
<1>9. others \cap BaseImports = {}
  BY <1>3
<1>10. \A p \in others, q \in BaseImports : p.path # q.path /\ Pkg(p) # Pkg(q)
  BY <1>3
<1>. HIDE DEF others, own
<1>11. PackagesNamed(f) = code[f].imports \ BaseImports
  BY <1>1, <1>4, <1>6, <1>9
<1>12. \A p, q \in code[f].imports : Pkg(p) = Pkg(q) \/ p.path = q.path => p = q
  BY <1>1, <1>4, <1>7, <1>8, <1>10
<1>. QED  BY <1>11, <1>12

\* Whatever order the files of a request are loaded in, a generated file imports
\* exactly the packages it names, each once and under a name of its own.
THEOREM ImportsAreSound == ASSUME NumberedApart PROVE GeneratorSpec => []ImportsSound
<1>1. GeneratorSpec => [](NamesInv /\ NamesDistinct /\ OneNameEach)
  BY ApartNonEmpty, GeneratorLoads, NamesInvariant, DistinctNames, OneName, PTL
<1>2. LoadedInv /\ [Load]_descriptorVars => LoadedInv'
  BY ApartNonEmpty, LoadedStep
<1>3. LoadSpec => []LoadedInv
  BY LoadedInit, <1>2, PTL DEF LoadSpec
<1>4. GeneratorInit => CodeInv
  BY DEF GeneratorInit, CodeInv
<1>5. CodeInv /\ [GeneratorNext]_<<descriptorVars, generatorVars>> => CodeInv'
  BY CodeStep
<1>6. GeneratorSpec => []CodeInv
  BY <1>4, <1>5, PTL DEF GeneratorSpec
<1>7. NamesInv /\ NamesDistinct /\ OneNameEach /\ LoadedInv /\ CodeInv => ImportsSound
  BY SoundImports
<1>. QED  BY <1>1, <1>3, <1>6, <1>7, GeneratorLoads, PTL

-----------------------------------------------------------------------------
(* What the services of a file are loaded as: a handler for every rule that *)
(* is declared.  First the configured rules, gathered one after the other.  *)

RulesOf(s) == IF s \in DOMAIN rules THEN rules[s] ELSE << >>

\* The rules of a selector among the first n that are configured.
Gathered(s, n) ==
  FlattenSeq([k \in 1..n |-> IF req.configured[k].selector = s THEN << req.configured[k].rule >> ELSE << >>])

RulesInv ==
  /\ req \in Requests
  /\ phase = "rules" =>
       \E n \in 0..Len(req.configured) :
         todo = (n + 1)..Len(req.configured) /\ \A s : RulesOf(s) = Gathered(s, n)
  /\ phase \notin {"rules", "failed"} => \A s : RulesOf(s) = Gathered(s, Len(req.configured))

LEMMA ConfiguredListed ==
  ASSUME req \in Requests
  PROVE  Len(req.configured) \in Nat /\ DOMAIN req.configured = 1..Len(req.configured)
<1>1. IsList(req.configured)
  BY RequestsAssumption
<1>. QED  BY <1>1 DEF IsList

LEMMA GatheredNext ==
  ASSUME req \in Requests, NEW s
  PROVE  /\ Gathered(s, 0) = << >>
         /\ \A n \in 0..(Len(req.configured) - 1) : LET c == req.configured[n + 1] IN
              Gathered(s, n + 1) = IF s = c.selector THEN Append(Gathered(s, n), c.rule) ELSE Gathered(s, n)
<1> DEFINE N == Len(req.configured)
           X == { req.configured[k].rule : k \in 1..N }
           one(k) == IF req.configured[k].selector = s THEN << req.configured[k].rule >> ELSE << >>
           all == [k \in 1..N |-> one(k)]
<1>1. N \in Nat
  BY ConfiguredListed
<1>2. all \in [1..N -> Seq(X)] /\ \A k \in 1..N : all[k] = one(k)
  <2>1. \A k \in 1..N : req.configured[k].rule \in X
    OBVIOUS
  <2>. HIDE DEF X, N
  <2>. QED  BY <2>1
<1>3. ASSUME NEW n \in 0..N PROVE Gathered(s, n) = FlattenSeq(Firsts(all, n))
  <2>1. \A k \in 1..n : k \in 1..N
    OBVIOUS
  <2>2. [k \in 1..n |-> one(k)] = Firsts(all, n)
    <3>. HIDE DEF one, all
    <3>. QED  BY <1>2, <2>1 DEF Firsts
  <2>. QED  BY <2>2 DEF Gathered
<1>. HIDE DEF all, X
<1>4. FlattenSeq(Firsts(all, 0)) = << >>
  <2>. HIDE DEF N
  <2>. QED  BY <1>1, <1>2, FirstsFlatten
<1>5. Gathered(s, 0) = << >>
  <2>1. 0 \in 0..N
    <3>. HIDE DEF N
    <3>. QED  BY <1>1
  <2>. QED  BY <1>3, <1>4, <2>1
<1>. HIDE DEF N
<1>6. ASSUME NEW n \in 0..(N - 1)
      PROVE  LET c == req.configured[n + 1] IN
               Gathered(s, n + 1) = IF s = c.selector THEN Append(Gathered(s, n), c.rule) ELSE Gathered(s, n)
  <2>1. n \in 0..N /\ n + 1 \in 0..N /\ n + 1 \in 1..N
    BY <1>1
  <2>2. FlattenSeq(Firsts(all, n)) \in Seq(X)
    BY <1>1, <1>2, <2>1, FirstsFlatten
  <2>3. Concats(FlattenSeq(Firsts(all, n + 1)), FlattenSeq(Firsts(all, n)), all[n + 1])
    BY <1>1, <1>2, FirstsFlatten
  <2>4. Gathered(s, n) \in Seq(X) /\ Gathered(s, n + 1) = Gathered(s, n) \o all[n + 1]
    BY <1>3, <2>1, <2>2, <2>3 DEF Concats
  <2>5. all[n + 1] = IF s = req.configured[n + 1].selector THEN << req.configured[n + 1].rule >> ELSE << >>
    BY <1>2, <2>1
  <2>6. /\ Gathered(s, n) \o << >> = Gathered(s, n)
        /\ \A r : Gathered(s, n) \o << r >> = Append(Gathered(s, n), r)
    BY <2>4
  <2>. QED  BY <2>4, <2>5, <2>6
<1>. QED  BY <1>5, <1>6 DEF N

LEMMA RulesInit == DescriptorsInit => RulesInv
<1> SUFFICES ASSUME DescriptorsInit PROVE RulesInv
  OBVIOUS
<1>1. req \in Requests /\ phase = "rules" /\ rules = << >> /\ todo = DOMAIN req.configured
  BY DEF DescriptorsInit
<1>2. Len(req.configured) \in Nat /\ todo = (0 + 1)..Len(req.configured)
  BY <1>1, ConfiguredListed
<1>3. \A s : RulesOf(s) = Gathered(s, 0)
  BY <1>1, GatheredNext DEF RulesOf
<1>4. 0 \in 0..Len(req.configured)
  BY <1>2
<1>. QED  BY <1>1, <1>2, <1>3, <1>4 DEF RulesInv

LEMMA RulesStep ==
  ASSUME RulesInv, [Load]_descriptorVars
  PROVE  RulesInv'
<1> DEFINE N == Len(req.configured)
<1>0. req \in Requests /\ N \in Nat
  BY ConfiguredListed DEF RulesInv
<1>a. ASSUME UNCHANGED <<req, rules>>, NEW s, NEW n
      PROVE  RulesOf(s)' = RulesOf(s) /\ Gathered(s, n)' = Gathered(s, n)
  BY <1>a DEF RulesOf, Gathered
<1>1. ASSUME AddExternalHTTPRule
      PROVE  RulesInv'
  <2>1. CASE phase' = "failed"
    BY <1>0, <1>1, <2>1 DEF RulesInv, AddExternalHTTPRule
  <2>2. CASE phase' # "failed"
    <3>1. PICK n \in 0..N : todo = (n + 1)..N /\ \A s : RulesOf(s) = Gathered(s, n)
      BY <1>1 DEF RulesInv, AddExternalHTTPRule
    <3> DEFINE first == CHOOSE k \in todo : \A j \in todo : k <= j
               given == req.configured[first]
    <3>2. /\ phase = "rules" /\ phase' = "rules" /\ req' = req /\ todo # {}
          /\ rules' = [s \in DOMAIN rules \cup {given.selector} |->
                         LET before == IF s \in DOMAIN rules THEN rules[s] ELSE << >>
                         IN  IF s = given.selector THEN Append(before, given.rule) ELSE before]
          /\ todo' = todo \ {first}
      BY <1>1, <2>2 DEF AddExternalHTTPRule, Fail
    <3>3. n + 1 \in todo /\ n \in 0..(N - 1) /\ \A j \in todo : n + 1 <= j
      BY <1>0, <3>1, <3>2
    <3>4. first = n + 1
      <4>1. todo \subseteq Nat
        BY <1>0, <3>1
      <4>2. first \in todo /\ \A j \in todo : first <= j
        BY <3>3
      <4>. HIDE DEF first
      <4>. QED  BY <3>3, <4>1, <4>2
    <3>. HIDE DEF first
    <3>5. todo' = ((n + 1) + 1)..N /\ n + 1 \in 0..N
      BY <1>0, <3>1, <3>2, <3>3, <3>4
    <3>6. ASSUME NEW s PROVE RulesOf(s)' = Gathered(s, n + 1)
      <4>1. RulesOf(s)' = IF s = given.selector THEN Append(RulesOf(s), given.rule) ELSE RulesOf(s)
        BY <3>2 DEF RulesOf
      <4>2. Gathered(s, n + 1) = IF s = given.selector THEN Append(Gathered(s, n), given.rule) ELSE Gathered(s, n)
        BY <1>0, <3>3, <3>4, GatheredNext
      <4>. QED  BY <3>1, <4>1, <4>2
    <3>7. \A s : Gathered(s, n + 1)' = Gathered(s, n + 1)
      BY <3>2 DEF Gathered
    <3>. QED  BY <1>0, <3>2, <3>5, <3>6, <3>7 DEF RulesInv
  <2>. QED  BY <2>1, <2>2
<1>2. CASE New
  <2>1. todo = {} /\ phase = "rules" /\ phase' = "files" /\ UNCHANGED <<req, rules>>
    BY <1>2 DEF New
  <2>2. PICK n \in 0..N : todo = (n + 1)..N /\ \A s : RulesOf(s) = Gathered(s, n)
    BY <2>1 DEF RulesInv
  <2>3. n = N
    <3>1. n < N => n + 1 \in todo
      BY <1>0, <2>2
    <3>. QED  BY <1>0, <2>1, <3>1
  <2>. QED  BY <1>0, <1>a, <2>1, <2>2, <2>3 DEF RulesInv
<1>3. ASSUME UNCHANGED <<req, rules>>, phase \notin {"rules", "failed"}, phase' # "rules"
      PROVE  RulesInv'
  BY <1>a, <1>3, <1>0 DEF RulesInv
<1>4. CASE \E f \in DOMAIN req.files : LoadFile(f)
  BY <1>3, <1>4 DEF LoadFile
<1>5. CASE \E f \in DOMAIN req.files : LoadServices(f)
  BY <1>3, <1>5 DEF LoadServices, Fail
<1>6. CASE CheckUnbound
  BY <1>3, <1>6 DEF CheckUnbound
<1>7. CASE UNCHANGED descriptorVars
  <2>1. UNCHANGED <<req, rules, phase, todo>>
    BY <1>7 DEF descriptorVars
  <2>. QED  BY <1>a, <2>1 DEF RulesInv
<1>. QED  BY <1>1, <1>2, <1>4, <1>5, <1>6, <1>7 DEF Load

-----------------------------------------------------------------------------
\* The rules of a method: what is declared, or the default.
ListedRules(svc, meth) ==
  LET declared == DeclaredRules(svc, meth)
  IN  IF declared = << >> /\ req.flags.generateUnboundMethods
      THEN << defaultAPIOptions(svc, meth) >> ELSE declared
Applied(listed) == FlattenSeq([k \in DOMAIN listed |-> applyOpts(listed[k])])
AppliedRules(svc, meth) == Applied(ListedRules(svc, meth))

\* A loaded service has the methods of its declaration, and these their bindings.
IsBinding(b, rule, n) ==
  IF rule.http = "none" THEN b = NoBinding
  ELSE b.index = n - 1 /\ b.http = rule.http /\ b.tmpl = rule.tmpl
AreBindings(bs, applied) == DOMAIN bs = DOMAIN applied /\ \A n \in DOMAIN applied : IsBinding(bs[n], applied[n], n)
IsMethod(m, svc, meth) == m.name = meth.name /\ AreBindings(m.bindings, AppliedRules(svc, meth))
IsService(l, svc) ==
  /\ l.name = svc.name /\ DOMAIN l.methods = DOMAIN svc.methods
  /\ \A k \in DOMAIN svc.methods : IsMethod(l.methods[k], svc, svc.methods[k])

\* Services are those that are declared and have methods.
AreServices(svcs, declared) ==
  \E L : /\ DOMAIN L = DOMAIN declared
         /\ \A k \in DOMAIN declared : IsService(L[k], declared[k])
         /\ svcs = FlattenSeq([k \in DOMAIN declared |-> IF declared[k].methods = << >> THEN << >> ELSE << L[k] >>])

RulesSettled == \A s : RulesOf(s) = Gathered(s, Len(req.configured))

LEMMA OptionsListed ==
  ASSUME req \in Requests, RulesSettled, NEW svc, NEW meth
  PROVE  OptionsOf(svc, meth) = ListedRules(svc, meth)
<1> DEFINE s == <<svc.name, meth.name>>
<1>1. DOMAIN req.configured = 1..Len(req.configured)
  BY ConfiguredListed
<1>2. DeclaredRules(svc, meth) = Gathered(s, Len(req.configured)) \o meth.rule
  BY <1>1 DEF DeclaredRules, Gathered
<1>3. DeclaredRules(svc, meth) = RulesOf(s) \o meth.rule
  BY <1>2 DEF RulesSettled
<1>. QED  BY <1>3, Zenon DEF OptionsOf, ListedRules, RulesOf

LEMMA BindingMade ==
  ASSUME NEW meth, NEW rule, NEW n, NEW b \in newBinding(meth, rule, n - 1)
  PROVE  IsBinding(b, rule, n)
BY DEF newBinding, IsBinding

LEMMA BindingsMade ==
  ASSUME req \in Requests, RulesSettled, NEW svc, NEW meth, NEW bs \in newBindings(svc, meth)
  PROVE  AreBindings(bs, AppliedRules(svc, meth))
<1> DEFINE opts == OptionsOf(svc, meth)
           applied == FlattenSeq([k \in DOMAIN opts |-> applyOpts(opts[k])])
           found(n) == newBinding(meth, applied[n], n - 1)
           made == [n \in DOMAIN applied |-> CHOOSE b \in found(n) : TRUE]
<1>1. applied = AppliedRules(svc, meth)
  BY OptionsListed DEF AppliedRules, Applied
<1>2. bs = made /\ \A n \in DOMAIN applied : found(n) # {}
  BY Zenon DEF newBindings
<1>3. ASSUME NEW n \in DOMAIN applied PROVE IsBinding(bs[n], applied[n], n)
  <2>1. bs[n] = CHOOSE b \in found(n) : TRUE
    <3>1. made[n] = CHOOSE b \in found(n) : TRUE
      <4>. HIDE DEF applied, found
      <4>. QED  OBVIOUS
    <3>. HIDE DEF made
    <3>. QED  BY <1>2, <3>1
  <2>2. bs[n] \in found(n)
    <3>. HIDE DEF found, applied
    <3>. QED  BY <1>2, <2>1
  <2>. HIDE DEF applied
  <2>. QED  BY <2>2, BindingMade
<1>4. DOMAIN bs = DOMAIN applied
  <2>. HIDE DEF applied, found
  <2>. QED  BY <1>2
<1>. HIDE DEF applied
<1>. QED  BY <1>1, <1>3, <1>4 DEF AreBindings

LEMMA MethodMade ==
  ASSUME req \in Requests, RulesSettled, NEW svc, NEW meth, NEW m \in newMethod(svc, meth)
  PROVE  IsMethod(m, svc, meth)
<1>1. m.name = meth.name /\ m.bindings \in newBindings(svc, meth)
  BY DEF newMethod
<1>. QED  BY <1>1, BindingsMade DEF IsMethod

LEMMA ServicesMade ==
  ASSUME req \in Requests, RulesSettled, NEW f, NEW svcs \in loadServices(f)
  PROVE  AreServices(svcs, File(f).services)
<1> DEFINE declared == File(f).services
           Methods(svc) == [k \in DOMAIN svc.methods |-> newMethod(svc, svc.methods[k])]
           Refused(svc) == ~svc.hasSpec \/ \E k \in DOMAIN svc.methods : Methods(svc)[k] = {}
           Loaded(svc) ==
             [name |-> svc.name, controller |-> svc.controller, balancer |-> svc.balancer, labels |-> svc.labels,
              methods |-> [k \in DOMAIN svc.methods |-> CHOOSE m \in Methods(svc)[k] : TRUE]]
           Kept(svc) == IF svc.methods = << >> THEN << >> ELSE << Loaded(svc) >>
           L == [k \in DOMAIN declared |-> Loaded(declared[k])]
<1>1. svcs = FlattenSeq([k \in DOMAIN declared |-> Kept(declared[k])]) /\ \A k \in DOMAIN declared : ~Refused(declared[k])
  BY DEF loadServices
<1>2. ASSUME NEW svc, ~Refused(svc) PROVE IsService(Loaded(svc), svc)
  <2>1. Loaded(svc).name = svc.name /\ DOMAIN Loaded(svc).methods = DOMAIN svc.methods
    OBVIOUS
  <2>2. ASSUME NEW k \in DOMAIN svc.methods PROVE IsMethod(Loaded(svc).methods[k], svc, svc.methods[k])
    <3> DEFINE found == newMethod(svc, svc.methods[k])
    <3>1. Methods(svc)[k] = found /\ found # {}
      BY <1>2
    <3>2. Loaded(svc).methods[k] = CHOOSE x \in found : TRUE
      BY <3>1
    <3>3. Loaded(svc).methods[k] \in found
      <4>. HIDE DEF found, Loaded
      <4>. QED  BY <3>1, <3>2
    <3>. HIDE DEF Loaded
    <3>. QED  BY <3>3, MethodMade
  <2>. HIDE DEF Loaded
  <2>. QED  BY <2>1, <2>2 DEF IsService
<1>. HIDE DEF Loaded, Refused, declared
<1>3. DOMAIN L = DOMAIN declared /\ \A k \in DOMAIN declared : L[k] = Loaded(declared[k]) /\ IsService(L[k], declared[k])
  BY <1>1, <1>2
<1>4. [k \in DOMAIN declared |-> Kept(declared[k])]
        = [k \in DOMAIN declared |-> IF declared[k].methods = << >> THEN << >> ELSE << L[k] >>]
  BY <1>3
<1>. HIDE DEF L, Kept
<1>5. AreServices(svcs, declared)
  BY <1>1, <1>3, <1>4 DEF AreServices
<1>. QED  BY <1>5 DEF declared

\* Every file's services are those of its declaration; all that are to be
\* generated have them in the end.
ServicesInv ==
  /\ \A f \in DOMAIN services : f \in DOMAIN req.files /\ AreServices(services[f], File(f).services)
  /\ phase = "loaded" => ToGenerate \subseteq DOMAIN services

LEMMA ServicesStand ==
  ASSUME UNCHANGED req, NEW svcs, NEW f, AreServices(svcs, File(f).services)
  PROVE  AreServices(svcs, File(f).services)'
<1>1. \A svc, meth : AppliedRules(svc, meth)' = AppliedRules(svc, meth)
  <2>1. \A svc, meth : DeclaredRules(svc, meth)' = DeclaredRules(svc, meth)
    BY DEF DeclaredRules
  <2>2. \A svc, meth : ListedRules(svc, meth)' = ListedRules(svc, meth)
    BY <2>1 DEF ListedRules
  <2>. QED  BY <2>2 DEF AppliedRules
<1>2. \A m, svc, meth : IsMethod(m, svc, meth)' <=> IsMethod(m, svc, meth)
  BY <1>1 DEF IsMethod
<1>3. \A l, svc : IsService(l, svc)' <=> IsService(l, svc)
  BY <1>2 DEF IsService
<1>4. File(f)' = File(f)
  BY DEF File
<1>. QED  BY <1>3, <1>4, Zenon DEF AreServices

LEMMA ServicesStep ==
  ASSUME RulesInv, ServicesInv, [Load]_descriptorVars
  PROVE  ServicesInv'
<1>1. ASSUME UNCHANGED <<req, services>>, phase' = "loaded" => ToGenerate \subseteq DOMAIN services
      PROVE  ServicesInv'
  BY <1>1, ServicesStand DEF ServicesInv, ToGenerate
<1>2. ASSUME NEW f \in DOMAIN req.files, LoadServices(f)
      PROVE  ServicesInv'
  <2>1. CASE loadServices(f) = {}
    BY <1>1, <1>2, <2>1 DEF LoadServices, Fail
  <2>2. CASE loadServices(f) # {}
    <3>1. PICK svcs \in loadServices(f) :
            services' = [g \in DOMAIN services \cup {f} |-> IF g = f THEN svcs ELSE services[g]]
      BY <1>2, <2>2 DEF LoadServices
    <3>2. phase = "services" /\ phase' = phase /\ UNCHANGED req
      BY <1>2, <2>2 DEF LoadServices
    <3>3. AreServices(svcs, File(f).services)
      BY <3>2, ServicesMade DEF RulesInv, RulesSettled
    <3>4. \A g \in DOMAIN services' : g \in DOMAIN req.files /\ AreServices(services'[g], File(g).services)
      BY <3>1, <3>3 DEF ServicesInv
    <3>. QED  BY <3>2, <3>4, ServicesStand DEF ServicesInv
  <2>. QED  BY <2>1, <2>2
<1>3. CASE \E f \in DOMAIN req.files : LoadFile(f)
  BY <1>1, <1>3 DEF LoadFile
<1>4. CASE AddExternalHTTPRule \/ New
  BY <1>1, <1>4 DEF AddExternalHTTPRule, New, Fail
<1>5. CASE CheckUnbound
  BY <1>1, <1>5 DEF CheckUnbound
<1>6. CASE UNCHANGED descriptorVars
  BY <1>1, <1>6 DEF descriptorVars, ServicesInv
<1>. QED  BY <1>2, <1>3, <1>4, <1>5, <1>6 DEF Load

-----------------------------------------------------------------------------
(* The bindings of a method, by name: the rules it declares.               *)

LEMMA ListOf ==
  ASSUME NEW s, NEW N \in Nat, NEW X, s = [k \in 1..N |-> s[k]], \A k \in 1..N : s[k] \in X
  PROVE  s \in Seq(X) /\ Len(s) = N
<1>1. s \in [1..N -> X]
  OBVIOUS
<1>. QED  BY <1>1, IsASeq

LEMMA ListTyped == ASSUME NEW s, IsList(s) PROVE s \in Seq(ToSet(s))
<1>1. Len(s) \in Nat /\ s = [k \in 1..Len(s) |-> s[k]] /\ \A k \in 1..Len(s) : s[k] \in ToSet(s)
  BY DEF IsList, ToSet
<1>. QED  BY <1>1, ListOf

\* The rules that may apply to a method.
RulesFor(svc, meth) ==
  { req.configured[k].rule : k \in DOMAIN req.configured } \cup ToSet(meth.rule) \cup { defaultAPIOptions(svc, meth) }

\* The declaration of a method of a request.
IsDeclared(svc, meth) ==
  \E f \in DOMAIN req.files : svc \in ToSet(File(f).services) /\ meth \in ToSet(svc.methods)

LEMMA RulesTyped ==
  ASSUME req \in Requests, NEW svc, NEW meth, IsDeclared(svc, meth)
  PROVE  /\ ListedRules(svc, meth) \in Seq(RulesFor(svc, meth))
         /\ \A r \in RulesFor(svc, meth) : IsList(r.additional)
<1> DEFINE R == RulesFor(svc, meth)
           N == Len(req.configured)
           s == <<svc.name, meth.name>>
           mine == [k \in 1..N |-> IF req.configured[k].selector = s THEN << req.configured[k].rule >> ELSE << >>]
<1>1. N \in Nat /\ DOMAIN req.configured = 1..N
  BY ConfiguredListed
<1>2. IsList(meth.rule) /\ \A rule \in ToSet(meth.rule) : IsList(rule.additional)
  <2>1. PICK f \in DOMAIN req.files : svc \in ToSet(File(f).services) /\ meth \in ToSet(svc.methods)
    BY DEF IsDeclared
  <2>2. WellFormedFile(File(f))
    BY RequestsAssumption DEF File
  <2>. QED  BY <2>1, <2>2 DEF WellFormedFile
<1>3. /\ \A k \in 1..N : req.configured[k].rule \in R
      /\ ToSet(meth.rule) \subseteq R /\ defaultAPIOptions(svc, meth) \in R
  <2>. HIDE DEF N
  <2>. QED  BY <1>1 DEF RulesFor
<1>4. \A r \in R : IsList(r.additional)
  <2>1. \A k \in 1..N : IsList(req.configured[k].rule.additional)
    <3>1. \A c \in ToSet(req.configured) : IsList(c.rule.additional)
      BY RequestsAssumption
    <3>. HIDE DEF N
    <3>. QED  BY <1>1, <3>1 DEF ToSet
  <2>2. IsList(defaultAPIOptions(svc, meth).additional)
    BY DEF defaultAPIOptions, IsList
  <2>. HIDE DEF N
  <2>. QED  BY <1>1, <1>2, <2>1, <2>2 DEF RulesFor
<1>. HIDE DEF R
<1>5. FlattenSeq(mine) \in Seq(R)
  <2>1. mine \in [1..N -> Seq(R)]
    <3>. HIDE DEF N
    <3>. QED  BY <1>1, <1>3
  <2>. HIDE DEF mine, N
  <2>. QED  BY <1>1, <2>1, FlattenType
<1>6. meth.rule \in Seq(R)
  <2>1. meth.rule \in Seq(ToSet(meth.rule))
    BY <1>2, ListTyped
  <2>. QED  BY <1>3, <2>1
<1>7. DeclaredRules(svc, meth) = FlattenSeq(mine) \o meth.rule
  BY <1>1 DEF DeclaredRules
<1>. HIDE DEF mine, N
<1>8. DeclaredRules(svc, meth) \in Seq(R)
  BY <1>5, <1>6, <1>7, ConcatProperties
<1>9. << defaultAPIOptions(svc, meth) >> \in Seq(R)
  BY <1>3
<1>. QED  BY <1>4, <1>8, <1>9 DEF ListedRules, R

\* A handler's name, and the names that a rule and its additional rules give.
Name(svc, meth, r) == <<svc.name, meth.name, r.http, r.tmpl.text>>
GivenBy(svc, meth, r) == IF r.http = "none" THEN << >> ELSE << Name(svc, meth, r) >>
MoreBy(svc, meth, r) == FlattenSeq([k \in DOMAIN r.additional |-> GivenBy(svc, meth, r.additional[k])])

\* The rules applied, of some that are listed.
LEMMA AppliedTyped ==
  ASSUME NEW R, NEW listed \in Seq(R), \A r \in R : IsList(r.additional)
  PROVE  LET A == R \cup UNION { ToSet(r.additional) : r \in R } IN
         /\ \A k \in 1..Len(listed) : applyOpts(listed[k]) \in Seq(A)
         /\ Applied(listed) \in Seq(A)
<1> DEFINE A == R \cup UNION { ToSet(r.additional) : r \in R }
           n == Len(listed)
           seqs == [k \in DOMAIN listed |-> applyOpts(listed[k])]
<1>1. n \in Nat /\ DOMAIN listed = 1..n /\ \A k \in 1..n : listed[k] \in R
  OBVIOUS
<1>2. \A r \in R : r \in A /\ ToSet(r.additional) \subseteq A
  OBVIOUS
<1>. HIDE DEF A
<1>3. ASSUME NEW r \in R PROVE applyOpts(r) \in Seq(A)
  <2>1. r.additional \in Seq(ToSet(r.additional)) /\ r \in A /\ ToSet(r.additional) \subseteq A
    BY <1>2, ListTyped
  <2>2. r.additional \in Seq(A)
    BY <2>1
  <2>3. << >> \in Seq(A) /\ << r >> \in Seq(A)
    BY <2>1
  <2>4. \A a, b \in Seq(A) : a \o b \in Seq(A)
    BY ConcatProperties
  <2>. QED  BY <2>2, <2>3, <2>4 DEF applyOpts
<1>4. \A k \in 1..n : applyOpts(listed[k]) \in Seq(A)
  BY <1>1, <1>3
<1>5. seqs \in [1..n -> Seq(A)]
  <2>. HIDE DEF n
  <2>. QED  BY <1>1, <1>4
<1>6. FlattenSeq(seqs) \in Seq(A)
  <2>. HIDE DEF n, seqs
  <2>. QED  BY <1>1, <1>5, FlattenType
<1>. QED  BY <1>4, <1>6 DEF A, seqs, Applied

LEMMA RuleNames ==
  ASSUME NEW A, NEW r \in A, NEW svc, NEW meth, r.additional \in Seq(A),
         \A k \in DOMAIN r.additional : r.additional[k].http # "none"
  PROVE  Mapped([x \in A |-> Name(svc, meth, x)], applyOpts(r)) = GivenBy(svc, meth, r) \o MoreBy(svc, meth, r)
<1> DEFINE T == { Name(svc, meth, x) : x \in A }
           h == [x \in A |-> Name(svc, meth, x)]
           first == IF r.http = "none" THEN << >> ELSE << r >>
           more == r.additional
           n == Len(more)
           names == [k \in 1..n |-> h[more[k]]]
<1>1. h \in [A -> T] /\ \A x \in A : h[x] = Name(svc, meth, x)
  OBVIOUS
<1>2. first \in Seq(A) /\ Mapped(h, first) = GivenBy(svc, meth, r)
  <2>1. CASE r.http = "none"
    BY <2>1 DEF Mapped, GivenBy
  <2>2. CASE r.http # "none"
    <3>1. Mapped(h, << r >>) = << h[r] >>
      BY DEF Mapped
    <3>. QED  BY <1>1, <2>2, <3>1 DEF GivenBy
  <2>. QED  BY <2>1, <2>2
<1>3. Mapped(h, more) = MoreBy(svc, meth, r)
  <2>1. n \in Nat /\ DOMAIN more = 1..n /\ \A k \in 1..n : more[k] \in A
    OBVIOUS
  <2>2. names \in [1..n -> T]
    <3>. HIDE DEF h, n, more, T
    <3>. QED  BY <1>1, <2>1
  <2>3. [k \in DOMAIN more |-> GivenBy(svc, meth, more[k])] = [k \in 1..n |-> << names[k] >>]
    <3>1. \A k \in 1..n : names[k] = Name(svc, meth, more[k]) /\ more[k].http # "none"
      <4>. HIDE DEF h
      <4>. QED  BY <1>1, <2>1
    <3>. HIDE DEF names, n
    <3>. QED  BY <2>1, <3>1 DEF GivenBy
  <2>. HIDE DEF names, T
  <2>4. FlattenSeq([k \in 1..n |-> << names[k] >>]) = names
    BY <2>1, <2>2, FlattenOnes
  <2>5. Mapped(h, more) = names
    BY <2>1 DEF Mapped, names
  <2>. QED  BY <2>3, <2>4, <2>5 DEF MoreBy
<1>4. Concats(applyOpts(r), first, more)
  BY DEF applyOpts, Concats
<1>. HIDE DEF h, first, T
<1>5. Concats(Mapped(h, applyOpts(r)), Mapped(h, first), Mapped(h, more))
  BY <1>1, <1>2, <1>4, MapConcat
<1>. QED  BY <1>2, <1>3, <1>5 DEF Concats, h

\* Of sequences that flatten to what has a property, all elements have it.
LEMMA FlattenEach ==
  ASSUME NEW A, NEW N \in Nat, NEW seqs \in [1..N -> Seq(A)],
         \A q \in DOMAIN FlattenSeq(seqs) : FlattenSeq(seqs)[q].http # "none"
  PROVE  \A k \in 1..N : \A p \in DOMAIN seqs[k] : seqs[k][p].http # "none"
<1>1. ASSUME NEW k \in 1..N, NEW p \in DOMAIN seqs[k] PROVE seqs[k][p].http # "none"
  <2>1. Occurs(seqs[k][p], FlattenSeq(seqs))
    BY FlattenAll
  <2>. QED  BY <2>1 DEF Occurs
<1>. QED  BY <1>1

\* The names of the rules applied, when none is without a pattern.
NamesGiven(A, N, listed, seqs, svc, meth) ==
  Mapped([x \in A |-> Name(svc, meth, x)], FlattenSeq(seqs))
    = FlattenSeq([k \in 1..N |-> GivenBy(svc, meth, listed[k]) \o MoreBy(svc, meth, listed[k])])

LEMMA NamesMade ==
  ASSUME NEW A, NEW N \in Nat, NEW listed \in [1..N -> A], \A k \in 1..N : listed[k].additional \in Seq(A),
         NEW seqs \in [1..N -> Seq(A)], \A k \in 1..N : seqs[k] = applyOpts(listed[k]),
         \A k \in 1..N : \A p \in DOMAIN seqs[k] : seqs[k][p].http # "none", NEW svc, NEW meth
  PROVE  NamesGiven(A, N, listed, seqs, svc, meth)
<1> DEFINE T == { Name(svc, meth, x) : x \in A }
           h == [x \in A |-> Name(svc, meth, x)]
<1>1. h \in [A -> T]
  OBVIOUS
<1>2. ASSUME NEW k \in 1..N
      PROVE  Mapped(h, seqs[k]) = GivenBy(svc, meth, listed[k]) \o MoreBy(svc, meth, listed[k])
  <2> DEFINE r == listed[k]
             first == IF r.http = "none" THEN << >> ELSE << r >>
             more == r.additional
  <2>1. r \in A /\ more \in Seq(A)
    OBVIOUS
  <2>2. Concats(seqs[k], first, more) /\ first \in Seq(A)
    <3>1. applyOpts(r) = first \o more
      BY DEF applyOpts
    <3>2. << >> \in Seq(A) /\ << r >> \in Seq(A)
      BY <2>1
    <3>3. first \in Seq(A)
      BY <3>2
    <3>. HIDE DEF first, more
    <3>. QED  BY <3>1, <3>3 DEF Concats
  <2>. HIDE DEF first
  <2>3. ASSUME NEW j \in DOMAIN more PROVE more[j].http # "none"
    <3>. HIDE DEF r, more
    <3>1. /\ Len(first) \in Nat /\ Len(more) \in Nat /\ DOMAIN more = 1..Len(more)
          /\ DOMAIN seqs[k] = 1..(Len(first) + Len(more))
          /\ \A p \in 1..(Len(first) + Len(more)) :
               seqs[k][p] = IF p <= Len(first) THEN first[p] ELSE more[p - Len(first)]
      BY <2>1, <2>2 DEF Concats
    <3>2. Len(first) + j \in DOMAIN seqs[k] /\ seqs[k][Len(first) + j] = more[j]
      <4>1. /\ Len(first) + j \in 1..(Len(first) + Len(more)) /\ ~(Len(first) + j <= Len(first))
            /\ (Len(first) + j) - Len(first) = j
        BY <3>1
      <4>. QED  BY <3>1, <4>1
    <3>. QED  BY <3>2
  <2>4. Mapped(h, applyOpts(r)) = GivenBy(svc, meth, r) \o MoreBy(svc, meth, r)
    BY <2>1, <2>3, RuleNames
  <2>. QED  BY <2>4
<1>3. Mapped(h, FlattenSeq(seqs)) = FlattenSeq([k \in 1..N |-> Mapped(h, seqs[k])])
  <2>. HIDE DEF h, T
  <2>1. MapsFlat(h, N, seqs)
    BY <1>1, MapFlatten
  <2>. QED  BY <2>1 DEF MapsFlat
<1>4. [k \in 1..N |-> Mapped(h, seqs[k])]
        = [k \in 1..N |-> GivenBy(svc, meth, listed[k]) \o MoreBy(svc, meth, listed[k])]
  <2>. HIDE DEF h
  <2>. QED  BY <1>2
<1>. HIDE DEF h
<1>5. Mapped(h, FlattenSeq(seqs))
        = FlattenSeq([k \in 1..N |-> GivenBy(svc, meth, listed[k]) \o MoreBy(svc, meth, listed[k])])
  BY <1>3, <1>4
<1>. QED  BY <1>5 DEF h, NamesGiven

AllNamed(svc, meth, listed) ==
  [n \in DOMAIN Applied(listed) |-> Name(svc, meth, Applied(listed)[n])]
    = FlattenSeq([k \in DOMAIN listed |-> GivenBy(svc, meth, listed[k]) \o MoreBy(svc, meth, listed[k])])

LEMMA AppliedNames ==
  ASSUME NEW R, NEW listed \in Seq(R), \A r \in R : IsList(r.additional), NEW svc, NEW meth,
         \A n \in DOMAIN Applied(listed) : Applied(listed)[n].http # "none"
  PROVE  AllNamed(svc, meth, listed)
<1> DEFINE applied == Applied(listed)
           A == R \cup UNION { ToSet(r.additional) : r \in R }
           N == Len(listed)
           seqs == [k \in 1..N |-> applyOpts(listed[k])]
           h == [x \in A |-> Name(svc, meth, x)]
<1>1. N \in Nat /\ DOMAIN listed = 1..N /\ \A k \in 1..N : listed[k] \in R
  OBVIOUS
<1>2. (\A k \in 1..N : applyOpts(listed[k]) \in Seq(A)) /\ applied \in Seq(A)
  BY AppliedTyped
<1>3. listed \in [1..N -> A] /\ \A k \in 1..N : listed[k].additional \in Seq(A)
  <2>1. \A r \in R : r \in A /\ ToSet(r.additional) \subseteq A
    OBVIOUS
  <2>. HIDE DEF A, N
  <2>2. ASSUME NEW r \in R PROVE r.additional \in Seq(A)
    <3>1. r.additional \in Seq(ToSet(r.additional)) /\ ToSet(r.additional) \subseteq A
      BY <2>1, ListTyped
    <3>. QED  BY <3>1
  <2>. QED  BY <1>1, <2>1, <2>2
<1>4. seqs \in [1..N -> Seq(A)] /\ (\A k \in 1..N : seqs[k] = applyOpts(listed[k])) /\ applied = FlattenSeq(seqs)
  <2>1. applied = FlattenSeq(seqs)
    BY <1>1 DEF Applied
  <2>. HIDE DEF N, A
  <2>. QED  BY <1>2, <2>1
<1>. HIDE DEF seqs, A, N, applied
<1>5. \A k \in 1..N : \A p \in DOMAIN seqs[k] : seqs[k][p].http # "none"
  <2>1. \A q \in DOMAIN FlattenSeq(seqs) : FlattenSeq(seqs)[q].http # "none"
    BY <1>4 DEF applied
  <2>. QED  BY <1>1, <1>4, <2>1, FlattenEach, Zenon
<1>6. Mapped(h, FlattenSeq(seqs))
        = FlattenSeq([k \in 1..N |-> GivenBy(svc, meth, listed[k]) \o MoreBy(svc, meth, listed[k])])
  <2>1. NamesGiven(A, N, listed, seqs, svc, meth)
    BY <1>1, <1>3, <1>4, <1>5, NamesMade
  <2>. QED  BY <2>1 DEF NamesGiven
<1>7. Mapped(h, applied) = [n \in DOMAIN applied |-> Name(svc, meth, applied[n])]
  <2>1. (\A n \in DOMAIN applied : applied[n] \in A) /\ \A x \in A : h[x] = Name(svc, meth, x)
    BY <1>2
  <2>. HIDE DEF h
  <2>. QED  BY <2>1 DEF Mapped
<1>. QED  BY <1>1, <1>4, <1>6, <1>7 DEF applied, AllNamed

LEMMA ListedNames ==
  ASSUME req \in Requests, NEW svc, NEW meth, IsDeclared(svc, meth)
  PROVE  LET listed == ListedRules(svc, meth) IN
         FlattenSeq([k \in DOMAIN listed |-> GivenBy(svc, meth, listed[k]) \o MoreBy(svc, meth, listed[k])])
           = DeclaredBy(svc, meth)
<1> DEFINE declared == DeclaredRules(svc, meth)
           listed == ListedRules(svc, meth)
           default == defaultAPIOptions(svc, meth)
           name == <<svc.name, meth.name, "POST", "/" \o svc.name \o "/" \o meth.name>>
<1>1. CASE declared = << >> /\ req.flags.generateUnboundMethods
  <2>1. listed = << default >>
    BY <1>1 DEF ListedRules
  <2>2. default.http = "POST" /\ default.additional = << >> /\ default.tmpl.text = "/" \o svc.name \o "/" \o meth.name
    BY DEF defaultAPIOptions
  <2>3. GivenBy(svc, meth, default) = << name >>
    BY <2>2 DEF GivenBy, Name
  <2>4. MoreBy(svc, meth, default) = << >>
    <3>1. [k \in DOMAIN default.additional |-> GivenBy(svc, meth, default.additional[k])] = << >>
      BY <2>2
    <3>2. FlattenSeq(<< >>) = << >>
      BY DEF FlattenSeq
    <3>. QED  BY <3>1, <3>2 DEF MoreBy
  <2>5. [k \in DOMAIN listed |-> GivenBy(svc, meth, listed[k]) \o MoreBy(svc, meth, listed[k])] = [k \in 1..1 |-> << name >>]
    <3>1. DOMAIN listed = 1..1 /\ \A k \in 1..1 : listed[k] = default
      BY <2>1
    <3>2. << name >> \o << >> = << name >>
      OBVIOUS
    <3>. HIDE DEF listed, default, name
    <3>. QED  BY <2>3, <2>4, <3>1, <3>2
  <2>6. FlattenSeq([k \in 1..1 |-> << name >>]) = << name >>
    <3>1. << name >> \in Seq({name})
      OBVIOUS
    <3>. HIDE DEF name
    <3>. QED  BY <3>1, FlattenOne
  <2>7. DeclaredBy(svc, meth) = << name >>
    BY <1>1 DEF DeclaredBy
  <2>. QED  BY <2>5, <2>6, <2>7
<1>2. CASE ~(declared = << >> /\ req.flags.generateUnboundMethods)
  <2>1. listed = declared
    BY <1>2 DEF ListedRules
  <2>. QED  BY <1>2, <2>1 DEF DeclaredBy, GivenBy, MoreBy, Name
<1>. QED  BY <1>1, <1>2

-----------------------------------------------------------------------------
(* The bindings of loaded services, in their order, and their handlers.    *)

BindItems(svc, meth) == [k \in DOMAIN meth.bindings |-> [svc |-> svc, meth |-> meth, b |-> meth.bindings[k]]]
ItemsOf(svc) == FlattenSeq([m \in DOMAIN svc.methods |-> BindItems(svc, svc.methods[m])])

Named(x) == <<x.svc.name, x.meth.name, x.b.http, x.b.tmpl.text>>
NamesOf(s) == [p \in DOMAIN s |-> Named(s[p])]
KeysOf(s) == [p \in DOMAIN s |-> Key(s[p])]

\* The handlers' names, and their keys, of lists that are flattened.
FlatNames(n, seqs) == NamesOf(FlattenSeq(seqs)) = FlattenSeq([k \in 1..n |-> NamesOf(seqs[k])])
FlatKeys(n, seqs) == KeysOf(FlattenSeq(seqs)) = FlattenSeq([k \in 1..n |-> KeysOf(seqs[k])])

LEMMA NamesFlatten ==
  ASSUME NEW X, NEW n \in Nat, NEW seqs \in [1..n -> Seq(X)]
  PROVE  FlatNames(n, seqs)
<1> DEFINE T == { Named(x) : x \in X }
           h == [x \in X |-> Named(x)]
<1>1. h \in [X -> T] /\ \A x \in X : h[x] = Named(x)
  OBVIOUS
<1>. HIDE DEF h, T
<1>2. MapsFlat(h, n, seqs)
  BY <1>1, MapFlatten
<1>3. ASSUME NEW s \in Seq(X) PROVE Mapped(h, s) = NamesOf(s)
  <2>1. \A p \in DOMAIN s : s[p] \in X
    OBVIOUS
  <2>. QED  BY <1>1, <2>1 DEF Mapped, NamesOf
<1>4. FlattenSeq(seqs) \in Seq(X)
  BY FlattenType
<1>5. [k \in 1..n |-> Mapped(h, seqs[k])] = [k \in 1..n |-> NamesOf(seqs[k])]
  BY <1>3
<1>. QED  BY <1>2, <1>3, <1>4, <1>5 DEF FlatNames, MapsFlat

LEMMA KeysFlatten ==
  ASSUME NEW X, NEW n \in Nat, NEW seqs \in [1..n -> Seq(X)]
  PROVE  FlatKeys(n, seqs)
<1> DEFINE T == { Key(x) : x \in X }
           h == [x \in X |-> Key(x)]
<1>1. h \in [X -> T] /\ \A x \in X : h[x] = Key(x)
  OBVIOUS
<1>. HIDE DEF h, T
<1>2. MapsFlat(h, n, seqs)
  BY <1>1, MapFlatten
<1>3. ASSUME NEW s \in Seq(X) PROVE Mapped(h, s) = KeysOf(s)
  <2>1. \A p \in DOMAIN s : s[p] \in X
    OBVIOUS
  <2>. QED  BY <1>1, <2>1 DEF Mapped, KeysOf
<1>4. FlattenSeq(seqs) \in Seq(X)
  BY FlattenType
<1>5. [k \in 1..n |-> Mapped(h, seqs[k])] = [k \in 1..n |-> KeysOf(seqs[k])]
  BY <1>3
<1>. QED  BY <1>2, <1>3, <1>4, <1>5 DEF FlatKeys, MapsFlat

\* A method has a binding for each rule applied.
LEMMA MethodItems ==
  ASSUME req \in Requests, NEW svc, NEW meth, IsDeclared(svc, meth), NEW l, NEW m, IsMethod(m, svc, meth)
  PROVE  LET n == Len(AppliedRules(svc, meth)) IN
         /\ n \in Nat /\ DOMAIN AppliedRules(svc, meth) = 1..n
         /\ BindItems(l, m) \in Seq(ToSet(BindItems(l, m))) /\ DOMAIN BindItems(l, m) = 1..n
         /\ \A k \in 1..n : /\ BindItems(l, m)[k] = [svc |-> l, meth |-> m, b |-> m.bindings[k]]
                            /\ IsBinding(m.bindings[k], AppliedRules(svc, meth)[k], k)
<1> DEFINE applied == AppliedRules(svc, meth)
           n == Len(applied)
           s == BindItems(l, m)
<1>1. n \in Nat /\ DOMAIN applied = 1..n
  <2>1. ListedRules(svc, meth) \in Seq(RulesFor(svc, meth)) /\ \A r \in RulesFor(svc, meth) : IsList(r.additional)
    BY RulesTyped
  <2>2. PICK A : applied \in Seq(A)
    BY <2>1, AppliedTyped DEF AppliedRules
  <2>. HIDE DEF applied
  <2>. QED  BY <2>2
<1>2. DOMAIN m.bindings = DOMAIN applied /\ \A k \in DOMAIN applied : IsBinding(m.bindings[k], applied[k], k)
  BY DEF IsMethod, AreBindings
<1>. HIDE DEF applied, n
<1>3. s = [k \in 1..n |-> [svc |-> l, meth |-> m, b |-> m.bindings[k]]]
  BY <1>1, <1>2 DEF BindItems
<1>. HIDE DEF s
<1>4. s \in Seq(ToSet(s)) /\ DOMAIN s = 1..n
  <2>1. s = [k \in 1..n |-> s[k]] /\ DOMAIN s = 1..n
    BY <1>3
  <2>2. \A k \in 1..n : s[k] \in ToSet(s)
    BY <2>1 DEF ToSet
  <2>. QED  BY <1>1, <2>1, <2>2, ListOf
<1>5. \A k \in 1..n : s[k] = [svc |-> l, meth |-> m, b |-> m.bindings[k]]
  BY <1>3
<1>. QED  BY <1>1, <1>2, <1>4, <1>5 DEF n, s, applied

\* The handlers of a method, when no rule is without a pattern.
LEMMA MethodNames ==
  ASSUME req \in Requests, NEW svc, NEW meth, IsDeclared(svc, meth), NEW l, NEW m, IsMethod(m, svc, meth),
         l.name = svc.name, \A k \in DOMAIN BindItems(l, m) : BindItems(l, m)[k].b # NoBinding
  PROVE  /\ NamesOf(BindItems(l, m)) = DeclaredBy(svc, meth)
         /\ Apart(KeysOf(BindItems(l, m)))
         /\ \A k \in DOMAIN KeysOf(BindItems(l, m)) :
              KeysOf(BindItems(l, m))[k][1] = svc.name /\ KeysOf(BindItems(l, m))[k][2] = meth.name
<1> DEFINE applied == AppliedRules(svc, meth)
           n == Len(applied)
           s == BindItems(l, m)
<1>1. /\ n \in Nat /\ DOMAIN applied = 1..n /\ DOMAIN s = 1..n
      /\ \A k \in 1..n : /\ s[k] = [svc |-> l, meth |-> m, b |-> m.bindings[k]]
                         /\ IsBinding(m.bindings[k], applied[k], k)
  BY MethodItems
<1>2. m.name = meth.name
  BY DEF IsMethod
<1>. HIDE DEF s, n, applied
<1>3. ASSUME NEW k \in 1..n
      PROVE  /\ applied[k].http # "none"
             /\ Named(s[k]) = Name(svc, meth, applied[k]) /\ Key(s[k]) = <<svc.name, meth.name, k - 1>>
  <2> DEFINE b == m.bindings[k]
             x == s[k]
  <2>1. x.svc = l /\ x.meth = m /\ x.b = b /\ IsBinding(b, applied[k], k)
    BY <1>1
  <2>2. b # NoBinding
    BY <1>1, <2>1 DEF s
  <2>. HIDE DEF b, x
  <2>3. applied[k].http # "none" /\ b.index = k - 1 /\ b.http = applied[k].http /\ b.tmpl = applied[k].tmpl
    BY <2>1, <2>2 DEF IsBinding
  <2>. QED  BY <1>2, <2>1, <2>3 DEF Named, Name, Key, x
<1>4. NamesOf(s) = [k \in DOMAIN applied |-> Name(svc, meth, applied[k])]
  BY <1>1, <1>3 DEF NamesOf
<1>5. [k \in DOMAIN applied |-> Name(svc, meth, applied[k])] = DeclaredBy(svc, meth)
  <2> DEFINE listed == ListedRules(svc, meth)
             R == RulesFor(svc, meth)
  <2>1. listed \in Seq(R) /\ \A r \in R : IsList(r.additional)
    BY RulesTyped
  <2>2. applied = Applied(listed)
    BY DEF AppliedRules, applied
  <2>3. \A k \in DOMAIN Applied(listed) : Applied(listed)[k].http # "none"
    BY <1>1, <1>3, <2>2
  <2>4. FlattenSeq([k \in DOMAIN listed |-> GivenBy(svc, meth, listed[k]) \o MoreBy(svc, meth, listed[k])])
          = DeclaredBy(svc, meth)
    BY ListedNames
  <2>. HIDE DEF listed, R
  <2>5. [k \in DOMAIN applied |-> Name(svc, meth, applied[k])]
          = FlattenSeq([k \in DOMAIN listed |-> GivenBy(svc, meth, listed[k]) \o MoreBy(svc, meth, listed[k])])
    <3>1. AllNamed(svc, meth, listed)
      BY <2>1, <2>3, AppliedNames
    <3>. QED  BY <2>2, <3>1 DEF AllNamed
  <2>. QED  BY <2>4, <2>5
<1>6. DOMAIN KeysOf(s) = 1..n /\ \A k \in 1..n : KeysOf(s)[k] = <<svc.name, meth.name, k - 1>>
  BY <1>1, <1>3 DEF KeysOf
<1>7. Apart(KeysOf(s))
  <2> SUFFICES ASSUME NEW p \in 1..n, NEW q \in 1..n, KeysOf(s)[p] = KeysOf(s)[q] PROVE p = q
    BY <1>6 DEF Apart
  <2>1. p - 1 = q - 1
    BY <1>6
  <2>. QED  BY <1>1, <2>1
<1>. QED  BY <1>4, <1>5, <1>6, <1>7 DEF s

\* The names of the handlers a service declares.
DeclaredIn(svc) == FlattenSeq([m \in DOMAIN svc.methods |-> DeclaredBy(svc, svc.methods[m])])

LEMMA SeqOfOwn == ASSUME NEW X, NEW s \in Seq(X) PROVE s \in Seq(ToSet(s))
<1>1. Len(s) \in Nat /\ s = [k \in 1..Len(s) |-> s[k]] /\ \A k \in 1..Len(s) : s[k] \in ToSet(s)
  BY DEF ToSet
<1>. QED  BY <1>1, ListOf

LEMMA DeclaredListed ==
  ASSUME req \in Requests, NEW f \in DOMAIN req.files
  PROVE  /\ Len(File(f).services) \in Nat /\ DOMAIN File(f).services = 1..Len(File(f).services)
         /\ NamedApart(File(f).services)
         /\ \A svc \in ToSet(File(f).services) :
              /\ Len(svc.methods) \in Nat /\ DOMAIN svc.methods = 1..Len(svc.methods)
              /\ NamedApart(svc.methods)
<1>1. WellFormedFile(File(f))
  BY RequestsAssumption DEF File
<1>2. \A s : IsList(s) => Len(s) \in Nat /\ DOMAIN s = 1..Len(s)
  BY DEF IsList
<1>. QED  BY <1>1, <1>2 DEF WellFormedFile

\* The items of a service's methods, one list after the other.
MethodLists(l, M) == [k \in 1..M |-> BindItems(l, l.methods[k])]
ItemsIn(l, M) == UNION { ToSet(BindItems(l, l.methods[k])) : k \in 1..M }

LEMMA ServiceItems ==
  ASSUME req \in Requests, NEW f \in DOMAIN req.files, NEW svc \in ToSet(File(f).services), NEW l, IsService(l, svc)
  PROVE  LET M == Len(svc.methods) IN
         /\ \A k \in 1..M : IsDeclared(svc, svc.methods[k]) /\ IsMethod(l.methods[k], svc, svc.methods[k])
         /\ MethodLists(l, M) \in [1..M -> Seq(ItemsIn(l, M))]
         /\ ItemsOf(l) = FlattenSeq(MethodLists(l, M)) /\ ItemsOf(l) \in Seq(ItemsIn(l, M))
         /\ \A x \in ItemsIn(l, M) : x.svc = l
<1> DEFINE M == Len(svc.methods)
           X == ItemsIn(l, M)
<1>1. M \in Nat /\ DOMAIN svc.methods = 1..M
  BY DeclaredListed
<1>2. ASSUME NEW k \in 1..M PROVE IsDeclared(svc, svc.methods[k]) /\ IsMethod(l.methods[k], svc, svc.methods[k])
  <2>1. svc.methods[k] \in ToSet(svc.methods)
    BY <1>1 DEF ToSet
  <2>. QED  BY <1>1, <2>1 DEF IsDeclared, IsService
<1>. HIDE DEF M
<1>3. ASSUME NEW k \in 1..M
      PROVE  /\ BindItems(l, l.methods[k]) \in Seq(X)
             /\ \A x \in ToSet(BindItems(l, l.methods[k])) : x.svc = l
  <2> DEFINE m == l.methods[k]
             s == BindItems(l, m)
             n == Len(AppliedRules(svc, svc.methods[k]))
  <2>1. s \in Seq(ToSet(s)) /\ DOMAIN s = 1..n /\ \A j \in 1..n : s[j] = [svc |-> l, meth |-> m, b |-> m.bindings[j]]
    BY <1>2, MethodItems
  <2>. HIDE DEF s, n
  <2>2. ToSet(s) \subseteq X
    BY DEF ItemsIn, s
  <2>3. s \in Seq(X)
    BY <2>1, <2>2
  <2>4. \A x \in ToSet(s) : x.svc = l
    BY <2>1 DEF ToSet
  <2>. QED  BY <2>3, <2>4 DEF s
<1>4. MethodLists(l, M) \in [1..M -> Seq(X)]
  <2>. HIDE DEF X
  <2>. QED  BY <1>3 DEF MethodLists
<1>5. ItemsOf(l) = FlattenSeq(MethodLists(l, M))
  <2>1. DOMAIN l.methods = 1..M
    BY <1>1 DEF IsService
  <2>. QED  BY <2>1 DEF ItemsOf, MethodLists
<1>6. ItemsOf(l) \in Seq(X)
  <2>. HIDE DEF X
  <2>. QED  BY <1>1, <1>4, <1>5, FlattenType
<1>7. \A x \in X : x.svc = l
  BY <1>3 DEF ItemsIn
<1>. QED  BY <1>2, <1>4, <1>5, <1>6, <1>7 DEF M

\* The handlers of a service, when none of its bindings is none.
LEMMA ServiceNames ==
  ASSUME req \in Requests, NEW f \in DOMAIN req.files, NEW svc \in ToSet(File(f).services), NEW l, IsService(l, svc),
         \A p \in DOMAIN ItemsOf(l) : ItemsOf(l)[p].b # NoBinding
  PROVE  /\ NamesOf(ItemsOf(l)) = DeclaredIn(svc) /\ Apart(KeysOf(ItemsOf(l)))
         /\ \A p \in DOMAIN KeysOf(ItemsOf(l)) : KeysOf(ItemsOf(l))[p][1] = svc.name
<1> DEFINE M == Len(svc.methods)
           X == ItemsIn(l, M)
           seqs == MethodLists(l, M)
           T == { Key(x) : x \in X }
           keys == [k \in 1..M |-> KeysOf(seqs[k])]
           P == [k \in 1..M |-> { t \in T : t[2] = svc.methods[k].name }]
<1>1. M \in Nat /\ DOMAIN svc.methods = 1..M /\ NamedApart(svc.methods) /\ l.name = svc.name
  BY DeclaredListed DEF IsService
<1>2. \A k \in 1..M : IsDeclared(svc, svc.methods[k]) /\ IsMethod(l.methods[k], svc, svc.methods[k])
  BY ServiceItems
<1>3. /\ seqs \in [1..M -> Seq(X)] /\ ItemsOf(l) = FlattenSeq(seqs) /\ ItemsOf(l) \in Seq(X)
      /\ \A x \in X : x.svc = l
  BY ServiceItems
<1>4. \A k \in 1..M : seqs[k] = BindItems(l, l.methods[k])
  BY DEF MethodLists
<1>. HIDE DEF M, X, seqs
<1>5. ASSUME NEW k \in 1..M
      PROVE  /\ NamesOf(seqs[k]) = DeclaredBy(svc, svc.methods[k]) /\ Apart(KeysOf(seqs[k]))
             /\ \A p \in DOMAIN KeysOf(seqs[k]) : KeysOf(seqs[k])[p][2] = svc.methods[k].name
  <2>1. ASSUME NEW p \in DOMAIN seqs[k] PROVE seqs[k][p].b # NoBinding
    <3>1. \A j \in 1..M : \A q \in DOMAIN seqs[j] : Occurs(seqs[j][q], FlattenSeq(seqs))
      BY <1>1, <1>3, FlattenAll
    <3>2. Occurs(seqs[k][p], ItemsOf(l))
      BY <1>3, <3>1
    <3>. QED  BY <3>2 DEF Occurs
  <2>. QED  BY <1>1, <1>2, <1>4, <2>1, MethodNames
<1>6. NamesOf(ItemsOf(l)) = DeclaredIn(svc)
  <2>1. FlatNames(M, seqs)
    BY <1>1, <1>3, NamesFlatten
  <2>2. [k \in 1..M |-> NamesOf(seqs[k])] = [k \in DOMAIN svc.methods |-> DeclaredBy(svc, svc.methods[k])]
    BY <1>1, <1>5
  <2>. QED  BY <1>3, <2>1, <2>2 DEF FlatNames, DeclaredIn
<1>7. ASSUME NEW s \in Seq(X) PROVE KeysOf(s) \in Seq(T) /\ \A p \in DOMAIN KeysOf(s) : KeysOf(s)[p][1] = svc.name
  <2>1. Len(s) \in Nat /\ KeysOf(s) = [p \in 1..Len(s) |-> Key(s[p])] /\ \A p \in 1..Len(s) : s[p] \in X
    BY DEF KeysOf
  <2>2. \A p \in 1..Len(s) : KeysOf(s)[p] \in T /\ KeysOf(s)[p][1] = svc.name
    BY <1>1, <1>3, <2>1 DEF Key
  <2>. HIDE DEF T
  <2>3. KeysOf(s) = [p \in 1..Len(s) |-> KeysOf(s)[p]]
    BY <2>1
  <2>. QED  BY <2>1, <2>2, <2>3, ListOf
<1>8. Apart(FlattenSeq(keys))
  <2>1. P \in [1..M -> SUBSET T] /\ \A k \in 1..M : P[k] = { t \in T : t[2] = svc.methods[k].name }
    OBVIOUS
  <2>. HIDE DEF P, T
  <2>2. keys \in [1..M -> Seq(T)] /\ \A k \in 1..M : keys[k] = KeysOf(seqs[k])
    BY <1>3, <1>7
  <2>. HIDE DEF keys
  <2>3. ASSUME NEW k \in 1..M PROVE Apart(keys[k]) /\ \A p \in DOMAIN keys[k] : keys[k][p] \in P[k]
    <3>1. keys[k] = KeysOf(seqs[k]) /\ keys[k] \in Seq(T) /\ P[k] = { t \in T : t[2] = svc.methods[k].name }
      BY <2>1, <2>2
    <3>2. Apart(keys[k]) /\ \A p \in DOMAIN keys[k] : keys[k][p][2] = svc.methods[k].name
      BY <1>5, <3>1
    <3>3. \A p \in DOMAIN keys[k] : keys[k][p] \in T
      BY <3>1
    <3>. QED  BY <3>1, <3>2, <3>3
  <2>4. \A j, k \in 1..M : j # k => P[j] \cap P[k] = {}
    BY <1>1, <2>1 DEF NamedApart
  <2>5. AllApart(M, P, keys)
    BY <2>3, <2>4 DEF AllApart
  <2>. QED  BY <1>1, <2>2, <2>5, FlattenApart
<1>9. KeysOf(ItemsOf(l)) = FlattenSeq(keys)
  <2>1. FlatKeys(M, seqs)
    BY <1>1, <1>3, KeysFlatten
  <2>. QED  BY <1>3, <2>1 DEF FlatKeys
<1>. QED  BY <1>3, <1>6, <1>7, <1>8, <1>9

\* The handlers of a file, when none of its bindings is none.
LEMMA FileNames ==
  ASSUME req \in Requests, NEW f \in DOMAIN req.files, NEW svcs, AreServices(svcs, File(f).services),
         \A x \in ToSet(Ordered(svcs)) : x.b # NoBinding
  PROVE  /\ NamesOf(Ordered(svcs)) = DeclaredHandlers(f) /\ Apart(KeysOf(Ordered(svcs)))
         /\ DOMAIN Ordered(svcs) \subseteq Nat
<1> DEFINE declared == File(f).services
           N == Len(declared)
<1>1. N \in Nat /\ DOMAIN declared = 1..N /\ NamedApart(declared) /\ \A k \in 1..N : declared[k] \in ToSet(declared)
  BY DeclaredListed DEF ToSet
<1>2. PICK L : /\ DOMAIN L = DOMAIN declared
               /\ \A k \in DOMAIN declared : IsService(L[k], declared[k])
               /\ svcs = FlattenSeq([k \in DOMAIN declared |-> IF declared[k].methods = << >> THEN << >> ELSE << L[k] >>])
  BY DEF AreServices
<1> DEFINE S == { L[k] : k \in 1..N }
           X == UNION { ItemsIn(L[k], Len(declared[k].methods)) : k \in 1..N }
           h == [l \in S |-> ItemsOf(l)]
           kept == [k \in 1..N |-> IF declared[k].methods = << >> THEN << >> ELSE << L[k] >>]
           list == [k \in 1..N |-> L[k]]
           seqs == [k \in 1..N |-> ItemsOf(L[k])]
           keys == [k \in 1..N |-> KeysOf(seqs[k])]
<1>3. svcs = FlattenSeq(kept)
  BY <1>1, <1>2
<1>4. ASSUME NEW k \in 1..N PROVE L[k] \in S /\ IsService(L[k], declared[k]) /\ ItemsOf(L[k]) \in Seq(X)
  <2>1. IsService(L[k], declared[k])
    BY <1>1, <1>2
  <2>2. ItemsOf(L[k]) \in Seq(ItemsIn(L[k], Len(declared[k].methods)))
    BY <1>1, <2>1, ServiceItems
  <2>3. ItemsIn(L[k], Len(declared[k].methods)) \subseteq X
    OBVIOUS
  <2>. HIDE DEF X
  <2>4. ItemsOf(L[k]) \in Seq(X)
    BY <2>2, <2>3
  <2>. QED  BY <2>1, <2>4
<1>5. h \in [S -> Seq(X)] /\ \A l \in S : h[l] = ItemsOf(l)
  <2>1. \A l \in S : ItemsOf(l) \in Seq(X)
    <3>. HIDE DEF X
    <3>. QED  BY <1>4
  <2>. HIDE DEF X, S
  <2>. QED  BY <2>1
<1>6. ASSUME NEW k \in 1..N, declared[k].methods = << >> PROVE ItemsOf(L[k]) = << >>
  <2>1. Len(declared[k].methods) = 0
    BY <1>6
  <2>2. /\ MethodLists(L[k], 0) \in [1..0 -> Seq(ItemsIn(L[k], 0))]
        /\ ItemsOf(L[k]) = FlattenSeq(MethodLists(L[k], 0))
    BY <1>1, <1>4, <2>1, ServiceItems
  <2>. QED  BY <2>2, FlattenNone
<1>7. Ordered(svcs) = FlattenSeq(seqs)
  <2>1. list \in [1..N -> S] /\ (\A k \in 1..N : list[k] = L[k])
    <3>. HIDE DEF S, N
    <3>. QED  BY <1>4
  <2>2. kept \in [1..N -> Seq(S)] /\ \A k \in 1..N : kept[k] = IF declared[k].methods = << >> THEN << >> ELSE << L[k] >>
    <3>. HIDE DEF S, N, declared
    <3>1. ASSUME NEW k \in 1..N PROVE kept[k] \in Seq(S)
      <4> DEFINE l == L[k]
      <4>1. l \in S
        BY <1>4
      <4>. HIDE DEF l
      <4>2. << >> \in Seq(S) /\ << l >> \in Seq(S)
        BY <4>1
      <4>. QED  BY <4>2 DEF l
    <3>. QED  BY <3>1
  <2>. HIDE DEF S, X, h, N, kept, list, declared
  <2>3. ASSUME NEW k \in 1..N PROVE kept[k] = << list[k] >> \/ (kept[k] = << >> /\ h[list[k]] = << >>)
    BY <1>4, <1>5, <1>6, <2>1, <2>2
  <2>4. KeptFlat(h, N, list, kept)
    BY <1>1, <1>5, <2>1, <2>2, <2>3, FlattenKept
  <2>5. svcs \in Seq(S)
    BY <1>1, <1>3, <2>2, FlattenType
  <2>6. Mapped(h, svcs) = [s \in DOMAIN svcs |-> ItemsOf(svcs[s])]
    <3>1. \A s \in DOMAIN svcs : svcs[s] \in S
      BY <2>5
    <3>. QED  BY <1>5, <3>1 DEF Mapped
  <2>7. Ordered(svcs) = FlattenSeq(Mapped(h, svcs))
    BY <2>6 DEF Ordered, ItemsOf, BindItems
  <2>8. [k \in 1..N |-> h[list[k]]] = seqs
    BY <1>4, <1>5, <2>1
  <2>. QED  BY <1>3, <2>4, <2>7, <2>8 DEF KeptFlat
<1>8. seqs \in [1..N -> Seq(X)] /\ \A k \in 1..N : seqs[k] = ItemsOf(L[k])
  <2>. HIDE DEF X, N
  <2>. QED  BY <1>4
<1>. HIDE DEF S, X, h, N, kept, list, declared, seqs
<1>9. ASSUME NEW k \in 1..N
      PROVE  /\ NamesOf(seqs[k]) = DeclaredIn(declared[k]) /\ Apart(KeysOf(seqs[k]))
             /\ \A p \in DOMAIN KeysOf(seqs[k]) : KeysOf(seqs[k])[p][1] = declared[k].name
  <2>1. ASSUME NEW p \in DOMAIN seqs[k] PROVE seqs[k][p].b # NoBinding
    <3>1. \A j \in 1..N : \A q \in DOMAIN seqs[j] : Occurs(seqs[j][q], FlattenSeq(seqs))
      BY <1>1, <1>8, FlattenAll
    <3>2. Occurs(seqs[k][p], Ordered(svcs))
      BY <1>7, <3>1
    <3>. QED  BY <3>2 DEF Occurs, ToSet
  <2>2. declared[k] \in ToSet(File(f).services) /\ IsService(L[k], declared[k])
    BY <1>1, <1>4 DEF declared
  <2>. QED  BY <1>8, <2>1, <2>2, ServiceNames
<1>10. NamesOf(Ordered(svcs)) = DeclaredHandlers(f)
  <2>1. FlatNames(N, seqs)
    BY <1>1, <1>8, NamesFlatten
  <2>2. [k \in 1..N |-> NamesOf(seqs[k])] = [k \in DOMAIN declared |-> DeclaredIn(declared[k])]
    BY <1>1, <1>9
  <2>3. DeclaredHandlers(f) = FlattenSeq([k \in DOMAIN declared |-> DeclaredIn(declared[k])])
    BY DEF DeclaredHandlers, DeclaredIn, declared
  <2>. QED  BY <1>7, <2>1, <2>2, <2>3 DEF FlatNames
<1>11. Apart(KeysOf(Ordered(svcs)))
  <2> DEFINE T == { Key(x) : x \in X }
             P == [k \in 1..N |-> { t \in T : t[1] = declared[k].name }]
  <2>1. \A k \in 1..N : P[k] = { t \in T : t[1] = declared[k].name }
    OBVIOUS
  <2>2. ASSUME NEW s \in Seq(X) PROVE KeysOf(s) \in Seq(T)
    <3>1. Len(s) \in Nat /\ KeysOf(s) = [p \in 1..Len(s) |-> Key(s[p])] /\ \A p \in 1..Len(s) : s[p] \in X
      BY DEF KeysOf
    <3>2. \A p \in 1..Len(s) : KeysOf(s)[p] \in T
      BY <3>1
    <3>. HIDE DEF T
    <3>3. KeysOf(s) = [p \in 1..Len(s) |-> KeysOf(s)[p]]
      BY <3>1
    <3>. QED  BY <3>1, <3>2, <3>3, ListOf
  <2>. HIDE DEF P, T
  <2>3. keys \in [1..N -> Seq(T)] /\ \A k \in 1..N : keys[k] = KeysOf(seqs[k])
    BY <1>8, <2>2
  <2>. HIDE DEF keys
  <2>4. ASSUME NEW k \in 1..N PROVE Apart(keys[k]) /\ \A p \in DOMAIN keys[k] : keys[k][p] \in P[k]
    <3>1. keys[k] = KeysOf(seqs[k]) /\ keys[k] \in Seq(T) /\ P[k] = { t \in T : t[1] = declared[k].name }
      BY <2>1, <2>3
    <3>2. Apart(keys[k]) /\ \A p \in DOMAIN keys[k] : keys[k][p][1] = declared[k].name
      BY <1>9, <3>1
    <3>3. \A p \in DOMAIN keys[k] : keys[k][p] \in T
      BY <3>1
    <3>. QED  BY <3>1, <3>2, <3>3
  <2>5. \A j, k \in 1..N : j # k => P[j] \cap P[k] = {}
    BY <1>1, <2>1 DEF NamedApart
  <2>6. AllApart(N, P, keys)
    BY <2>4, <2>5 DEF AllApart
  <2>7. Apart(FlattenSeq(keys))
    BY <1>1, <2>3, <2>6, FlattenApart
  <2>8. FlatKeys(N, seqs)
    BY <1>1, <1>8, KeysFlatten
  <2>. QED  BY <1>7, <2>7, <2>8 DEF FlatKeys, keys
<1>12. DOMAIN Ordered(svcs) \subseteq Nat
  <2>1. FlattenSeq(seqs) \in Seq(X)
    BY <1>1, <1>8, FlattenType
  <2>2. \A s \in Seq(X) : DOMAIN s \subseteq Nat
    OBVIOUS
  <2>. QED  BY <1>7, <2>1, <2>2
<1>. QED  BY <1>10, <1>11, <1>12

-----------------------------------------------------------------------------
(* The code that is generated has a handler for each binding.              *)

\* The code of a file, as its handlers show it.
HasHandlers(f, c) ==
  LET s == Ordered(services[f])
  IN  /\ \A x \in ToSet(s) : x.b # NoBinding
      /\ \A p, q \in DOMAIN s : p < q => Annotation(s[p]) # Annotation(s[q])
      /\ c.client = [k \in DOMAIN s |-> ClientHandler(s[k])]

\* What is generated so far: unless something failed, every file that was
\* visited has code, or has no binding.
ClientsInv ==
  /\ generated \in Nat /\ (generated > 0 => phase = "loaded")
  /\ gen = "done" => generated = Len(req.generate)
  /\ gen \in {"running", "done"} =>
       \A n \in 1..generated : LET f == req.generate[n] IN Ordered(services[f]) = << >> \/ f \in DOMAIN code
  /\ \A f \in DOMAIN code : phase = "loaded" /\ HasHandlers(f, code[f])

\* The ways a target's generation ends.
Ends(f) ==
  LET s == Ordered(services[f])
  IN  \/ gen' = "panicked" /\ UNCHANGED <<generated, code>>
      \/ gen' = "failed" /\ generated' = generated + 1 /\ code' = << >>
      \/ /\ generated' = generated + 1
         /\ gen' = IF generated' = Len(req.generate) THEN "done" ELSE gen
         /\ s = << >> /\ code' = code
      \/ /\ generated' = generated + 1
         /\ gen' = IF generated' = Len(req.generate) THEN "done" ELSE gen
         /\ \E c : HasHandlers(f, c) /\ code' = [g \in DOMAIN code \cup {f} |-> IF g = f THEN c ELSE code[g]]

LEMMA CodeClient ==
  ASSUME NEW f, NEW d, NEW v
  PROVE  CodeOf(f, d, v).client
           = [k \in DOMAIN Ordered(services[f]) |-> ClientHandler(Ordered(services[f])[k])]
BY DEF CodeOf

LEMMA GenerateEnds ==
  ASSUME NEW f, Generate(f)
  PROVE  /\ phase = "loaded" /\ gen = "running" /\ f = req.generate[generated + 1]
         /\ UNCHANGED descriptorVars /\ Ends(f)
<1> DEFINE s == Ordered(services[f])
           asked == Ask(Asked(f).inputs \o Asked(f).messages \o Asked(f).handlers, checked)
           from == 1 + Len(Asked(f).inputs)
           to == from + Len(Asked(f).messages)
           defined == { Asked(f).messages[k] : k \in { j \in DOMAIN Asked(f).messages : asked[from + j].has } }
           validated == { Asked(f).handlers[k] : k \in { j \in DOMAIN Asked(f).handlers : asked[to + j].has } }
           c == CodeOf(f, defined, validated)
           more == [g \in DOMAIN code \cup {f} |-> IF g = f THEN c ELSE code[g]]
           next == IF generated' = Len(req.generate) THEN "done" ELSE gen
<1>1. /\ phase = "loaded" /\ gen = "running" /\ f = req.generate[generated + 1]
      /\ UNCHANGED descriptorVars
  BY DEF Generate
<1>2. \/ gen' = "panicked" /\ generated' = generated /\ code' = code
      \/ generated' = generated + 1 /\ gen' = "failed" /\ code' = << >>
      \/ /\ generated' = generated + 1 /\ \A x \in ToSet(s) : x.b # NoBinding
         /\ ~Duplicated(s) /\ gen' = next /\ code' = (IF s = << >> THEN code ELSE more)
  BY Zenon DEF Generate
<1>3. c.client = [k \in DOMAIN s |-> ClientHandler(s[k])]
  <2>. HIDE DEF defined, validated
  <2>. QED  BY CodeClient
<1>. HIDE DEF s, c
<1>4. ASSUME \A x \in ToSet(s) : x.b # NoBinding, ~Duplicated(s)
      PROVE  HasHandlers(f, c)
  <2>1. \A p, q \in DOMAIN s : p < q => Annotation(s[p]) # Annotation(s[q])
    BY <1>4 DEF Duplicated
  <2>. QED  BY <1>3, <1>4, <2>1 DEF HasHandlers, s
<1>5. CASE gen' = "panicked" /\ generated' = generated /\ code' = code
  BY <1>1, <1>5 DEF Ends
<1>6. CASE generated' = generated + 1 /\ gen' = "failed" /\ code' = << >>
  BY <1>1, <1>6 DEF Ends
<1>7. CASE /\ generated' = generated + 1 /\ \A x \in ToSet(s) : x.b # NoBinding
           /\ ~Duplicated(s) /\ gen' = next /\ code' = (IF s = << >> THEN code ELSE more)
  <2>1. CASE s = << >>
    BY <1>1, <1>7, <2>1 DEF Ends, s
  <2>2. CASE s # << >>
    <3>1. HasHandlers(f, c) /\ code' = more
      BY <1>4, <1>7, <2>2
    <3>. QED  BY <1>1, <1>7, <3>1 DEF Ends
  <2>. QED  BY <2>1, <2>2
<1>. QED  BY <1>2, <1>5, <1>6, <1>7

LEMMA ClientsStep ==
  ASSUME ClientsInv, [GeneratorNext]_<<descriptorVars, generatorVars>>
  PROVE  ClientsInv'
<1>1. ASSUME UNCHANGED <<descriptorVars, generatorVars>>
      PROVE  ClientsInv'
  <2>1. UNCHANGED <<req, phase, services, generated, gen, code>>
    BY <1>1 DEF descriptorVars, generatorVars
  <2>. QED  BY <2>1 DEF ClientsInv, HasHandlers
<1>2. CASE Load /\ UNCHANGED generatorVars
  <2>1. phase # "loaded" /\ UNCHANGED req
    BY <1>2 DEF Load, AddExternalHTTPRule, New, LoadFile, LoadServices, CheckUnbound
  <2>2. UNCHANGED <<generated, gen, code>>
    BY <1>2 DEF generatorVars
  <2>3. generated = 0 /\ DOMAIN code = {}
    BY <2>1 DEF ClientsInv
  <2>. QED  BY <2>1, <2>2, <2>3 DEF ClientsInv
<1>3. ASSUME NEW f \in ToGenerate, Generate(f)
      PROVE  ClientsInv'
  <2>1. /\ phase = "loaded" /\ gen = "running" /\ f = req.generate[generated + 1]
        /\ UNCHANGED descriptorVars /\ Ends(f)
    BY <1>3, GenerateEnds
  <2>2. UNCHANGED <<req, phase, services>>
    BY <2>1 DEF descriptorVars
  <2>3. \A g, c : HasHandlers(g, c)' <=> HasHandlers(g, c)
    BY <2>2 DEF HasHandlers
  <2>4. /\ generated \in Nat
        /\ \A n \in 1..generated : Ordered(services[req.generate[n]]) = << >> \/ req.generate[n] \in DOMAIN code
        /\ \A g \in DOMAIN code : HasHandlers(g, code[g])
    BY <2>1 DEF ClientsInv
  <2>5. CASE gen' = "panicked" /\ UNCHANGED <<generated, code>>
    <3>1. (\A g \in DOMAIN code : HasHandlers(g, code[g]))'
      BY <2>3, <2>4, <2>5
    <3>. QED  BY <2>1, <2>2, <2>4, <2>5, <3>1 DEF ClientsInv
  <2>6. CASE gen' = "failed" /\ generated' = generated + 1 /\ code' = << >>
    BY <2>1, <2>2, <2>4, <2>6 DEF ClientsInv
  <2>7. ASSUME generated' = generated + 1, gen' = IF generated' = Len(req.generate) THEN "done" ELSE gen,
               DOMAIN code \subseteq DOMAIN code', Ordered(services[f]) = << >> \/ f \in DOMAIN code',
               \A g \in DOMAIN code' : HasHandlers(g, code'[g])
        PROVE  ClientsInv'
    <3>1. \A n \in 1..(generated + 1) : n \in 1..generated \/ n = generated + 1
      BY <2>4
    <3>2. \A n \in 1..generated' : Ordered(services[req.generate[n]]) = << >> \/ req.generate[n] \in DOMAIN code'
      BY <2>1, <2>4, <2>7, <3>1
    <3>3. generated' \in Nat /\ (gen' = "done" => generated' = Len(req.generate))
      BY <2>1, <2>4, <2>7
    <3>4. (\A g \in DOMAIN code : HasHandlers(g, code[g]))'
      BY <2>3, <2>7
    <3>. QED  BY <2>1, <2>2, <3>2, <3>3, <3>4 DEF ClientsInv
  <2>8. CASE /\ generated' = generated + 1 /\ gen' = IF generated' = Len(req.generate) THEN "done" ELSE gen
             /\ Ordered(services[f]) = << >> /\ code' = code
    BY <2>4, <2>7, <2>8
  <2>9. ASSUME generated' = generated + 1, gen' = IF generated' = Len(req.generate) THEN "done" ELSE gen,
               NEW c, HasHandlers(f, c),
               code' = [g \in DOMAIN code \cup {f} |-> IF g = f THEN c ELSE code[g]]
        PROVE  ClientsInv'
    <3>1. DOMAIN code' = DOMAIN code \cup {f} /\ \A g \in DOMAIN code' : HasHandlers(g, code'[g])
      BY <2>4, <2>9
    <3>. QED  BY <2>7, <2>9, <3>1
  <2>. QED  BY <2>1, <2>5, <2>6, <2>8, <2>9 DEF Ends
<1>. QED  BY <1>1, <1>2, <1>3 DEF GeneratorNext

LEMMA ClientsServe ==
  ASSUME RulesInv, ServicesInv, ClientsInv
  PROVE  ServesDeclared
<1> SUFFICES ASSUME gen = "done", NEW f \in ToGenerate
             PROVE  LET clients == IF f \in DOMAIN code THEN code[f].client ELSE << >>
                        name(h) == <<h.key[1], h.key[2], h.http, h.path>>
                    IN  /\ [k \in DOMAIN clients |-> name(clients[k])] = DeclaredHandlers(f)
                        /\ \A p, q \in DOMAIN clients : p # q =>
                             /\ clients[p].key # clients[q].key
                             /\ <<clients[p].key[1], clients[p].http, clients[p].path>>
                                  # <<clients[q].key[1], clients[q].http, clients[q].path>>
  BY Zenon DEF ServesDeclared
<1> DEFINE s == Ordered(services[f])
           clients == IF f \in DOMAIN code THEN code[f].client ELSE << >>
           name(h) == <<h.key[1], h.key[2], h.http, h.path>>
<1>1. PICK n \in 1..generated : f = req.generate[n]
  <2>1. IsList(req.generate)
    BY RequestsAssumption DEF RulesInv
  <2>2. \E n \in DOMAIN req.generate : f = req.generate[n]
    BY DEF ToGenerate, ToSet
  <2>. QED  BY <2>1, <2>2 DEF IsList, ClientsInv
<1>2. phase = "loaded" /\ (s = << >> \/ f \in DOMAIN code)
  BY <1>1 DEF ClientsInv
<1>3. f \in DOMAIN req.files /\ AreServices(services[f], File(f).services)
  BY <1>2 DEF ServicesInv
<1>4. /\ \A x \in ToSet(s) : x.b # NoBinding
      /\ \A p, q \in DOMAIN s : p < q => Annotation(s[p]) # Annotation(s[q])
      /\ clients = [k \in DOMAIN s |-> ClientHandler(s[k])]
  <2>1. CASE f \in DOMAIN code
    BY <2>1 DEF ClientsInv, HasHandlers
  <2>2. CASE f \notin DOMAIN code
    <3>1. s = << >> /\ clients = << >>
      BY <1>2, <2>2
    <3>. HIDE DEF s, clients
    <3>. QED  BY <3>1 DEF ToSet
  <2>. QED  BY <2>1, <2>2
<1>5. NamesOf(s) = DeclaredHandlers(f) /\ Apart(KeysOf(s)) /\ DOMAIN s \subseteq Nat
  BY <1>3, <1>4, FileNames DEF RulesInv
<1>. HIDE DEF s, clients
<1>6. ASSUME NEW k \in DOMAIN s
      PROVE  /\ name(clients[k]) = Named(s[k]) /\ clients[k].key = KeysOf(s)[k]
             /\ <<clients[k].key[1], clients[k].http, clients[k].path>>
                  = <<s[k].svc.name, s[k].b.http, s[k].b.tmpl.text>>
  <2>1. clients[k] = ClientHandler(s[k])
    BY <1>4
  <2>. QED  BY <2>1 DEF ClientHandler, Key, Named, KeysOf
<1>7. DOMAIN clients = DOMAIN s
  BY <1>4
<1>8. [k \in DOMAIN clients |-> name(clients[k])] = DeclaredHandlers(f)
  <2>. HIDE DEF name
  <2>. QED  BY <1>5, <1>6, <1>7 DEF NamesOf
<1>9. ASSUME NEW p \in DOMAIN s, NEW q \in DOMAIN s, p # q
      PROVE  /\ clients[p].key # clients[q].key
             /\ <<clients[p].key[1], clients[p].http, clients[p].path>>
                  # <<clients[q].key[1], clients[q].http, clients[q].path>>
  <2>1. p < q \/ q < p
    BY <1>5, <1>9
  <2>2. KeysOf(s)[p] # KeysOf(s)[q]
    <3>1. DOMAIN KeysOf(s) = DOMAIN s
      BY DEF KeysOf
    <3>. QED  BY <1>5, <1>9, <3>1 DEF Apart
  <2>3. Annotation(s[p]) # Annotation(s[q])
    BY <1>4, <2>1
  <2>4. <<s[p].svc.name, s[p].b.http, s[p].b.tmpl.text>> # <<s[q].svc.name, s[q].b.http, s[q].b.tmpl.text>>
    BY <2>3 DEF Annotation
  <2>. QED  BY <1>6, <2>2, <2>4
<1>. QED  BY <1>7, <1>8, <1>9, Zenon DEF clients, name

\* A run of the plug-in that succeeds generates a handler for every rule that
\* is declared, configured rules before the annotation and each with its
\* additional ones, in order, and none that another of its service would hide.
THEOREM ServesAsDeclared == GeneratorSpec => []ServesDeclared
<1>1. DescriptorsInit => RulesInv /\ ServicesInv
  <2>1. DescriptorsInit => ServicesInv
    BY DEF DescriptorsInit, ServicesInv
  <2>. QED  BY <2>1, RulesInit
<1>2. RulesInv /\ ServicesInv /\ [Load]_descriptorVars => RulesInv' /\ ServicesInv'
  BY RulesStep, ServicesStep
<1>3. LoadSpec => [](RulesInv /\ ServicesInv)
  BY <1>1, <1>2, PTL DEF LoadSpec
<1>4. GeneratorInit => ClientsInv
  BY DEF GeneratorInit, ClientsInv
<1>5. ClientsInv /\ [GeneratorNext]_<<descriptorVars, generatorVars>> => ClientsInv'
  BY ClientsStep
<1>6. GeneratorSpec => []ClientsInv
  BY <1>4, <1>5, PTL DEF GeneratorSpec
<1>7. RulesInv /\ ServicesInv /\ ClientsInv => ServesDeclared
  BY ClientsServe
<1>. QED  BY <1>3, <1>6, <1>7, GeneratorLoads, PTL
=============================================================================
