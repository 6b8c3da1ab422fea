------------------------ MODULE RequestHandler_proof ------------------------
(***************************************************************************)
(* What RequestHandler's invariants rest on: where a request's goroutine   *)
(* is determines what it has done and holds.  The proofs hold for every    *)
(* set of requests, bindings, connections and deployments.                 *)
(***************************************************************************)
EXTENDS RequestHandler, SequenceTheorems, TLAPS

Names == {"Received", "Accepted", "Parsed", "Handled"}
R == << "Received" >>
RA == << "Received", "Accepted" >>
RAP == << "Received", "Accepted", "Parsed" >>
RAH == << "Received", "Accepted", "Handled" >>
RAPH == << "Received", "Accepted", "Parsed", "Handled" >>
Traces == { << >>, R, RA, RAP, RAH, RAPH }

BeforeRoute == {"idle", "dispatch", "form", "load"}
BeforeCall == BeforeRoute \cup {"accept", "derive", "annotate", "read", "parse", "call"}
Guarded == {"derive", "annotate", "read", "parse", "call", "await", "handle"}
Parsing == {"parse", "call", "await", "handle"}
Deferred == {"annotate", "read", "parse", "call", "await", "handle"}

\* The callbacks made of request r.
HooksInv(r) ==
  /\ hooks[r] \in Traces
  /\ ~HookSet => hooks[r] = << >>
  /\ HookSet =>
       /\ pc[r] = "idle" => hooks[r] = << >>
       /\ pc[r] \in {"dispatch", "form", "load", "accept"} => hooks[r] = R
       /\ pc[r] \in {"derive", "annotate", "read", "parse"} => hooks[r] = RA
       /\ pc[r] \in {"call", "await", "handle"} => hooks[r] = RAP
       /\ pc[r] \in {"reply", "answered"} => hooks[r] \in {R, RA, RAH, RAPH}
       /\ pc[r] = "panicked" => hooks[r] \in {RA, RAP}
       /\ pc[r] \in {"reply", "answered"} /\ rpc[r] # "none" => hooks[r] = RAPH

\* The call made for request r, its outcome and its answer.
CallInv(r) ==
  /\ pc[r] \in BeforeCall \cup {"panicked"} => rpc[r] = "none"
  /\ pc[r] = "await" <=> rpc[r] = "sent"
  /\ pc[r] = "handle" => rpc[r] # "none" /\ (~failed[r] => rpc[r] = "ok")
  /\ pc[r] \in {"reply", "answered"} /\ ~failed[r] => rpc[r] = "ok"
  /\ answers[r] = IF pc[r] = "answered" THEN 1 ELSE 0

\* What request r holds, and what its call was checked for.
HeldInv(r) ==
  /\ pc[r] \in BeforeRoute \cup {"accept", "derive"} => cancel[r] = "none"
  /\ pc[r] \in Deferred => cancel[r] = "pending"
  /\ pc[r] \in Closed => cancel[r] # "pending"
  /\ pc[r] \in Guarded \cup {"accept"} => client[r].tab = 1
  /\ pc[r] \in Guarded /\ HookSet => binding[r].listed
  /\ pc[r] \in Deferred => ctx[r].parent # "none"
  /\ pc[r] \in Parsing /\ binding[r].body => body[r].at = "read"
  /\ rpc[r] # "none" =>
       /\ client[r].tab = 1 /\ client[r].data # 0
       /\ ctx[r].parent # "none"
       /\ binding[r].body => body[r].at = "read"
       /\ HookSet => binding[r].listed

RInv(r) == HooksInv(r) /\ CallInv(r) /\ HeldInv(r)

IInv == TypeOK /\ \A r \in Req : RInv(r)

-----------------------------------------------------------------------------
\* The traces a callback can extend.
LEMMA Extensions ==
  /\ Append(<< >>, "Received") = R
  /\ Append(R, "Accepted") = RA
  /\ Append(RA, "Parsed") = RAP
  /\ Append(RA, "Handled") = RAH
  /\ Append(RAP, "Handled") = RAPH
<1>1. << >> \in Seq(Names) /\ R \in Seq(Names) /\ RA \in Seq(Names)
      /\ RAP \in Seq(Names) /\ RAH \in Seq(Names) /\ RAPH \in Seq(Names)
  <2>1. {"Received", "Accepted", "Parsed", "Handled"} = Names
    BY DEF Names
  <2>2. << >> \in Seq(Names) /\ R \in Seq(Names) /\ RA \in Seq(Names)
    BY <2>1 DEF Names, R, RA
  <2>3. RAP \in Seq(Names) /\ RAH \in Seq(Names)
    BY <2>1 DEF Names, RAP, RAH
  <2>4. RAPH \in Seq(Names)
    BY <2>1 DEF Names, RAPH
  <2>. QED  BY <2>2, <2>3, <2>4
<1>2. Append(<< >>, "Received") = R
  BY DEF R
<1>3. Append(R, "Accepted") = RA
  <2>1. Len(Append(R, "Accepted")) = Len(RA) /\ Append(R, "Accepted") \in Seq(Names)
    BY <1>1 DEF R, RA
  <2>2. \A k \in 1..Len(RA) : Append(R, "Accepted")[k] = RA[k]
    BY <1>1 DEF R, RA
  <2>. QED  BY <1>1, <2>1, <2>2, SeqEqual
<1>4. ASSUME NEW x \in {"Parsed", "Handled"}
      PROVE  Append(RA, x) = IF x = "Parsed" THEN RAP ELSE RAH
  <2>1. Len(Append(RA, x)) = 3 /\ Append(RA, x) \in Seq(Names) /\ Len(RAP) = 3 /\ Len(RAH) = 3
    BY <1>1 DEF RA, RAP, RAH
  <2>2. \A k \in 1..3 : Append(RA, x)[k] = IF x = "Parsed" THEN RAP[k] ELSE RAH[k]
    BY <1>1 DEF RA, RAP, RAH
  <2>. QED  BY <1>1, <2>1, <2>2, SeqEqual
<1>5. Append(RAP, "Handled") = RAPH
  <2>1. Len(Append(RAP, "Handled")) = Len(RAPH) /\ Append(RAP, "Handled") \in Seq(Names)
    BY <1>1 DEF RAP, RAPH
  <2>2. \A k \in 1..Len(RAPH) : Append(RAP, "Handled")[k] = RAPH[k]
    BY <1>1 DEF RAP, RAPH
  <2>. QED  BY <1>1, <2>1, <2>2, SeqEqual
<1>. QED  BY <1>2, <1>3, <1>4, <1>5

\* A callback is recorded for its own request, and only if there is a hook.
LEMMA CallbackRecorded ==
  ASSUME TypeOK, NEW r \in Req, NEW name \in Names,
         CallHook(r, name)
  PROVE  /\ hooks' \in [Req -> Seq(Names)]
         /\ hooks'[r] = IF HookSet THEN Append(hooks[r], name) ELSE hooks[r]
         /\ \A s \in Req \ {r} : hooks'[s] = hooks[s]
BY DEF TypeOK, CallHook, Names

\* A step of one request leaves what is known of the others.
Others(r) ==
  \A s \in Req \ {r} :
    /\ pc'[s] = pc[s] /\ client'[s] = client[s] /\ ctx'[s] = ctx[s]
    /\ cancel'[s] = cancel[s] /\ failed'[s] = failed[s] /\ hooks'[s] = hooks[s]
    /\ rpc'[s] = rpc[s] /\ answers'[s] = answers[s] /\ body'[s] = body[s]

LEMMA Frame ==
  ASSUME IInv, NEW r \in Req, flags' = flags, binding' = binding,
         Others(r), TypeOK', RInv(r)'
  PROVE  IInv'
<1> SUFFICES ASSUME NEW s \in Req \ {r} PROVE RInv(s)'
  BY DEF IInv
<1>1. RInv(s)
  BY DEF IInv
<1>2. HooksInv(s)'
  BY <1>1 DEF Others, RInv, HooksInv, HookSet
<1>3. CallInv(s)'
  BY <1>1 DEF Others, RInv, CallInv
<1>4. HeldInv(s)'
  BY <1>1 DEF Others, RInv, HeldInv, HookSet
<1>. QED  BY <1>2, <1>3, <1>4 DEF RInv

\* A latency or an answer is counted for one request.
LEMMA Counted ==
  ASSUME NEW f \in [Req -> Nat], NEW r \in Req
  PROVE  [f EXCEPT ![r] = @ + 1] \in [Req -> Nat]
OBVIOUS

\* A read concerns one body.
LEMMA ReadTyped ==
  ASSUME TypeOK, NEW r \in Req, Read(r) \/ UNCHANGED body
  PROVE  /\ body' \in [Req -> Body]
         /\ \A s \in Req \ {r} : body'[s] = body[s]
         /\ Read(r) \/ body[r].at = "read" => body'[r].at = "read"
<1>1. body \in [Req -> Body] /\ body[r] \in Body
  BY DEF TypeOK
<1>2. [body[r] EXCEPT !.at = "read"] \in Body
  BY <1>1 DEF Body
<1>. QED  BY <1>1, <1>2 DEF Read, Body

\* Every deployment answers yes or no to what the actions ask of it.
LEMMA FlagsBoolean ==
  ASSUME TypeOK
  PROVE  HookSet \in BOOLEAN /\ DebugMode \in BOOLEAN /\ UseRequestContext \in BOOLEAN
BY DeploymentsAssumption DEF TypeOK, Deployment, HookSet, DebugMode, UseRequestContext

-----------------------------------------------------------------------------
LEMMA InitInv == Init => IInv
<1> SUFFICES ASSUME Init PROVE IInv
  OBVIOUS
<1>1. TypeOK
  <2>1. body \in [Req -> Body]
    <3>1. \A kind \in Kinds : NewBody(kind) \in Body
      BY KindsAssumption DEF Kind, Body, NewBody
    <3>2. PICK kinds \in [Req -> Kinds] : body = [r \in Req |-> NewBody(kinds[r])]
      BY DEF Init
    <3>. QED  BY <3>1, <3>2
  <2>. QED  BY <2>1 DEF Init, TypeOK, Iface, NilIface, Context, NilContext, NewContext
<1>2. ASSUME NEW r \in Req PROVE RInv(r)
  <2>1. HooksInv(r)
    BY <1>2 DEF Init, HooksInv, Traces, HookSet
  <2>2. CallInv(r) /\ HeldInv(r)
    BY <1>2 DEF Init, CallInv, HeldInv, BeforeRoute, BeforeCall, Deferred, Guarded, Parsing, Closed
  <2>. QED  BY <2>1, <2>2 DEF RInv
<1>. QED  BY <1>1, <1>2 DEF IInv

\* ServeHTTP receives the request.
LEMMA ReceiveInv ==
  ASSUME IInv, NEW r \in Req, Receive(r)
  PROVE  IInv' /\ Others(r) /\ flags' = flags
<1> USE DEF Receive, Goto
<1>1. TypeOK /\ RInv(r) /\ HookSet \in BOOLEAN /\ UseRequestContext \in BOOLEAN
  BY FlagsBoolean DEF IInv
<1>2. /\ hooks' \in [Req -> Seq(Names)]
      /\ hooks'[r] = IF HookSet THEN Append(hooks[r], "Received") ELSE hooks[r]
      /\ \A s \in Req \ {r} : hooks'[s] = hooks[s]
  BY <1>1, CallbackRecorded DEF TypeOK, Names
<1>3. TypeOK'
  BY <1>1, <1>2 DEF TypeOK, Names, Open, Closed, NewContext, Context, NilContext
<1>4. Others(r) /\ flags' = flags /\ binding' = binding
  BY <1>1, <1>2 DEF TypeOK, Others
<1>5. HooksInv(r)'
  BY <1>1, <1>2, Extensions DEF TypeOK, RInv, HooksInv, CallInv, HookSet, Traces, BeforeRoute, BeforeCall, Deferred, Guarded, Parsing, Closed
<1>6. CallInv(r)' /\ HeldInv(r)'
  BY <1>1 DEF TypeOK, RInv, CallInv, HeldInv, HookSet, BeforeRoute, BeforeCall, Deferred, Guarded, Parsing, Closed
<1>. QED  BY <1>3, <1>4, <1>5, <1>6, Frame DEF RInv

\* ServeHTTP finds a handler or none.
LEMMA RoutedInv ==
  ASSUME IInv, NEW r \in Req, NotRouted(r) \/ Route(r)
  PROVE  IInv' /\ Others(r) /\ flags' = flags
<1> USE DEF NotRouted, Route, Goto
<1>1. TypeOK /\ RInv(r) /\ HookSet \in BOOLEAN /\ UseRequestContext \in BOOLEAN
  BY FlagsBoolean DEF IInv
<1>3a. answers' \in [Req -> Nat]
  <2>1. answers \in [Req -> Nat] /\ answers[r] + 1 \in Nat
    BY <1>1 DEF TypeOK
  <2>. QED  BY <1>1, <2>1 DEF TypeOK
<1>3. TypeOK'
  BY <1>1, <1>3a DEF TypeOK, Names, Open, Closed
<1>4. Others(r) /\ flags' = flags /\ binding' = binding
  BY <1>1 DEF TypeOK, Others
<1>5. HooksInv(r)'
  BY <1>1, Extensions DEF TypeOK, RInv, HooksInv, CallInv, HookSet, Traces, BeforeRoute, BeforeCall, Deferred, Guarded, Parsing, Closed
<1>6. CallInv(r)' /\ HeldInv(r)'
  BY <1>1 DEF TypeOK, RInv, CallInv, HeldInv, HookSet, BeforeRoute, BeforeCall, Deferred, Guarded, Parsing, Closed
<1>. QED  BY <1>3, <1>4, <1>5, <1>6, Frame DEF RInv

\* The handler reads the client variable.
LEMMA LoadInv ==
  ASSUME IInv, NEW r \in Req, NEW view \in Iface, Load(r, view)
  PROVE  IInv' /\ Others(r) /\ flags' = flags
<1> USE DEF Load, Fail, Goto
<1>1. TypeOK /\ RInv(r) /\ HookSet \in BOOLEAN /\ UseRequestContext \in BOOLEAN
  BY FlagsBoolean DEF IInv
<1>3. TypeOK'
  BY <1>1 DEF TypeOK, Names, Open, Closed
<1>4. Others(r) /\ flags' = flags /\ binding' = binding
  BY <1>1 DEF TypeOK, Others
<1>5. HooksInv(r)'
  BY <1>1, Extensions DEF TypeOK, RInv, HooksInv, CallInv, HookSet, Traces, BeforeRoute, BeforeCall, Deferred, Guarded, Parsing, Closed
<1>6. CallInv(r)' /\ HeldInv(r)'
  BY <1>1 DEF TypeOK, RInv, CallInv, HeldInv, HookSet, Iface, BeforeRoute, BeforeCall, Deferred, Guarded, Parsing, Closed
<1>. QED  BY <1>3, <1>4, <1>5, <1>6, Frame DEF RInv

\* There is no hook to accept the request.
LEMMA AcceptWithoutHookInv ==
  ASSUME IInv, NEW r \in Req, AcceptWithoutHook(r)
  PROVE  IInv' /\ Others(r) /\ flags' = flags
<1> USE DEF AcceptWithoutHook, Goto
<1>1. TypeOK /\ RInv(r) /\ HookSet \in BOOLEAN /\ UseRequestContext \in BOOLEAN
  BY FlagsBoolean DEF IInv
<1>3. TypeOK'
  BY <1>1 DEF TypeOK, Names, Open, Closed, NewContext, Context, NilContext
<1>4. Others(r) /\ flags' = flags /\ binding' = binding
  BY <1>1 DEF TypeOK, Others
<1>5. HooksInv(r)'
  BY <1>1, Extensions DEF TypeOK, RInv, HooksInv, CallInv, HookSet, Traces, BeforeRoute, BeforeCall, Deferred, Guarded, Parsing, Closed
<1>6. CallInv(r)' /\ HeldInv(r)'
  BY <1>1 DEF TypeOK, RInv, CallInv, HeldInv, HookSet, BeforeRoute, BeforeCall, Deferred, Guarded, Parsing, Closed
<1>. QED  BY <1>3, <1>4, <1>5, <1>6, Frame DEF RInv

\* The hook is given no method.
LEMMA AcceptUnknownMethodInv ==
  ASSUME IInv, NEW r \in Req, AcceptUnknownMethod(r)
  PROVE  IInv' /\ Others(r) /\ flags' = flags
<1> USE DEF AcceptUnknownMethod, Panic, Release, Goto
<1>1. TypeOK /\ RInv(r) /\ HookSet \in BOOLEAN /\ UseRequestContext \in BOOLEAN
  BY FlagsBoolean DEF IInv
<1>2. /\ hooks' \in [Req -> Seq(Names)]
      /\ hooks'[r] = IF HookSet THEN Append(hooks[r], "Accepted") ELSE hooks[r]
      /\ \A s \in Req \ {r} : hooks'[s] = hooks[s]
  BY <1>1, CallbackRecorded DEF TypeOK, Names
<1>3. TypeOK'
  BY <1>1, <1>2 DEF TypeOK, Names, Open, Closed
<1>4. Others(r) /\ flags' = flags /\ binding' = binding
  BY <1>1, <1>2 DEF TypeOK, Others
<1>5. HooksInv(r)'
  BY <1>1, <1>2, Extensions DEF TypeOK, RInv, HooksInv, CallInv, HookSet, Traces, BeforeRoute, BeforeCall, Deferred, Guarded, Parsing, Closed
<1>6. CallInv(r)' /\ HeldInv(r)'
  BY <1>1 DEF TypeOK, RInv, CallInv, HeldInv, HookSet, BeforeRoute, BeforeCall, Deferred, Guarded, Parsing, Closed
<1>. QED  BY <1>3, <1>4, <1>5, <1>6, Frame DEF RInv

\* The hook accepts or rejects the request.
LEMMA AcceptInv ==
  ASSUME IInv, NEW r \in Req, NEW v \in Verdicts, Accept(r, v)
  PROVE  IInv' /\ Others(r) /\ flags' = flags
<1> USE DEF Accept, Fail, Measure, Goto
<1>1. TypeOK /\ RInv(r) /\ HookSet \in BOOLEAN /\ UseRequestContext \in BOOLEAN
  BY FlagsBoolean DEF IInv
<1>2. /\ hooks' \in [Req -> Seq(Names)]
      /\ hooks'[r] = IF HookSet THEN Append(hooks[r], "Accepted") ELSE hooks[r]
      /\ \A s \in Req \ {r} : hooks'[s] = hooks[s]
  BY <1>1, CallbackRecorded DEF TypeOK, Names
<1>3a. ctx' \in [Req -> Context]
  <2>1. ctx \in [Req -> Context] /\ ctx[r] \in Context
    BY <1>1 DEF TypeOK
  <2>. QED  BY <1>1, <2>1 DEF TypeOK, Context, NewContext, NilContext
<1>3b. metrics' \in [Req -> Nat]
  <2>1. metrics \in [Req -> Nat]
    BY <1>1 DEF TypeOK
  <2>2. metrics' = metrics \/ metrics' = [metrics EXCEPT ![r] = @ + 1]
    OBVIOUS
  <2> HIDE DEF Accept
  <2>. QED  BY <2>1, <2>2, Counted
<1>3. TypeOK'
  BY <1>1, <1>2, <1>3a, <1>3b DEF TypeOK, Names, Open, Closed
<1>4. Others(r) /\ flags' = flags /\ binding' = binding
  BY <1>1, <1>2 DEF TypeOK, Others
<1>5. HooksInv(r)'
  BY <1>1, <1>2, Extensions DEF TypeOK, RInv, HooksInv, CallInv, HookSet, Traces, BeforeRoute, BeforeCall, Deferred, Guarded, Parsing, Closed
<1>6. CallInv(r)' /\ HeldInv(r)'
  BY <1>1 DEF TypeOK, RInv, CallInv, HeldInv, HookSet, BeforeRoute, BeforeCall, Deferred, Guarded, Parsing, Closed
<1>. QED  BY <1>3, <1>4, <1>5, <1>6, Frame DEF RInv

\* The handler derives its context.
LEMMA DeriveInv ==
  ASSUME IInv, NEW r \in Req, Derive(r)
  PROVE  IInv' /\ Others(r) /\ flags' = flags
<1> USE DEF Derive, Panic, Release, Goto
<1>1. TypeOK /\ RInv(r) /\ HookSet \in BOOLEAN /\ UseRequestContext \in BOOLEAN
  BY FlagsBoolean DEF IInv
<1>3a. ctx' \in [Req -> Context]
  <2>1. ctx \in [Req -> Context] /\ ctx[r] \in Context
    BY <1>1 DEF TypeOK
  <2>2. NewContext(FALSE, "request") \in Context
    BY DEF NewContext, Context
  <2>3. ctx' = ctx \/ ctx' = [ctx EXCEPT ![r] = NewContext(FALSE, "request")]
    BY <1>1
  <2>. QED  BY <2>1, <2>2, <2>3
<1>3. TypeOK'
  BY <1>1, <1>3a DEF TypeOK, Names, Open, Closed
<1>4. Others(r) /\ flags' = flags /\ binding' = binding
  <2>1. \A s \in Req \ {r} : ctx'[s] = ctx[s]
    BY <1>1 DEF TypeOK
  <2>2. \A s \in Req \ {r} : pc'[s] = pc[s] /\ cancel'[s] = cancel[s]
    BY <1>1 DEF TypeOK
  <2>3. UNCHANGED <<flags, binding, client, failed, hooks, rpc, answers, body>>
    OBVIOUS
  <2> HIDE DEF Derive
  <2>. QED  BY <2>1, <2>2, <2>3 DEF Others
<1>5. HooksInv(r)'
  BY <1>1, Extensions DEF TypeOK, RInv, HooksInv, CallInv, HookSet, Traces, BeforeRoute, BeforeCall, Deferred, Guarded, Parsing, Closed
<1>6. CallInv(r)' /\ HeldInv(r)'
  BY <1>1 DEF TypeOK, RInv, CallInv, HeldInv, HookSet, BeforeRoute, BeforeCall, Deferred, Guarded, Parsing, Closed
<1>. QED  BY <1>3, <1>4, <1>5, <1>6, Frame DEF RInv

\* The context is annotated, or cannot be.
LEMMA AnnotateInv ==
  ASSUME IInv, NEW r \in Req, AnnotateFails(r) \/ \E t, m \in BOOLEAN : Annotate(r, t, m)
  PROVE  IInv' /\ Others(r) /\ flags' = flags
<1> USE DEF Annotate, AnnotateFails, Panic, Release, Goto
<1>1. TypeOK /\ RInv(r) /\ HookSet \in BOOLEAN /\ UseRequestContext \in BOOLEAN
  BY FlagsBoolean DEF IInv
<1>3a. ctx' \in [Req -> Context]
  <2>1. ctx \in [Req -> Context] /\ ctx[r] \in Context
    BY <1>1 DEF TypeOK
  <2>2. NilContext \in Context
    BY DEF NilContext, NewContext, Context
  <2>3. \A t, m \in BOOLEAN :
          [ctx[r] EXCEPT !.out = IF m THEN "annotated" ELSE @, !.deadline = t] \in Context
    BY <2>1 DEF Context
  <2>4. CASE AnnotateFails(r)
    BY <2>1, <2>2, <2>4
  <2>5. ASSUME NEW t \in BOOLEAN, NEW m \in BOOLEAN, Annotate(r, t, m)
        PROVE  ctx' \in [Req -> Context]
    BY <2>1, <2>3, <2>5
  <2>. QED  BY <2>4, <2>5
<1>2. ASSUME NEW t \in BOOLEAN, NEW m \in BOOLEAN, Annotate(r, t, m)
      PROVE  ctx'[r].parent = ctx[r].parent
  <2>1. ctx \in [Req -> Context] /\ ctx[r] \in Context
    BY <1>1 DEF TypeOK
  <2>2. ctx' = [ctx EXCEPT ![r].out = IF m THEN "annotated" ELSE @, ![r].deadline = t]
    BY <1>2
  <2> HIDE DEF Annotate, AnnotateFails
  <2>3. ctx'[r] = [ctx[r] EXCEPT !.out = IF m THEN "annotated" ELSE @, !.deadline = t]
    BY <2>1, <2>2
  <2>. QED  BY <2>1, <2>3 DEF Context
<1>2a. \A s \in Req \ {r} : ctx'[s] = ctx[s]
  BY <1>1 DEF TypeOK
<1>3. TypeOK'
  BY <1>1, <1>3a DEF TypeOK, Names, Open, Closed
<1>4. Others(r) /\ flags' = flags /\ binding' = binding
  BY <1>1, <1>2a DEF TypeOK, Others
<1>5. HooksInv(r)'
  BY <1>1, Extensions DEF TypeOK, RInv, HooksInv, CallInv, HookSet, Traces, BeforeRoute, BeforeCall, Deferred, Guarded, Parsing, Closed
<1>6. CallInv(r)'
  BY <1>1 DEF TypeOK, RInv, CallInv, BeforeRoute, BeforeCall
<1>7. HeldInv(r)'
  <2>1. CASE AnnotateFails(r)
    BY <1>1, <2>1 DEF TypeOK, RInv, CallInv, HeldInv, BeforeRoute, BeforeCall, Deferred, Guarded, Parsing, Closed
  <2>2. ASSUME NEW t \in BOOLEAN, NEW m \in BOOLEAN, Annotate(r, t, m)
        PROVE  HeldInv(r)'
    <3>1. /\ pc[r] = "annotate" /\ pc' = [pc EXCEPT ![r] = IF binding[r].body THEN "read" ELSE "parse"]
          /\ UNCHANGED <<flags, binding, client, cancel, rpc, body>>
      BY <2>2
    <3>2. ctx'[r].parent = ctx[r].parent
      BY <1>2, <2>2
    <3> HIDE DEF Annotate, AnnotateFails
    <3>. QED
      BY <1>1, <3>1, <3>2 DEF TypeOK, RInv, CallInv, HeldInv, HookSet, BeforeRoute, BeforeCall, Deferred, Guarded, Parsing, Closed
  <2>. QED  BY <2>1, <2>2
<1>. QED  BY <1>3, <1>4, <1>5, <1>6, <1>7, Frame DEF RInv

\* The request function finds a payload it cannot parse.
LEMMA ParseFailsInv ==
  ASSUME IInv, NEW r \in Req, NEW f, ParseFails(r, f)
  PROVE  IInv' /\ Others(r) /\ flags' = flags
<1> USE DEF ParseFails, RequestHandled, Fail, Measure, Goto
<1>0. body' \in [Req -> Body] /\ \A s \in Req \ {r} : body'[s] = body[s]
  BY ReadTyped DEF ParseForm, FormBreaks, IInv
<1>1. TypeOK /\ RInv(r) /\ HookSet \in BOOLEAN /\ UseRequestContext \in BOOLEAN
  BY FlagsBoolean DEF IInv
<1>2. /\ hooks' \in [Req -> Seq(Names)]
      /\ hooks'[r] \in {hooks[r], IF HookSet THEN Append(hooks[r], "Handled") ELSE hooks[r]}
      /\ \A s \in Req \ {r} : hooks'[s] = hooks[s]
  BY <1>1, CallbackRecorded DEF TypeOK, Names
<1>3a. metrics' \in [Req -> Nat]
  <2>1. metrics \in [Req -> Nat] /\ metrics[r] + 1 \in Nat
    BY <1>1 DEF TypeOK
  <2>. QED  BY <1>1, <2>1 DEF TypeOK
<1>3. TypeOK'
  BY <1>0, <1>1, <1>2, <1>3a DEF TypeOK, Names, Open, Closed
<1>4. Others(r) /\ flags' = flags /\ binding' = binding
  BY <1>0, <1>1, <1>2 DEF TypeOK, Others
<1>5. HooksInv(r)'
  BY <1>1, <1>2, Extensions DEF TypeOK, RInv, HooksInv, CallInv, HookSet, Traces, BeforeRoute, BeforeCall, Deferred, Guarded, Parsing, Closed
<1>6. CallInv(r)' /\ HeldInv(r)'
  BY <1>0, <1>1 DEF TypeOK, RInv, CallInv, HeldInv, HookSet, BeforeRoute, BeforeCall, Deferred, Guarded, Parsing, Closed
<1>. QED  BY <1>3, <1>4, <1>5, <1>6, Frame DEF RInv

\* The payload is parsed.
LEMMA ParseInv ==
  ASSUME IInv, NEW r \in Req, Parse(r)
  PROVE  IInv' /\ Others(r) /\ flags' = flags
<1> USE DEF Parse, Goto
<1>0. /\ body' \in [Req -> Body] /\ \A s \in Req \ {r} : body'[s] = body[s]
      /\ body[r].at = "read" => body'[r].at = "read"
  BY ReadTyped DEF ParseForm, IInv
<1>1. TypeOK /\ RInv(r) /\ HookSet \in BOOLEAN /\ UseRequestContext \in BOOLEAN
  BY FlagsBoolean DEF IInv
<1>2. /\ hooks' \in [Req -> Seq(Names)]
      /\ hooks'[r] = IF HookSet THEN Append(hooks[r], "Parsed") ELSE hooks[r]
      /\ \A s \in Req \ {r} : hooks'[s] = hooks[s]
  BY <1>1, CallbackRecorded DEF TypeOK, Names
<1>3. TypeOK'
  BY <1>0, <1>1, <1>2 DEF TypeOK, Names, Open, Closed
<1>4. Others(r) /\ flags' = flags /\ binding' = binding
  BY <1>0, <1>1, <1>2 DEF TypeOK, Others
<1>5. HooksInv(r)'
  BY <1>1, <1>2, Extensions DEF TypeOK, RInv, HooksInv, CallInv, HookSet, Traces, BeforeRoute, BeforeCall, Deferred, Guarded, Parsing, Closed
<1>6. CallInv(r)' /\ HeldInv(r)'
  BY <1>0, <1>1 DEF TypeOK, RInv, CallInv, HeldInv, HookSet, BeforeRoute, BeforeCall, Deferred, Guarded, Parsing, Closed
<1>. QED  BY <1>3, <1>4, <1>5, <1>6, Frame DEF RInv

\* The backend is called.
LEMMA CallStepInv ==
  ASSUME IInv, NEW r \in Req, Call(r)
  PROVE  IInv' /\ Others(r) /\ flags' = flags
<1> USE DEF Call, Panic, Release, Goto
<1>1. TypeOK /\ RInv(r) /\ HookSet \in BOOLEAN /\ UseRequestContext \in BOOLEAN
  BY FlagsBoolean DEF IInv
<1>3. TypeOK'
  BY <1>1 DEF TypeOK, Names, Open, Closed, Iface
<1>4. Others(r) /\ flags' = flags /\ binding' = binding
  BY <1>1 DEF TypeOK, Others
<1>5. HooksInv(r)'
  BY <1>1, Extensions DEF TypeOK, RInv, HooksInv, CallInv, HookSet, Traces, BeforeRoute, BeforeCall, Deferred, Guarded, Parsing, Closed
<1>6. CallInv(r)' /\ HeldInv(r)'
  BY <1>1 DEF TypeOK, RInv, CallInv, HeldInv, HookSet, BeforeRoute, BeforeCall, Deferred, Guarded, Parsing, Closed
<1>. QED  BY <1>3, <1>4, <1>5, <1>6, Frame DEF RInv

\* The call returns.
LEMMA ReturnInv ==
  ASSUME IInv, NEW r \in Req, NEW status \in {"ok", "error"}, Return(r, status)
  PROVE  IInv' /\ Others(r) /\ flags' = flags
<1> USE DEF Return, Goto
<1>1. TypeOK /\ RInv(r) /\ HookSet \in BOOLEAN /\ UseRequestContext \in BOOLEAN
  BY FlagsBoolean DEF IInv
<1>3. TypeOK'
  BY <1>1 DEF TypeOK, Names, Open, Closed
<1>4. Others(r) /\ flags' = flags /\ binding' = binding
  BY <1>1 DEF TypeOK, Others
<1>5. HooksInv(r)'
  BY <1>1, Extensions DEF TypeOK, RInv, HooksInv, CallInv, HookSet, Traces, BeforeRoute, BeforeCall, Deferred, Guarded, Parsing, Closed
<1>6. CallInv(r)' /\ HeldInv(r)'
  BY <1>1 DEF TypeOK, RInv, CallInv, HeldInv, HookSet, BeforeRoute, BeforeCall, Deferred, Guarded, Parsing, Closed
<1>. QED  BY <1>3, <1>4, <1>5, <1>6, Frame DEF RInv

\* The request is reported handled.
LEMMA HandleInv ==
  ASSUME IInv, NEW r \in Req, Handle(r)
  PROVE  IInv' /\ Others(r) /\ flags' = flags
<1> USE DEF Handle, RequestHandled, Measure, Goto
<1>1. TypeOK /\ RInv(r) /\ HookSet \in BOOLEAN /\ UseRequestContext \in BOOLEAN
  BY FlagsBoolean DEF IInv
<1>2. /\ hooks' \in [Req -> Seq(Names)]
      /\ hooks'[r] = IF HookSet THEN Append(hooks[r], "Handled") ELSE hooks[r]
      /\ \A s \in Req \ {r} : hooks'[s] = hooks[s]
  BY <1>1, CallbackRecorded DEF TypeOK, Names
<1>3a. metrics' \in [Req -> Nat]
  <2>1. metrics \in [Req -> Nat] /\ metrics[r] + 1 \in Nat
    BY <1>1 DEF TypeOK
  <2>. QED  BY <1>1, <2>1 DEF TypeOK
<1>3. TypeOK'
  BY <1>1, <1>2, <1>3a DEF TypeOK, Names, Open, Closed
<1>4. Others(r) /\ flags' = flags /\ binding' = binding
  BY <1>1, <1>2 DEF TypeOK, Others
<1>5. HooksInv(r)'
  BY <1>1, <1>2, Extensions DEF TypeOK, RInv, HooksInv, CallInv, HookSet, Traces, BeforeRoute, BeforeCall, Deferred, Guarded, Parsing, Closed
<1>6. CallInv(r)' /\ HeldInv(r)'
  BY <1>1 DEF TypeOK, RInv, CallInv, HeldInv, HookSet, BeforeRoute, BeforeCall, Deferred, Guarded, Parsing, Closed
<1>. QED  BY <1>3, <1>4, <1>5, <1>6, Frame DEF RInv

\* The answer is written.
LEMMA ReplyInv ==
  ASSUME IInv, NEW r \in Req, Reply(r)
  PROVE  IInv' /\ Others(r) /\ flags' = flags
<1> USE DEF Reply, Release, Goto
<1>1. TypeOK /\ RInv(r) /\ HookSet \in BOOLEAN /\ UseRequestContext \in BOOLEAN
  BY FlagsBoolean DEF IInv
<1>3a. answers' \in [Req -> Nat]
  <2>1. answers \in [Req -> Nat] /\ answers[r] + 1 \in Nat
    BY <1>1 DEF TypeOK
  <2>. QED  BY <1>1, <2>1 DEF TypeOK
<1>3. TypeOK'
  BY <1>1, <1>3a DEF TypeOK, Names, Open, Closed
<1>4. Others(r) /\ flags' = flags /\ binding' = binding
  BY <1>1 DEF TypeOK, Others
<1>5. HooksInv(r)'
  BY <1>1, Extensions DEF TypeOK, RInv, HooksInv, CallInv, HookSet, Traces, BeforeRoute, BeforeCall, Deferred, Guarded, Parsing, Closed
<1>6. CallInv(r)' /\ HeldInv(r)'
  BY <1>1 DEF TypeOK, RInv, CallInv, HeldInv, HookSet, BeforeRoute, BeforeCall, Deferred, Guarded, Parsing, Closed
<1>. QED  BY <1>3, <1>4, <1>5, <1>6, Frame DEF RInv

\* A body is read to its end.
LEMMA ReadInv ==
  ASSUME IInv, NEW r \in Req, ReadForm(r) \/ ReadBody(r)
  PROVE  IInv' /\ Others(r) /\ flags' = flags
<1> USE DEF ReadForm, ReadBody, Goto
<1>0. /\ body' \in [Req -> Body] /\ \A s \in Req \ {r} : body'[s] = body[s]
      /\ body'[r].at = "read"
  BY ReadTyped DEF IInv
<1>1. TypeOK /\ RInv(r) /\ HookSet \in BOOLEAN /\ UseRequestContext \in BOOLEAN
  BY FlagsBoolean DEF IInv
<1>3. TypeOK'
  BY <1>0, <1>1 DEF TypeOK, Names, Open, Closed
<1>4. Others(r) /\ flags' = flags /\ binding' = binding
  BY <1>0, <1>1 DEF TypeOK, Others
<1>5. HooksInv(r)'
  BY <1>1, Extensions DEF TypeOK, RInv, HooksInv, CallInv, HookSet, Traces, BeforeRoute, BeforeCall, Deferred, Guarded, Parsing, Closed
<1>6. CallInv(r)' /\ HeldInv(r)'
  BY <1>0, <1>1 DEF TypeOK, RInv, CallInv, HeldInv, HookSet, BeforeRoute, BeforeCall, Deferred, Guarded, Parsing, Closed
<1>. QED  BY <1>3, <1>4, <1>5, <1>6, Frame DEF RInv

\* A body breaks off.
LEMMA ReadFailsInv ==
  ASSUME IInv, NEW r \in Req, ReadFormFails(r) \/ ReadBodyFails(r)
  PROVE  IInv' /\ Others(r) /\ flags' = flags
<1> USE DEF ReadFormFails, ReadBodyFails, Fail, Goto
<1>1. TypeOK /\ RInv(r) /\ HookSet \in BOOLEAN /\ UseRequestContext \in BOOLEAN
  BY FlagsBoolean DEF IInv
<1>3a. answers' \in [Req -> Nat]
  <2>1. answers \in [Req -> Nat] /\ answers[r] + 1 \in Nat
    BY <1>1 DEF TypeOK
  <2>. QED  BY <1>1, <2>1 DEF TypeOK
<1>3. TypeOK'
  BY <1>1, <1>3a DEF TypeOK, Names, Open, Closed
<1>4. Others(r) /\ flags' = flags /\ binding' = binding
  BY <1>1 DEF TypeOK, Others
<1>5. HooksInv(r)'
  BY <1>1, Extensions DEF TypeOK, RInv, HooksInv, CallInv, HookSet, Traces, BeforeRoute, BeforeCall, Deferred, Guarded, Parsing, Closed
<1>6. CallInv(r)' /\ HeldInv(r)'
  BY <1>1 DEF TypeOK, RInv, CallInv, HeldInv, HookSet, BeforeRoute, BeforeCall, Deferred, Guarded, Parsing, Closed
<1>. QED  BY <1>3, <1>4, <1>5, <1>6, Frame DEF RInv

\* The client sends its body.
LEMMA SendBodyInv ==
  ASSUME IInv, NEW r \in Req, SendBody(r)
  PROVE  IInv' /\ Others(r) /\ flags' = flags
<1> USE DEF SendBody
<1>0. /\ body' \in [Req -> Body] /\ \A s \in Req \ {r} : body'[s] = body[s]
      /\ body[r].at = "coming"
  <2>1. body \in [Req -> Body] /\ [body[r] EXCEPT !.at = "arrived"] \in Body
    BY DEF IInv, TypeOK, Body
  <2>. QED  BY <2>1
<1>1. TypeOK /\ RInv(r) /\ HookSet \in BOOLEAN /\ UseRequestContext \in BOOLEAN
  BY FlagsBoolean DEF IInv
<1>3. TypeOK'
  BY <1>0, <1>1 DEF TypeOK, Names, Open, Closed
<1>4. Others(r) /\ flags' = flags /\ binding' = binding
  BY <1>0, <1>1 DEF TypeOK, Others
<1>5. HooksInv(r)'
  BY <1>1, Extensions DEF TypeOK, RInv, HooksInv, CallInv, HookSet, Traces, BeforeRoute, BeforeCall, Deferred, Guarded, Parsing, Closed
<1>6. CallInv(r)' /\ HeldInv(r)'
  BY <1>0, <1>1 DEF TypeOK, RInv, CallInv, HeldInv, HookSet, BeforeRoute, BeforeCall, Deferred, Guarded, Parsing, Closed
<1>. QED  BY <1>3, <1>4, <1>5, <1>6, Frame DEF RInv

\* The HTTP client leaves.
LEMMA DisconnectInv ==
  ASSUME IInv, NEW r \in Req, Disconnect(r)
  PROVE  IInv' /\ Others(r) /\ flags' = flags
<1> USE DEF Disconnect, Goto
<1>1. TypeOK /\ RInv(r) /\ HookSet \in BOOLEAN /\ UseRequestContext \in BOOLEAN
  BY FlagsBoolean DEF IInv
<1>3. TypeOK'
  BY <1>1 DEF TypeOK, Names, Open, Closed
<1>4. Others(r) /\ flags' = flags /\ binding' = binding
  BY <1>1 DEF TypeOK, Others
<1>5. HooksInv(r)'
  BY <1>1, Extensions DEF TypeOK, RInv, HooksInv, CallInv, HookSet, Traces, BeforeRoute, BeforeCall, Deferred, Guarded, Parsing, Closed
<1>6. CallInv(r)' /\ HeldInv(r)'
  BY <1>1 DEF TypeOK, RInv, CallInv, HeldInv, HookSet, BeforeRoute, BeforeCall, Deferred, Guarded, Parsing, Closed
<1>. QED  BY <1>3, <1>4, <1>5, <1>6, Frame DEF RInv

\* The steps a request can take.
Action(r) ==
  \/ Receive(r) \/ Step(r) \/ Reply(r) \/ Backend(r) \/ SendBody(r) \/ Disconnect(r)
  \/ \E view \in Iface : Load(r, view)

LEMMA ActionInv ==
  ASSUME IInv, NEW r \in Req, Action(r)
  PROVE  IInv' /\ Others(r) /\ flags' = flags
<1>1. CASE Step(r)
  BY <1>1, RoutedInv, AcceptWithoutHookInv, AcceptUnknownMethodInv, AcceptInv, DeriveInv,
     AnnotateInv, ReadInv, ReadFailsInv, ParseFailsInv, ParseInv, CallStepInv, ReturnInv, HandleInv
     DEF Step, GiveUp
<1>2. CASE \/ Receive(r) \/ Reply(r) \/ SendBody(r) \/ Disconnect(r) \/ Backend(r)
            \/ \E view \in Iface : Load(r, view)
  BY <1>2, ReceiveInv, ReplyInv, SendBodyInv, DisconnectInv, ReturnInv, LoadInv DEF Backend
<1>. QED  BY <1>1, <1>2 DEF Action

\* Where a request is determines what it has done: IInv is inductive.
LEMMA StepInv == IInv /\ [Next]_handlerVars => IInv'
<1> SUFFICES ASSUME IInv, [Next]_handlerVars PROVE IInv'
  OBVIOUS
<1>1. CASE UNCHANGED handlerVars
  BY <1>1 DEF handlerVars, IInv, TypeOK, RInv, HooksInv, CallInv, HeldInv, HookSet
<1>. QED  BY <1>1, ActionInv DEF Next, Action

-----------------------------------------------------------------------------
\* The callbacks in a trace, for Called and LastHook.
LEMMA TraceMembers ==
  ASSUME NEW r \in Req, hooks[r] \in Traces
  PROVE  /\ hooks[r] \in {RA, RAP, RAH, RAPH} => Called(r, "Accepted")
         /\ hooks[r] \in {RAP, RAPH} => Called(r, "Parsed")
         /\ hooks[r] \in {RAH, RAPH} => Called(r, "Handled")
         /\ \A j, k \in DOMAIN hooks[r] : hooks[r][j] = "Handled" /\ hooks[r][k] = "Handled" => j = k
<1>1. CASE hooks[r] = << >>
  BY <1>1 DEF Called, RA, RAP, RAH, RAPH
<1>2. CASE hooks[r] = R
  BY <1>2 DEF Called, R, RA, RAP, RAH, RAPH
<1>3. CASE hooks[r] = RA
  BY <1>3 DEF Called, RA, RAP, RAH, RAPH
<1>4. CASE hooks[r] = RAP
  BY <1>4 DEF Called, RA, RAP, RAH, RAPH
<1>5. CASE hooks[r] = RAH
  BY <1>5 DEF Called, RA, RAP, RAH, RAPH
<1>6. CASE hooks[r] = RAPH
  BY <1>6 DEF Called, RA, RAP, RAH, RAPH
<1>. QED  BY <1>1, <1>2, <1>3, <1>4, <1>5, <1>6 DEF Traces

\* What the inductive invariant says of answers, calls, callbacks and contexts.
LEMMA IInvImplies == IInv => TypeOK /\ OneAnswer /\ CallGuarded /\ HandledOnce /\ ContextReleased
<1>. SUFFICES ASSUME IInv PROVE OneAnswer /\ CallGuarded /\ HandledOnce /\ ContextReleased
  BY DEF IInv
<1>1. OneAnswer
  BY DEF IInv, RInv, CallInv, OneAnswer
<1>2. CallGuarded
  <2> SUFFICES ASSUME NEW r \in Req, rpc[r] # "none"
               PROVE  /\ HookSet => Called(r, "Accepted") /\ Called(r, "Parsed") /\ binding[r].listed
                      /\ client[r].tab = 1 /\ client[r].data # 0
                      /\ binding[r].body => body[r].at = "read"
                      /\ ctx[r].parent # "none"
                      /\ rpc[r] = "sent" => cancel[r] = "pending"
    BY DEF CallGuarded
  <2>1. RInv(r) /\ pc[r] \in {"idle"} \cup Open \cup Closed
    BY DEF IInv, TypeOK
  <2>2. pc[r] \in {"await", "handle", "reply", "answered"}
    BY <2>1 DEF RInv, CallInv, BeforeRoute, BeforeCall, Open, Closed
  <2>3. HookSet => hooks[r] \in {RAP, RAPH}
    BY <2>1, <2>2 DEF RInv, HooksInv
  <2>4. HookSet => Called(r, "Accepted") /\ Called(r, "Parsed")
    BY <2>1, <2>3, TraceMembers DEF RInv, HooksInv
  <2>. QED  BY <2>1, <2>4 DEF RInv, CallInv, HeldInv, Deferred
<1>3. HandledOnce
  <2> SUFFICES ASSUME NEW r \in Req
               PROVE  /\ \A j, k \in DOMAIN hooks[r] :
                            hooks[r][j] = "Handled" /\ hooks[r][k] = "Handled" => j = k
                      /\ HookSet /\ pc[r] \in Closed /\ rpc[r] # "none" => Called(r, "Handled")
    BY DEF HandledOnce
  <2>1. RInv(r)
    BY DEF IInv
  <2>2. HookSet /\ pc[r] \in Closed /\ rpc[r] # "none" => hooks[r] = RAPH
    BY <2>1 DEF RInv, HooksInv, CallInv, Closed
  <2>. QED  BY <2>1, <2>2, TraceMembers DEF RInv, HooksInv
<1>4. ContextReleased
  BY DEF IInv, RInv, HeldInv, ContextReleased
<1>. QED  BY <1>1, <1>2, <1>3, <1>4

\* In every reachable state the control invariant holds.
LEMMA Invariance == Spec => []IInv
BY InitInv, StepInv, PTL DEF Spec

\* Type correctness of a request's state, the histories included.
THEOREM TypeCorrect == Spec => []TypeOK
BY IInvImplies, Invariance, PTL

\* Every way through the generated handler writes one answer, a panic none, and
\* a success is answered only after the backend's.
THEOREM AnswersOnce == Spec => []OneAnswer
BY IInvImplies, Invariance, PTL

\* A call is made only for an accepted, annotated and parsed request, over a
\* client that exists and under a context that is not cancelled.
THEOREM CallsGuarded == Spec => []CallGuarded
BY IInvImplies, Invariance, PTL

\* RequestHandled is called once for every request whose call was made.
THEOREM HandlesOnce == Spec => []HandledOnce
BY IInvImplies, Invariance, PTL

\* No way out of the handler leaves its context uncancelled.
THEOREM ReleasesContext == Spec => []ContextReleased
BY IInvImplies, Invariance, PTL

-----------------------------------------------------------------------------
(* The callbacks keep the contract of the hook's interface. *)

\* What a step of request r shows the hook's implementer.
Shown(r) ==
  \/ hooks'[r] = hooks[r] /\ Outcome(r)' = Outcome(r)
  \/ /\ pc[r] \notin Closed /\ pc'[r] \notin Closed
     /\ \/ hooks[r] = << >> /\ hooks'[r] = R
        \/ hooks[r] = R /\ hooks'[r] = RA
        \/ hooks[r] = RA /\ hooks'[r] \in {RAP, RAH}
        \/ hooks[r] = RAP /\ hooks'[r] = RAPH
  \/ /\ pc[r] \notin Closed /\ pc'[r] = "answered"
     /\ hooks'[r] = hooks[r] /\ hooks[r] \in {R, RA, RAH, RAPH}
  \/ /\ pc[r] \notin Closed /\ pc'[r] = "panicked"
     /\ \/ hooks[r] = R /\ hooks'[r] = RA
        \/ hooks[r] \in {RA, RAP} /\ hooks'[r] = hooks[r]

LEMMA ActionShown ==
  ASSUME IInv, NEW r \in Req, Action(r), HookSet
  PROVE  Shown(r)
<1> USE DEF Goto, Shown, Outcome, Closed
<1>1. TypeOK /\ HooksInv(r) /\ CallInv(r)
  BY DEF IInv, RInv
<1>2. CASE Receive(r)
  BY <1>1, <1>2, CallbackRecorded, Extensions DEF Receive, TypeOK, HooksInv, Names
<1>3. CASE NotRouted(r) \/ Route(r)
  BY <1>1, <1>3 DEF NotRouted, Route, TypeOK, HooksInv
<1>4. CASE \E view \in Iface : Load(r, view)
  BY <1>1, <1>4 DEF Load, Fail, TypeOK, HooksInv
<1>5. CASE AcceptWithoutHook(r)
  BY <1>5 DEF AcceptWithoutHook
<1>6. CASE AcceptUnknownMethod(r)
  <2>1. pc[r] = "accept" /\ pc' = [pc EXCEPT ![r] = "panicked"] /\ CallHook(r, "Accepted")
    BY <1>6 DEF AcceptUnknownMethod, Panic
  <2>2. hooks'[r] = Append(hooks[r], "Accepted") /\ hooks[r] = R
    BY <1>1, <2>1, CallbackRecorded DEF HooksInv, Names
  <2>. QED  BY <1>1, <2>1, <2>2, Extensions DEF TypeOK
<1>7. CASE \E v \in Verdicts : Accept(r, v)
  <2>1. pc[r] = "accept" /\ CallHook(r, "Accepted") /\ pc' \in {[pc EXCEPT ![r] = "derive"], [pc EXCEPT ![r] = "reply"]}
    BY <1>7 DEF Accept, Fail
  <2>. QED  BY <1>1, <2>1, CallbackRecorded, Extensions DEF TypeOK, HooksInv, Names
<1>8. CASE Derive(r)
  BY <1>1, <1>8 DEF Derive, Panic, TypeOK, HooksInv
<1>9. CASE AnnotateFails(r) \/ \E t, m \in BOOLEAN : Annotate(r, t, m)
  <2>1. /\ pc[r] = "annotate" /\ hooks' = hooks
        /\ pc' \in {[pc EXCEPT ![r] = "read"], [pc EXCEPT ![r] = "parse"], [pc EXCEPT ![r] = "panicked"]}
    BY <1>9 DEF Annotate, AnnotateFails, Panic
  <2>. QED  BY <1>1, <2>1 DEF TypeOK, HooksInv
<1>10. CASE Parse(r)
  BY <1>1, <1>10, CallbackRecorded, Extensions DEF Parse, TypeOK, HooksInv, Names
<1>11. CASE \E f \in Reported(binding[r]) \cup Silent(binding[r]) : ParseFails(r, f)
  <2>1. /\ pc[r] = "parse" /\ pc' = [pc EXCEPT ![r] = "reply"]
        /\ hooks' = hooks \/ CallHook(r, "Handled")
    BY <1>11 DEF ParseFails, RequestHandled, Fail
  <2>. QED  BY <1>1, <2>1, CallbackRecorded, Extensions DEF TypeOK, HooksInv, Names
<1>12. CASE Call(r)
  BY <1>1, <1>12 DEF Call, Panic, TypeOK, HooksInv
<1>13. CASE GiveUp(r) \/ Backend(r)
  BY <1>1, <1>13 DEF GiveUp, Backend, Return, TypeOK, HooksInv
<1>14. CASE Handle(r)
  <2>1. pc[r] = "handle" /\ pc' = [pc EXCEPT ![r] = "reply"] /\ CallHook(r, "Handled")
    BY <1>14 DEF Handle, RequestHandled
  <2>2. hooks'[r] = Append(hooks[r], "Handled") /\ hooks[r] = RAP
    BY <1>1, <2>1, CallbackRecorded DEF HooksInv, Names
  <2>. QED  BY <1>1, <2>1, <2>2, Extensions DEF TypeOK
<1>15. CASE Reply(r)
  BY <1>1, <1>15 DEF Reply, TypeOK, HooksInv
<1>16. CASE SendBody(r) \/ Disconnect(r)
  BY <1>1, <1>16 DEF SendBody, Disconnect
<1>17. CASE ReadForm(r) \/ ReadBody(r) \/ ReadFormFails(r) \/ ReadBodyFails(r)
  BY <1>1, <1>17 DEF ReadForm, ReadBody, ReadFormFails, ReadBodyFails, Fail, TypeOK, HooksInv
<1>. QED  BY <1>2, <1>3, <1>4, <1>5, <1>6, <1>7, <1>8, <1>9, <1>10, <1>11, <1>12,
             <1>13, <1>14, <1>15, <1>16, <1>17 DEF Action, Step

\* The last callback of each trace.
LastOf(trace) == IF trace = << >> THEN "none" ELSE trace[Len(trace)]

LEMMA LastOfTraces ==
  /\ LastOf(<< >>) = "none" /\ LastOf(R) = "Received" /\ LastOf(RA) = "Accepted"
  /\ LastOf(RAP) = "Parsed" /\ LastOf(RAH) = "Handled" /\ LastOf(RAPH) = "Handled"
<1>1. LastOf(<< >>) = "none" /\ LastOf(R) = "Received"
  BY DEF LastOf, R
<1>2. LastOf(RA) = "Accepted"
  BY DEF LastOf, RA
<1>3. LastOf(RAP) = "Parsed"
  BY DEF LastOf, RAP
<1>4. LastOf(RAH) = "Handled"
  BY DEF LastOf, RAH
<1>5. LastOf(RAPH) = "Handled"
  BY DEF LastOf, RAPH
<1>. QED  BY <1>1, <1>2, <1>3, <1>4, <1>5

\* The mapping of the refinement, named as in the contract.
stage == [r \in Req |-> IF HookSet THEN LastHook(r) ELSE "none"]
outcome == [r \in Req |-> IF HookSet THEN Outcome(r) ELSE "open"]

LEMMA ContractInit == Init => Contract!Init
<1> SUFFICES ASSUME Init PROVE Contract!Init
  OBVIOUS
<1>1. \A r \in Req : LastHook(r) = "none" /\ Outcome(r) = "open"
  BY DEF Init, LastHook, Outcome
<1>. QED  BY <1>1 DEF Contract!Init

LEMMA ContractStep == IInv /\ [Next]_handlerVars => [Contract!Next]_(Contract!vars)
<1> SUFFICES ASSUME IInv, [Next]_handlerVars PROVE [Contract!Next]_(Contract!vars)
  OBVIOUS
<1>1. CASE UNCHANGED handlerVars
  BY <1>1 DEF handlerVars, Contract!vars, LastHook, Outcome, HookSet
<1>2. ASSUME NEW r \in Req, Action(r) PROVE [Contract!Next]_(Contract!vars)
  <2>1. Others(r) /\ HookSet' = HookSet
    BY <1>2, ActionInv DEF HookSet
  <2>2. CASE ~HookSet
    BY <2>1, <2>2 DEF Contract!vars
  <2>3. CASE HookSet
    <3>1. \A s \in Req \ {r} : LastHook(s)' = LastHook(s) /\ Outcome(s)' = Outcome(s)
      BY <2>1 DEF Others, LastHook, Outcome
    <3>2. /\ stage' = [stage EXCEPT ![r] = LastHook(r)']
          /\ outcome' = [outcome EXCEPT ![r] = Outcome(r)']
          /\ stage[r] = LastHook(r) /\ outcome[r] = Outcome(r)
      BY <2>1, <2>3, <3>1 DEF stage, outcome
    <3>3. LastHook(r) = LastOf(hooks[r]) /\ LastHook(r)' = LastOf(hooks'[r])
      BY DEF LastHook, LastOf
    <3>4. Shown(r)
      BY <1>2, <2>3, ActionShown
    <3>5. CASE hooks'[r] = hooks[r] /\ Outcome(r)' = Outcome(r)
      <4>1. LastHook(r)' = LastHook(r)
        BY <3>3, <3>5
      <4>2. stage' = stage
        BY <3>2, <4>1 DEF stage
      <4>3. outcome' = outcome
        BY <3>2, <3>5 DEF outcome
      <4>. QED  BY <4>2, <4>3 DEF Contract!vars, stage, outcome
    <3>6. CASE /\ pc[r] \notin Closed /\ pc'[r] \notin Closed
               /\ \/ hooks[r] = << >> /\ hooks'[r] = R
                  \/ hooks[r] = R /\ hooks'[r] = RA
                  \/ hooks[r] = RA /\ hooks'[r] \in {RAP, RAH}
                  \/ hooks[r] = RAP /\ hooks'[r] = RAPH
      <4>1. Outcome(r) = "open" /\ Outcome(r)' = "open" /\ outcome' = outcome
        BY <3>2, <3>6 DEF Outcome, Closed, outcome
      <4>2. LastHook(r)' \in Contract!After(LastHook(r))
        BY <3>3, <3>6, LastOfTraces DEF Contract!After
      <4>3. Contract!Callback(r)
        BY <3>2, <4>1, <4>2 DEF Contract!Callback, stage, outcome
      <4>. QED  BY <4>3 DEF Contract!Next
    <3>7. CASE /\ pc[r] \notin Closed /\ pc'[r] = "answered"
               /\ hooks'[r] = hooks[r] /\ hooks[r] \in {R, RA, RAH, RAPH}
      <4>1. Outcome(r) = "open" /\ Outcome(r)' = "answered"
        BY <3>7 DEF Outcome, Closed
      <4>2. LastHook(r) \notin {"none", "Parsed"} /\ LastHook(r)' = LastHook(r) /\ stage' = stage
        BY <3>2, <3>3, <3>7, LastOfTraces DEF stage
      <4>3. Contract!Answer(r)
        BY <3>2, <4>1, <4>2 DEF Contract!Answer, stage, outcome
      <4>. QED  BY <4>3 DEF Contract!Next
    <3>8. CASE /\ pc[r] \notin Closed /\ pc'[r] = "panicked"
               /\ \/ hooks[r] = R /\ hooks'[r] = RA
                  \/ hooks[r] \in {RA, RAP} /\ hooks'[r] = hooks[r]
      <4>1. Outcome(r) = "open" /\ Outcome(r)' = "aborted"
        BY <3>8 DEF Outcome, Closed
      <4>2. LastHook(r) # "none" /\ LastHook(r)' \in {LastHook(r)} \cup Contract!After(LastHook(r))
        BY <3>3, <3>8, LastOfTraces DEF Contract!After
      <4>3. Contract!Abort(r)
        BY <3>2, <4>1, <4>2 DEF Contract!Abort, stage, outcome
      <4>. QED  BY <4>3 DEF Contract!Next
    <3>. QED  BY <3>4, <3>5, <3>6, <3>7, <3>8 DEF Shown
  <2>. QED  BY <2>2, <2>3
<1>. QED  BY <1>1, <1>2 DEF Next, Action

\* The generated handler implements the contract of the hook's interface: its
\* callbacks come in order, each at most once, and a parsed request is reported
\* handled before it is answered.
THEOREM KeepsContract == Spec => KeepsHookContract
BY ContractInit, Invariance, ContractStep, PTL DEF Spec, KeepsHookContract, Contract!Spec

-----------------------------------------------------------------------------
(* The latency of a request is reported once. *)

Serving == {"form", "load", "accept", "derive", "annotate", "read", "parse", "call", "await", "handle"}

\* Where the hook's context is kept: what was reported of request r.
MetricsInv(r) ==
  /\ pc[r] \in {"idle", "dispatch"} \cup Serving => metrics[r] = 0
  /\ pc[r] \in {"dispatch"} \cup Serving => ctx[r].values
  /\ pc[r] \in {"derive", "annotate", "read"} \cup Parsing => ctx[r].out # "none"
  /\ pc[r] \in {"reply", "answered", "panicked"} =>
       \/ hooks[r] \in {RAH, RAPH} /\ metrics[r] = 1
       \/ hooks[r] \notin {RAH, RAPH} /\ metrics[r] = 0
       \/ hooks[r] = RA /\ metrics[r] = 1 /\ failed[r]

MeasureInv == ~UseRequestContext /\ HookSet => \A r \in Req : MetricsInv(r)

\* The trace of a request before its report differs from the one after it.
LEMMA TracesDiffer ==
  /\ R \notin {RAH, RAPH} /\ RA \notin {RAH, RAPH} /\ RAP \notin {RAH, RAPH} /\ << >> \notin {RAH, RAPH}
<1>1. Len(<< >>) = 0 /\ Len(R) = 1 /\ Len(RA) = 2 /\ Len(RAP) = 3 /\ Len(RAH) = 3 /\ Len(RAPH) = 4
  BY DEF R, RA, RAP, RAH, RAPH
<1>2. RAP # RAH
  BY DEF RAP, RAH
<1>3. \A s, t : s = t => Len(s) = Len(t)
  OBVIOUS
<1>4. /\ Len(<< >>) # Len(RAH) /\ Len(<< >>) # Len(RAPH)
      /\ Len(R) # Len(RAH) /\ Len(R) # Len(RAPH)
      /\ Len(RA) # Len(RAH) /\ Len(RA) # Len(RAPH) /\ Len(RAP) # Len(RAPH)
  BY <1>1
<1>. QED  BY <1>2, <1>3, <1>4, Zenon

\* A request's own step.
LEMMA ActionMeasured ==
  ASSUME IInv, IInv', NEW r \in Req, Action(r), HookSet, ~UseRequestContext, MetricsInv(r)
  PROVE  MetricsInv(r)'
<1>. USE TracesDiffer DEF Goto, MetricsInv, Serving, Parsing
<1>1. TypeOK /\ HooksInv(r) /\ HeldInv(r) /\ HooksInv(r)' /\ TypeOK'
  BY DEF IInv, RInv
<1>2. CASE Receive(r)
  BY <1>1, <1>2 DEF Receive, NewContext, TypeOK
<1>3. CASE NotRouted(r) \/ Route(r)
  BY <1>1, <1>3 DEF NotRouted, Route, TypeOK, HooksInv
<1>4. CASE \E view \in Iface : Load(r, view)
  BY <1>1, <1>4 DEF Load, Fail, TypeOK, HooksInv
<1>5. CASE AcceptWithoutHook(r)
  BY <1>5 DEF AcceptWithoutHook
<1>6. CASE AcceptUnknownMethod(r)
  <2>1. pc[r] = "accept" /\ pc' = [pc EXCEPT ![r] = "panicked"] /\ CallHook(r, "Accepted") /\ metrics' = metrics
    BY <1>6 DEF AcceptUnknownMethod, Panic
  <2>2. hooks'[r] = RA
    BY <1>1, <2>1, CallbackRecorded, Extensions DEF HooksInv, Names
  <2>. QED  BY <1>1, <2>1, <2>2 DEF TypeOK
<1>7. CASE \E v \in Verdicts : Accept(r, v)
  <2>1. /\ pc[r] = "accept" /\ CallHook(r, "Accepted") /\ ctx'[r].values = ctx[r].values
        /\ ctx'[r].out # "none"
        /\ \/ pc' = [pc EXCEPT ![r] = "derive"] /\ metrics' = metrics
           \/ pc' = [pc EXCEPT ![r] = "reply"] /\ Measure(r) /\ failed' = [failed EXCEPT ![r] = TRUE]
           \/ pc' = [pc EXCEPT ![r] = "reply"] /\ metrics' = metrics
    <3>1. ctx' = [ctx EXCEPT ![r].out = "hook"]
      BY <1>7 DEF Accept
    <3>2. ctx'[r].values = ctx[r].values /\ ctx'[r].out # "none"
      BY <1>1, <3>1 DEF TypeOK, Context
    <3>. QED  BY <1>7, <3>2 DEF Accept, Fail
  <2>2. hooks'[r] = RA
    BY <1>1, <2>1, CallbackRecorded, Extensions DEF HooksInv, Names
  <2>3. metrics[r] = 0 /\ ctx[r].values
    BY <2>1
  <2>. QED  BY <1>1, <2>1, <2>2, <2>3 DEF TypeOK, Measure
<1>8. CASE Derive(r)
  BY <1>1, <1>8 DEF Derive, Panic, TypeOK, HooksInv
<1>9. CASE AnnotateFails(r)
  BY <1>1, <1>9 DEF AnnotateFails, Panic, TypeOK, HooksInv
<1>10. CASE \E t, m \in BOOLEAN : Annotate(r, t, m)
  BY <1>1, <1>10 DEF Annotate, TypeOK, Context
<1>11. CASE Parse(r)
  BY <1>1, <1>11 DEF Parse, TypeOK
<1>12. CASE \E f \in Reported(binding[r]) \cup Silent(binding[r]) : ParseFails(r, f)
  <2>1. /\ pc[r] = "parse" /\ pc' = [pc EXCEPT ![r] = "reply"]
        /\ RequestHandled(r) \/ UNCHANGED <<hooks, metrics>>
    BY <1>12 DEF ParseFails, Fail
  <2>2. metrics[r] = 0 /\ ctx[r].values /\ ctx[r].out # "none" /\ hooks[r] = RA
    BY <1>1, <2>1 DEF HeldInv, HooksInv
  <2>3. CASE RequestHandled(r)
    <3>1. hooks'[r] = RAH
      BY <1>1, <2>2, <2>3, CallbackRecorded, Extensions DEF RequestHandled, Names
    <3>2. metrics'[r] = 1
      BY <1>1, <2>2, <2>3 DEF RequestHandled, Measure, TypeOK
    <3>. QED  BY <1>1, <2>1, <3>1, <3>2 DEF TypeOK
  <2>4. CASE UNCHANGED <<hooks, metrics>>
    BY <1>1, <2>1, <2>2, <2>4 DEF TypeOK
  <2>. QED  BY <2>1, <2>3, <2>4
<1>13. CASE Call(r)
  BY <1>1, <1>13 DEF Call, Panic, TypeOK, HooksInv
<1>14. CASE GiveUp(r) \/ Backend(r)
  BY <1>1, <1>14 DEF GiveUp, Backend, Return, TypeOK
<1>15. CASE Handle(r)
  <2>1. pc[r] = "handle" /\ pc' = [pc EXCEPT ![r] = "reply"] /\ RequestHandled(r)
    BY <1>15 DEF Handle
  <2>2. metrics[r] = 0 /\ ctx[r].values /\ ctx[r].out # "none" /\ hooks[r] = RAP
    BY <1>1, <2>1 DEF HeldInv, HooksInv
  <2>3. hooks'[r] = RAPH
    BY <1>1, <2>1, <2>2, CallbackRecorded, Extensions DEF RequestHandled, Names
  <2>4. metrics'[r] = 1
    BY <1>1, <2>1, <2>2 DEF RequestHandled, Measure, TypeOK
  <2>. QED  BY <1>1, <2>1, <2>3, <2>4 DEF TypeOK
<1>16. CASE Reply(r)
  BY <1>1, <1>16 DEF Reply, TypeOK
<1>17. CASE SendBody(r) \/ Disconnect(r)
  BY <1>1, <1>17 DEF SendBody, Disconnect
<1>18. CASE ReadForm(r) \/ ReadBody(r) \/ ReadFormFails(r) \/ ReadBodyFails(r)
  BY <1>1, <1>18 DEF ReadForm, ReadBody, ReadFormFails, ReadBodyFails, Fail, TypeOK, HooksInv
<1>. QED  BY <1>2, <1>3, <1>4, <1>5, <1>6, <1>7, <1>8, <1>9, <1>10, <1>11, <1>12,
             <1>13, <1>14, <1>15, <1>16, <1>17, <1>18 DEF Action, Step

\* A step of another request measures nothing for this one.
LEMMA OthersUnmeasured ==
  ASSUME TypeOK, NEW r \in Req, NEW s \in Req \ {r}, Action(r)
  PROVE  metrics'[s] = metrics[s]
<1>1. Measure(r) => metrics'[s] = metrics[s]
  BY DEF Measure, TypeOK
<1>2. metrics' = metrics \/ Measure(r)
  BY DEF Action, Receive, NotRouted, Route, Load, AcceptWithoutHook, AcceptUnknownMethod, Accept, Derive,
         Annotate, AnnotateFails, Parse, ParseFails, RequestHandled, Call, GiveUp, Backend, Return, Handle,
         ReadForm, ReadFormFails, ReadBody, ReadBodyFails, Reply, SendBody, Disconnect, Step
<1>. QED  BY <1>1, <1>2

LEMMA MeasureStep == IInv /\ IInv' /\ MeasureInv /\ [Next]_handlerVars => MeasureInv'
<1>. SUFFICES ASSUME IInv, IInv', MeasureInv, [Next]_handlerVars PROVE MeasureInv'
  OBVIOUS
<1>1. CASE UNCHANGED handlerVars
  BY <1>1 DEF handlerVars, MeasureInv, MetricsInv, HookSet, UseRequestContext
<1>2. ASSUME NEW r \in Req, Action(r) PROVE MeasureInv'
  <2>1. flags' = flags /\ Others(r)
    BY <1>2, ActionInv
  <2>2. SUFFICES ASSUME HookSet, ~UseRequestContext, NEW s \in Req PROVE MetricsInv(s)'
    BY <2>1 DEF MeasureInv, HookSet, UseRequestContext
  <2>3. MetricsInv(s)
    BY <2>2 DEF MeasureInv
  <2>4. CASE s = r
    BY <1>2, <2>2, <2>3, <2>4, ActionMeasured
  <2>5. CASE s # r
    BY <1>2, <2>1, <2>2, <2>3, <2>5, OthersUnmeasured DEF MetricsInv, Others, IInv
  <2>. QED  BY <2>4, <2>5
<1>. QED  BY <1>1, <1>2 DEF Next, Action

LEMMA MeasureInit == Init => MeasureInv
BY DEF Init, MeasureInv, MetricsInv, Serving, Parsing

LEMMA MeasureImplies == IInv /\ MeasureInv => MeasuredOnce
<1>. SUFFICES ASSUME IInv, MeasureInv, ~UseRequestContext, HookSet, NEW r \in Req, pc[r] \in Closed
              PROVE  /\ Called(r, "Handled") => metrics[r] = 1
                     /\ ~Called(r, "Handled") =>
                          \/ metrics[r] = 0
                          \/ metrics[r] = 1 /\ failed[r] /\ LastHook(r) = "Accepted"
  BY DEF MeasuredOnce
<1>1. MetricsInv(r) /\ HooksInv(r)
  BY DEF MeasureInv, IInv, RInv
<1>2. hooks[r] \in {RAH, RAPH} <=> Called(r, "Handled")
  <2>1. hooks[r] \in {RAH, RAPH} => Called(r, "Handled")
    BY <1>1, TraceMembers DEF HooksInv
  <2>2. hooks[r] \in {<< >>, R, RA, RAP} => ~Called(r, "Handled")
    BY DEF Called, R, RA, RAP
  <2>. QED  BY <1>1, <2>1, <2>2 DEF HooksInv, Traces
<1>3. LastHook(r) = LastOf(hooks[r])
  BY DEF LastHook, LastOf
<1>. QED  BY <1>1, <1>2, <1>3, LastOfTraces DEF MetricsInv, Closed

\* Where the hook's context is kept, the latency of a request that was reported
\* handled is measured exactly once (RequestHandled of the hook), and otherwise at
\* most once and only for a header that RequestAccepted rejects.
THEOREM MeasuresOnce == Spec => []MeasuredOnce
BY MeasureInit, MeasureImplies, Invariance, MeasureStep, PTL DEF Spec
=============================================================================
