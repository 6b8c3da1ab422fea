--------------------------- MODULE RequestHandler ---------------------------
(***************************************************************************)
(* The life of one HTTP request in the gateway: ServeMux.ServeHTTP hands   *)
(* it to the handler that the template of protoc-gen-grpc-gateway          *)
(* generates for a unary binding, which calls the hook, derives a context, *)
(* parses the request, calls the backend and forwards the reply.           *)
(*                                                                         *)
(* Requests share nothing but the client variable of the service, which    *)
(* Load reads without a lock; its value is a parameter of Load, so that    *)
(* this module can be checked alone and composed with ServiceGroup.        *)
(***************************************************************************)
EXTENDS Naturals, Sequences

CONSTANTS
  Req,                \* HTTP requests
  Bindings,           \* the generated handlers a request may be routed to
  Conns,              \* backend connections; 0 is the nil pointer
  Deployments,        \* the ways the gateway may be built and started
  Kinds               \* the kinds of body a request may come with

\* What the template generates code for in a binding; listed says that
\* getMethod finds the method in the service's list.
Binding == [listed : BOOLEAN, body : BOOLEAN, mask : BOOLEAN, path : BOOLEAN,
            query : BOOLEAN, rule : BOOLEAN]

\* hookSet: SetGatewayServiceHook was called; debug: flag debug-mode, headers
\* are not verified; requestContext: generator flag request_context.
Deployment == [hookSet : BOOLEAN, debug : BOOLEAN, requestContext : BOOLEAN]

\* A Go interface value is two words; a torn read may mix two values.
Iface == [tab : {0, 1}, data : {0} \cup Conns]

ASSUME BindingsAssumption == Bindings \subseteq Binding
ASSUME ConnsAssumption == Conns \subseteq Nat \ {0}
\* Only a form (application/x-www-form-urlencoded) is read by ParseForm.
Kind == {"none", "plain", "form"}

\* How much of a body there is: its end has not come, has come, or was read.
Body == [kind : Kind, at : {"coming", "arrived", "read"}]
NewBody(kind) == [kind |-> kind, at |-> IF kind = "none" THEN "read" ELSE "coming"]

ASSUME DeploymentsAssumption == Deployments \subseteq Deployment
ASSUME KindsAssumption == Kinds \subseteq Kind

VARIABLES
  flags,    \* the deployment, fixed for the life of the process
  pc,       \* where the request's goroutine is
  binding,  \* the binding that the request's method and path select
  client,   \* the handler's local copy of the service's client
  ctx,      \* the current context
  cancel,   \* the deferred cancel function: none, pending or called
  failed,   \* the handler holds an error
  hooks,    \* history: the hook callbacks made, in order
  rpc,      \* none, sent, ok or error
  answers,  \* history: responses written to the ResponseWriter
  metrics,  \* history: latencies reported for the request
  gone,     \* the HTTP client has disconnected
  body      \* the body of the request, which its client may be slow to send

handlerVars == <<flags, pc, binding, client, ctx, cancel, failed, hooks, rpc, answers, metrics, gone, body>>

HookSet == flags.hookSet
DebugMode == flags.debug
UseRequestContext == flags.requestContext

\* values: the hook's trace id and start time; out: whose outgoing metadata;
\* deadline: a Grpc-Timeout header set one.
Context == [values : BOOLEAN, out : {"none", "hook", "annotated"},
            parent : {"none", "background", "request"}, deadline : BOOLEAN]

NewContext(values, parent) == [values |-> values, out |-> "none", parent |-> parent, deadline |-> FALSE]
NilContext == NewContext(FALSE, "none")
NilIface == [tab |-> 0, data |-> 0]

Open == {"dispatch", "form", "load", "accept", "derive", "annotate", "read", "parse", "call", "await",
         "handle", "reply"}
Closed == {"answered", "panicked"}

Init ==
  /\ flags \in Deployments
  /\ pc = [r \in Req |-> "idle"]
  /\ binding \in [Req -> Bindings]
  /\ client = [r \in Req |-> NilIface]
  /\ ctx = [r \in Req |-> NilContext]
  /\ cancel = [r \in Req |-> "none"]
  /\ failed = [r \in Req |-> FALSE]
  /\ hooks = [r \in Req |-> << >>]
  /\ rpc = [r \in Req |-> "none"]
  /\ answers = [r \in Req |-> 0]
  /\ metrics = [r \in Req |-> 0]
  /\ gone = [r \in Req |-> FALSE]
  /\ body \in { [r \in Req |-> NewBody(kinds[r])] : kinds \in [Req -> Kinds] }

-----------------------------------------------------------------------------
Goto(r, label) == pc' = [pc EXCEPT ![r] = label]

\* The runtime's forwarding functions call the hook only if one is set.
CallHook(r, name) == hooks' = IF HookSet THEN [hooks EXCEPT ![r] = Append(@, name)] ELSE hooks

\* return err: the caller answers with HTTPError.
Fail(r) == failed' = [failed EXCEPT ![r] = TRUE] /\ Goto(r, "reply")

\* The deferred cancel runs on every way out of the handler, a panic included.
Release(r) == cancel' = [cancel EXCEPT ![r] = IF @ = "pending" THEN "called" ELSE @]

\* Mutant: cancel() is the handler's last statement instead of a deferred call.
PanicLeaks(r) == Goto(r, "panicked") /\ UNCHANGED cancel

\* net/http recovers the goroutine's panic and closes the connection.
Panic(r) == Goto(r, "panicked") /\ Release(r)

\* A read to the end of the body returns when there is no more of it.  It fails
\* if the body is malformed or its client leaves in the middle of it; until one
\* of these happens it waits, for no timeout and no context ends it.
Read(r) == body[r].at # "coming" /\ body' = [body EXCEPT ![r].at = "read"]
ReadBreaks(r) == body[r].at = "arrived" \/ (body[r].at = "coming" /\ gone[r])

Measure(r) == metrics' = [metrics EXCEPT ![r] = @ + 1]

\* The hook's RequestHandled reports the latency only if the context it is
\* given still has the start time and outgoing metadata.
RequestHandled(r) ==
  /\ CallHook(r, "Handled")
  /\ IF HookSet /\ ctx[r].values /\ ctx[r].out # "none" THEN Measure(r) ELSE UNCHANGED metrics

-----------------------------------------------------------------------------
(* ServeHTTP. *)

Receive(r) ==
  /\ pc[r] = "idle"
  /\ Goto(r, "dispatch")
  /\ CallHook(r, "Received")
  /\ ctx' = [ctx EXCEPT ![r] = NewContext(HookSet, "background")]
  /\ UNCHANGED <<flags, binding, client, cancel, failed, rpc, answers, metrics, gone, body>>

\* No pattern matches: the routing error handler answers.
NotRouted(r) ==
  /\ pc[r] = "dispatch"
  /\ failed' = [failed EXCEPT ![r] = TRUE]
  /\ answers' = [answers EXCEPT ![r] = @ + 1]
  /\ Goto(r, "answered")
  /\ UNCHANGED <<flags, binding, client, ctx, cancel, hooks, rpc, metrics, gone, body>>

\* The handler is called at once, or, for a form that comes by POST, behind the
\* ParseForm of the fallback to another method.
Route(r) ==
  /\ pc[r] = "dispatch"
  /\ \/ Goto(r, "load")
     \/ body[r].kind = "form" /\ Goto(r, "form")
  /\ UNCHANGED <<flags, binding, client, ctx, cancel, failed, hooks, rpc, answers, metrics, gone, body>>

ReadForm(r) ==
  /\ pc[r] = "form"
  /\ Read(r)
  /\ Goto(r, "load")
  /\ UNCHANGED <<flags, binding, client, ctx, cancel, failed, hooks, rpc, answers, metrics, gone>>

\* ParseForm's error is answered by ServeHTTP itself.
ReadFormFails(r) ==
  /\ pc[r] = "form" /\ ReadBreaks(r)
  /\ failed' = [failed EXCEPT ![r] = TRUE]
  /\ answers' = [answers EXCEPT ![r] = @ + 1]
  /\ Goto(r, "answered")
  /\ UNCHANGED <<flags, binding, client, ctx, cancel, hooks, rpc, metrics, gone, body>>

-----------------------------------------------------------------------------
(* The generated handler. *)

\* Mutant: the nil check is left to the client.
LoadUnchecked(r, view) ==
  /\ pc[r] = "load"
  /\ client' = [client EXCEPT ![r] = view]
  /\ Goto(r, "accept")
  /\ UNCHANGED <<flags, binding, ctx, cancel, failed, hooks, rpc, answers, metrics, gone, body>>

\* client == nil looks at the first word only.
Load(r, view) ==
  /\ pc[r] = "load"
  /\ client' = [client EXCEPT ![r] = view]
  /\ \/ view.tab = 0 /\ Fail(r)
     \/ view.tab # 0 /\ Goto(r, "accept") /\ UNCHANGED failed
  /\ UNCHANGED <<flags, binding, ctx, cancel, hooks, rpc, answers, metrics, gone, body>>

\* Without a hook RequestAccepted returns a nil context.
AcceptWithoutHook(r) ==
  /\ pc[r] = "accept" /\ ~HookSet
  /\ ctx' = [ctx EXCEPT ![r] = NilContext]
  /\ Goto(r, "derive")
  /\ UNCHANGED <<flags, binding, client, cancel, failed, hooks, rpc, answers, metrics, gone, body>>

\* getMethod returned nil and the hook reads a field of the method.
AcceptUnknownMethod(r) ==
  /\ pc[r] = "accept" /\ HookSet
  /\ ~binding[r].listed
  /\ Panic(r)
  /\ CallHook(r, "Accepted")
  /\ UNCHANGED <<flags, binding, client, ctx, failed, rpc, answers, metrics, gone, body>>

\* What verifyHeader may find: nothing, a header that is missing or unknown, or
\* the third-party source on a method that is not for it, which goes unmeasured.
Verdicts == {"passed", "bad header", "third party"}

Accept(r, verdict) ==
  /\ pc[r] = "accept" /\ HookSet
  /\ binding[r].listed
  /\ CallHook(r, "Accepted")
  /\ ctx' = [ctx EXCEPT ![r].out = "hook"]
  /\ \/ verdict = "passed" /\ Goto(r, "derive") /\ UNCHANGED <<failed, metrics>>
     \/ verdict = "bad header" /\ ~DebugMode /\ Fail(r) /\ Measure(r)
     \/ verdict = "third party" /\ ~DebugMode /\ Fail(r) /\ UNCHANGED metrics
  /\ UNCHANGED <<flags, binding, client, cancel, rpc, answers, gone, body>>

\* Mutant: the context is derived from the background context.
DeriveFresh(r) ==
  /\ pc[r] = "derive"
  /\ ctx' = [ctx EXCEPT ![r] = NewContext(FALSE, "background")]
  /\ Goto(r, "annotate") /\ cancel' = [cancel EXCEPT ![r] = "pending"]
  /\ UNCHANGED <<flags, binding, client, failed, hooks, rpc, answers, metrics, gone, body>>

\* ctx, cancel := context.WithCancel(...): the parent is either the HTTP
\* request's context or the one RequestAccepted returned.
Derive(r) ==
  /\ pc[r] = "derive"
  /\ IF UseRequestContext
     THEN ctx' = [ctx EXCEPT ![r] = NewContext(FALSE, "request")]
     ELSE UNCHANGED ctx
  /\ \/ ctx'[r].parent = "none" /\ Panic(r)
     \/ /\ ctx'[r].parent # "none"
        /\ Goto(r, "annotate") /\ cancel' = [cancel EXCEPT ![r] = "pending"]
  /\ UNCHANGED <<flags, binding, client, failed, hooks, rpc, answers, metrics, gone, body>>

\* NewOutgoingContext replaces the outgoing metadata of the context; if there is
\* no metadata to send, neither header nor host nor address, the context keeps
\* what it has.
Annotate(r, timeout, metadata) ==
  /\ pc[r] = "annotate"
  /\ ctx' = [ctx EXCEPT ![r].out = IF metadata THEN "annotated" ELSE @, ![r].deadline = timeout]
  /\ Goto(r, IF binding[r].body THEN "read" ELSE "parse")
  /\ UNCHANGED <<flags, binding, client, cancel, failed, hooks, rpc, answers, metrics, gone, body>>

\* A bad Grpc-Timeout or -Bin header: AnnotateContext returns a nil context,
\* and the error handler that is to answer reads a value from it.
AnnotateFails(r) ==
  /\ pc[r] = "annotate"
  /\ ctx' = [ctx EXCEPT ![r] = NilContext]
  /\ Panic(r)
  /\ UNCHANGED <<flags, binding, client, failed, hooks, rpc, answers, metrics, gone, body>>

-----------------------------------------------------------------------------
(* The generated request function. *)

\* IOReaderFactory reads the body to its end.
ReadBody(r) ==
  /\ pc[r] = "read"
  /\ Read(r)
  /\ Goto(r, "parse")
  /\ UNCHANGED <<flags, binding, client, ctx, cancel, failed, hooks, rpc, answers, metrics, gone>>

ReadBodyFails(r) ==
  /\ pc[r] = "read" /\ ReadBreaks(r)
  /\ Fail(r)
  /\ UNCHANGED <<flags, binding, client, ctx, cancel, hooks, rpc, answers, metrics, gone, body>>

\* The ways parsing can fail in a binding, with and without a RequestHandled.
\* (A path parameter that is missing would be reported too, but a pattern that
\* matched binds every variable: AllVarsBound of PatternVM.)
Reported(b) == (IF b.body THEN {"decode"} ELSE {}) \cup (IF b.rule THEN {"validate"} ELSE {})
Silent(b) ==
  (IF b.body /\ b.mask THEN {"mask"} ELSE {})
    \cup (IF b.path THEN {"convert"} ELSE {}) \cup (IF b.query THEN {"query"} ELSE {})

\* ParseForm reads a form that the binding itself has not read.
ParseForm(r) == IF binding[r].query /\ body[r].kind = "form" THEN Read(r) ELSE UNCHANGED body
FormBreaks(r) == body[r].kind = "form" /\ ReadBreaks(r) /\ UNCHANGED body

\* Mutant: RequestParsed is called before the path and query are converted.
ParseFailsLate(r, reason) ==
  /\ pc[r] = "parse"
  /\ reason \in Reported(binding[r]) \cup Silent(binding[r])
  /\ CallHook(r, "Parsed")
  /\ Fail(r)
  /\ UNCHANGED <<flags, binding, client, ctx, cancel, rpc, answers, metrics, gone, body>>

ParseFails(r, reason) ==
  /\ pc[r] = "parse"
  /\ \/ reason \in Reported(binding[r]) /\ RequestHandled(r)
     \/ reason \in Silent(binding[r]) /\ UNCHANGED <<hooks, metrics>>
  /\ CASE reason = "query"    -> ParseForm(r) \/ FormBreaks(r)
       [] reason = "validate" -> ParseForm(r)
       [] OTHER               -> UNCHANGED body
  /\ Fail(r)
  /\ UNCHANGED <<flags, binding, client, ctx, cancel, rpc, answers, gone>>

Parse(r) ==
  /\ pc[r] = "parse"
  /\ ParseForm(r)
  /\ CallHook(r, "Parsed")
  /\ Goto(r, "call")
  /\ UNCHANGED <<flags, binding, client, ctx, cancel, failed, rpc, answers, metrics, gone>>

\* The method of a client whose second word is nil dereferences it.
Call(r) ==
  /\ pc[r] = "call"
  /\ \/ client[r].data = 0 /\ Panic(r) /\ UNCHANGED rpc
     \/ /\ client[r].data # 0
        /\ rpc' = [rpc EXCEPT ![r] = "sent"] /\ Goto(r, "await") /\ UNCHANGED cancel
  /\ UNCHANGED <<flags, binding, client, ctx, failed, hooks, answers, metrics, gone, body>>

\* Mutant: a call that failed is made again.
ReturnRetries(r, status) ==
  /\ pc[r] = "await"
  /\ rpc' = [rpc EXCEPT ![r] = status]
  /\ Goto(r, IF status = "error" THEN "call" ELSE "handle")
  /\ UNCHANGED <<flags, binding, client, ctx, cancel, failed, hooks, answers, metrics, gone, body>>

\* The backend answers, or its connection fails.
Return(r, status) ==
  /\ pc[r] = "await"
  /\ rpc' = [rpc EXCEPT ![r] = status]
  /\ failed' = [failed EXCEPT ![r] = (status = "error")]
  /\ Goto(r, "handle")
  /\ UNCHANGED <<flags, binding, client, ctx, cancel, hooks, answers, metrics, gone, body>>

\* Mutant: the call is made under a context without the request's.
GiveUpAtDeadline(r) ==
  /\ ctx[r].deadline
  /\ Return(r, "error")

\* gRPC gives up a call whose context is done: its deadline has passed, or the
\* HTTP client has left, which only the request's own context tells, and over
\* HTTP/1 only when there is no unread body in the way.
GiveUp(r) ==
  /\ ctx[r].deadline \/ (gone[r] /\ ctx[r].parent = "request" /\ body[r].at = "read")
  /\ Return(r, "error")

Handle(r) ==
  /\ pc[r] = "handle"
  /\ RequestHandled(r)
  /\ Goto(r, "reply")
  /\ UNCHANGED <<flags, binding, client, ctx, cancel, failed, rpc, answers, gone, body>>

\* Mutant: HTTPError is not followed by a return.
ReplyFallsThrough(r) ==
  /\ pc[r] = "reply"
  /\ answers' = [answers EXCEPT ![r] = @ + 1]
  /\ failed' = [failed EXCEPT ![r] = FALSE]
  /\ IF failed[r] THEN UNCHANGED <<pc, cancel>> ELSE Goto(r, "answered") /\ Release(r)
  /\ UNCHANGED <<flags, binding, client, ctx, hooks, rpc, metrics, gone, body>>

\* HTTPError or ForwardResponseMessage writes one response, whatever fails in
\* it, and the handler returns.
Reply(r) ==
  /\ pc[r] = "reply"
  /\ answers' = [answers EXCEPT ![r] = @ + 1]
  /\ Goto(r, "answered") /\ Release(r)
  /\ UNCHANGED <<flags, binding, client, ctx, failed, hooks, rpc, metrics, gone, body>>

\* The client sends its body to the end, whenever it likes.
SendBody(r) ==
  /\ pc[r] \in Open /\ ~gone[r] /\ body[r].at = "coming"
  /\ body' = [body EXCEPT ![r].at = "arrived"]
  /\ UNCHANGED <<flags, pc, binding, client, ctx, cancel, failed, hooks, rpc, answers, metrics, gone>>

Disconnect(r) ==
  /\ pc[r] \in Open /\ ~gone[r]
  /\ gone' = [gone EXCEPT ![r] = TRUE]
  /\ UNCHANGED <<flags, pc, binding, client, ctx, cancel, failed, hooks, rpc, answers, metrics, body>>

-----------------------------------------------------------------------------
\* The steps of the gateway's own goroutine, but for Load and Reply.
Step(r) ==
  \/ NotRouted(r) \/ Route(r) \/ ReadForm(r) \/ ReadFormFails(r)
  \/ AcceptWithoutHook(r) \/ AcceptUnknownMethod(r) \/ \E v \in Verdicts : Accept(r, v)
  \/ Derive(r) \/ \E t, m \in BOOLEAN : Annotate(r, t, m) \/ AnnotateFails(r)
  \/ ReadBody(r) \/ ReadBodyFails(r)
  \/ Parse(r) \/ \E f \in Reported(binding[r]) \cup Silent(binding[r]) : ParseFails(r, f)
  \/ Call(r) \/ GiveUp(r) \/ Handle(r)

Backend(r) == \E status \in {"ok", "error"} : Return(r, status)

Next ==
  \E r \in Req :
    \/ Receive(r) \/ Step(r) \/ Reply(r) \/ Backend(r) \/ SendBody(r) \/ Disconnect(r)
    \/ \E view \in Iface : Load(r, view)

\* A goroutine that can run is scheduled; one that reads a body or makes a call
\* can run when what it waits for is there.  A write waits for a client that
\* does not take the answer, and fails at once for one that has left.
\* Nothing is assumed of the backend and of the client.
Running ==
  \A r \in Req : WF_handlerVars(Step(r) \/ (gone[r] /\ Reply(r)) \/ \E view \in Iface : Load(r, view))

Spec == Init /\ [][Next]_handlerVars /\ Running

\* The backend, or the transport on its behalf, ends every call.
BackendAnswers == \A r \in Req : WF_handlerVars(Backend(r))

\* A client that stays sends the whole of its body, and takes its answer.
ClientKeepsUp == \A r \in Req : WF_handlerVars(SendBody(r)) /\ WF_handlerVars(Reply(r))

-----------------------------------------------------------------------------
(* Properties. *)

TypeOK ==
  /\ flags \in Deployments
  /\ pc \in [Req -> {"idle"} \cup Open \cup Closed]
  /\ binding \in [Req -> Bindings]
  /\ client \in [Req -> Iface]
  /\ ctx \in [Req -> Context]
  /\ cancel \in [Req -> {"none", "pending", "called"}]
  /\ failed \in [Req -> BOOLEAN]
  /\ hooks \in [Req -> Seq({"Received", "Accepted", "Parsed", "Handled"})]
  /\ rpc \in [Req -> {"none", "sent", "ok", "error"}]
  /\ answers \in [Req -> Nat] /\ metrics \in [Req -> Nat]
  /\ gone \in [Req -> BOOLEAN]
  /\ body \in [Req -> Body]

LastHook(r) == IF hooks[r] = << >> THEN "none" ELSE hooks[r][Len(hooks[r])]
Called(r, name) == \E k \in DOMAIN hooks[r] : hooks[r][k] = name

\* Every way through the handler, early returns and panics included, ends in
\* one response or, after a panic, in none; and the response tells of a
\* success only if the backend did.
OneAnswer ==
  \A r \in Req :
    /\ answers[r] = IF pc[r] = "answered" THEN 1 ELSE 0
    /\ pc[r] = "answered" /\ ~failed[r] => rpc[r] = "ok"

\* A call reaches the backend only for a request that the hook accepted, whose
\* body, where the binding has one, was read to its end and whose payload was
\* parsed, over a client that exists, under a context derived for it and not
\* yet cancelled.
CallGuarded ==
  \A r \in Req : rpc[r] # "none" =>
    /\ HookSet => Called(r, "Accepted") /\ Called(r, "Parsed") /\ binding[r].listed
    /\ client[r].tab = 1 /\ client[r].data # 0
    /\ binding[r].body => body[r].at = "read"
    /\ ctx[r].parent # "none"
    /\ rpc[r] = "sent" => cancel[r] = "pending"

\* RequestHandled is called once for each request whose call reached the
\* backend, before its answer leaves, and never twice for any request.
HandledOnce ==
  \A r \in Req :
    /\ \A j, k \in DOMAIN hooks[r] : hooks[r][j] = "Handled" /\ hooks[r][k] = "Handled" => j = k
    /\ HookSet /\ pc[r] \in Closed /\ rpc[r] # "none" => Called(r, "Handled")

\* The derived context is cancelled on every way out of the handler, so that
\* no call, timer or goroutine hanging on it outlives the request.
ContextReleased == \A r \in Req : pc[r] \in Closed => cancel[r] # "pending"

\* Where the hook's context is kept, a request is measured exactly once if it
\* was reported handled, at most once otherwise, and then only for a rejection.
MeasuredOnce ==
  ~UseRequestContext /\ HookSet =>
    \A r \in Req : pc[r] \in Closed =>
      /\ Called(r, "Handled") => metrics[r] = 1
      /\ ~Called(r, "Handled") =>
           \/ metrics[r] = 0
           \/ metrics[r] = 1 /\ failed[r] /\ LastHook(r) = "Accepted"

\* Over a backend whose calls end, every request whose client sends its body
\* and takes its answer, or leaves, is answered, or its goroutine panics:
\* whatever the handler waits for, it waits for nothing else.
EventuallyClosed ==
  BackendAnswers /\ ClientKeepsUp => \A r \in Req : pc[r] \in Open ~> pc[r] \in Closed

\* The binding reads the body, if there is one.
Drains(r) ==
  \/ body[r].kind = "none"
  \/ binding[r].body
  \/ body[r].kind = "form" /\ binding[r].query

\* Even if the backend never answers, a call returns once its deadline passes;
\* and with the request's context as the parent, a request whose client goes
\* away is closed wherever that happens, in the middle of its body included, if
\* its binding reads the body.
Released ==
  \A r \in Req :
    /\ pc[r] = "await" /\ ctx[r].deadline ~> pc[r] = "reply"
    /\ UseRequestContext /\ gone[r] /\ Drains(r) ~> pc[r] \in Closed

Outcome(r) ==
  CASE pc[r] = "answered" -> "answered"
    [] pc[r] = "panicked" -> "aborted"
    [] OTHER -> "open"

\* Without a hook there is no one to keep the contract with.
Contract ==
  INSTANCE HookContract WITH
    stage <- [r \in Req |-> IF HookSet THEN LastHook(r) ELSE "none"],
    outcome <- [r \in Req |-> IF HookSet THEN Outcome(r) ELSE "open"]

\* The generated handler makes the hook's callbacks in the order the interface
\* promises, each at most once, and answers no parsed request that has not been
\* reported handled.
KeepsHookContract == Contract!Spec
=============================================================================
