# Verification of ingress-gateway

TLA+ modules, TLC configurations and TLAPS proofs for the gateway in this
repository (`janus-gateway`): an HTTP server that translates requests to gRPC
calls with handlers generated by `protoc-gen-grpc-gateway`, finds its backends
through skylb, and calls a hook around every request. The handlers, and an OpenAPI
document that describes them, are generated by two protoc plug-ins of the same
repository, which are modelled too.

`tlc -config X.cfg M` checks a configuration; `tlapm M_proof.tla` checks the
proofs about `M`, which is one of `PatternVM`, `Routing`, `RequestHandler`, `Gateway`
(with `ServiceGroup`), `Registry` (with `Descriptors` and `Generator`), `Streaming`,
`Logging` (with `Verbosity`) and `Decoding`.
`PROJECT.json` lists the runs, the source lines behind every definition, the hazards
and the theorems. Paths below are relative to `src/`.

## 1. The system

| part | source | state it keeps | operations | works with |
|---|---|---|---|---|
| path patterns | `gateway/runtime/pattern.go` | a verified op list, its pool, variables, stack size, tail length | `NewPattern`, `MatchAndEscape` | multiplexer; op codes from the external `httprule` compiler |
| multiplexer | `gateway/runtime/mux.go` | handlers per HTTP method | `Handle`, `HandlePath`, `ServeHTTP` | patterns, handlers, hook |
| generated handlers | `.../gengateway/template.go` 508-631, 908-978 | per request: client, context, cancel function, error | the handler and request function of each binding | multiplexer, hook, service client, backend |
| service groups | `.../gengateway/template.go` 996-1068 | one client variable per service, one skylb client per group | `Enable_…`, `Disable_…`, skylb's callback | handlers (shared client variable), skylb |
| registry | `gateway/runtime/service.go` | groups, their services, their methods, enable functions | `AddService`, `AddMethod`, `GetServiceGroup` | init functions, hook |
| hook interface | `gateway/runtime/hook.go` | the hook | `SetGatewayServiceHook`, four forwarding functions | handlers, gateway hook |
| gateway hook | `integrate/hook.go`, `hookexternal.go` | none of its own; it fills contexts and filters the registry | `Bootstrap`, `RequestReceived` … `RequestHandled` | registry, mux, metrics, logs |
| request context | `gateway/runtime/context.go` | outgoing metadata, deadline | `AnnotateContext` | handlers |
| response forwarding | `gateway/runtime/handler.go`, `errors.go` | header written or not | `ForwardResponseMessage`, `ForwardResponseStream`, `HTTPError` | handlers |
| request decoding | `gateway/runtime/query.go`, `fieldmask.go`, `convert.go` | none | `PopulateQueryParameters`, `FieldMaskFromRequestBody` | request functions |
| middleware | `integrate/gzip.go`, `cors.go`, `middleware.go` | a recorded response | `ServeHTTP` | multiplexer |
| logging | `util/glog`, `util/log.go` | files, buffers, verbosity | `output`, `flushDaemon`, rotation | everything |
| descriptor registry | `gateway/internal/descriptor` | files, messages, aliases of Go packages, external rules, services with their bindings | `LoadFromPlugin`, `LookupMsg`, `ReserveGoPackageAlias`, `UnboundExternalHTTPRules` | both generators |
| gateway generator | `protoc-gen-grpc-gateway` | annotations seen, the memory of `HasRule` | `New`, `Generate` | registry, templates |
| OpenAPI generator | `protoc-gen-openapiv2` | paths, references, definitions of a document | `Generate`, `renderServices`, `addCustomRefs` | registry |
| example | `examples/internal/proto/examplepb` | the checked-in outputs of both | | the example gateway is built with it |

What is hard in it:

* **Concurrency.** The lock around the client variables is commented out in the
  template (lines 917-919, 997-998, 1013-1014). Requests read an interface
  variable, two words wide, while skylb's callback and `Disable` store it.
* **Trust between phases.** `NewPattern` verifies op lists once;
  `MatchAndEscape` then slices and indexes without tests on every request.
* **Shared scratch state.** One list of components and one verb serve all
  handlers `ServeHTTP` tries, and handlers that do not match have rewritten it.
* **Early returns.** A handler can stop at some dozen places, three of them
  panics; each must answer once, cancel its context, and keep the order of the
  hook's callbacks.
* **Contexts.** Three parties put values, metadata and a deadline into contexts
  that the next one may replace.
* **Streams.** A handler sends, receives and forwards while its client may leave
  and its backend may end, on two goroutines if the method is bidirectional.
* **Logging.** Goroutines share buffers, files that rotate under them, and flags
  that change; a fatal line must end the process whatever the others hold.
* **Two generators, one meaning.** What one generates as code the other
  documents; both share a registry that is filled in the order of a map
  iteration, and memories that depend on who asked first.
* **Orders nobody fixes.** Init functions, map iterations, skylb's callbacks.

What makes each part correct: the verifier accepts only what the matcher can
run, and a match binds what the template says; the search finds the first
handler that matches the request, independently of those it passed over; every
request is answered once, calls the backend only when accepted and parsed, and
releases what it holds; a service once served stays served until it is
disabled; the registry holds exactly this gateway's methods and routes them all;
a backend is called with the message, metadata and deadline the request asks
for; a client of a stream is told what happened to it; a log line is in each of
its files once; generated code imports what it names, validates what has rules
and serves what was declared; a document has an operation for each handler, and
neither parameters nor references that lead nowhere.

## 2. Modules

| module | models | checked by |
|---|---|---|
| `PatternVM` | `NewPattern`, one action per `case`, then `MatchAndEscape`, one action per op | `MCPatternVM`, `PatternVM_proof` |
| `PathTemplate` | what a path template means, without op codes (abstract) | used by `PatternTemplates` and `Routing` |
| `PatternTemplates` | `PatternVM` against the templates its op lists are compiled from | `MCPatternVM`, `PatternVM_proof` |
| `Routing` | `ServeHTTP`: entry, one iteration of each of its two loops, the exits | `MCRouting` |
| `HookContract` | what the hook interface promises (abstract) | implemented by `RequestHandler` |
| `RequestHandler` | one request from `ServeHTTP` to its reply through the generated unary handler and the hook | `MCRequestHandler` |
| `ServiceGroup` | `Enable`, `Disable` and the callback of a generated group | `MCGateway` |
| `Gateway` | `RequestHandler` and `ServiceGroup` over the shared client variables | `MCGateway` |
| `Registry` | `AddService`, `AddMethod`, `Handle`, `Bootstrap` | `MCRegistry` |
| `Streaming` | a request of a streaming binding, the recorder of the gzip middleware, gRPC stream and client (external) | `MCStreaming` |
| `Decoding` | a unary request by value: hook's check, metadata, deadline, body, field mask, path parameters, query, rules, balancing key | `MCDecoding` |
| `Verbosity` | `V`, `-v`, `-vmodule` and the cache of levels | `MCLogging` |
| `Logging` | `output`, files, rotation, flushing and exits of `glog`, composed with `Verbosity` | `MCLogging` |
| `Descriptors` | what both plug-ins load | `MCPlugins` |
| `Generator` | `protoc-gen-grpc-gateway` | `MCPlugins` |
| `OpenAPI` | `protoc-gen-openapiv2` | `MCPlugins` |
| `Plugins` | both plug-ins on one request | `MCPlugins` |
| `Echo` | `echo_service.proto` and what is checked in for it | `MCPlugins` |
| `PatternVM_proof` | theorems about `PatternVM` and `PatternTemplates` | TLAPS |
| `RequestHandler_proof` | theorems about `RequestHandler`, the refinement of `HookContract` among them | TLAPS |
| `Routing_proof` | theorems about `Routing`: what the search finds | TLAPS |
| `Gateway_proof` | theorems about `ServiceGroup` and `Gateway`; that `Gateway` refines `RequestHandler`, and what it inherits | TLAPS |
| `Registry_proof` | theorems about `Registry`, about the names of Go packages in `Descriptors`, and about the imports in `Generator` | TLAPS |
| `Streaming_proof` | theorems about `Streaming`: what client and backend are told | TLAPS |
| `Logging_proof` | theorems about the mutex and the logs of `Logging`, and the settings of `Verbosity` | TLAPS |
| `Decoding_proof` | theorems about `Decoding`: the outgoing call and the field mask | TLAPS |

### PatternVM and PathTemplate

`phase`, `i` and `ip` are the two loops; `prog`, `depth`, `maxstack`, `tailLen`,
`pushMSeen` and `vars` are the locals of `NewPattern` (`stack` there is a depth
and is called `depth` here); `pos`, `stack` and `captured` are those of
`MatchAndEscape`. `note` is a history variable: the verifier's state at each
kept op, which only the proofs read. A component is the list of its
':'-separated tokens. A string on the matcher's stack is the set of its
'/'-separated pieces, labelled with where they come from, so that a property can
tell which components a variable got. Unescaping is a pair of constants, tables
from token to token or `Malformed`, one for single segments and one for `**`:
the proofs hold for every such table, hence for every unescaping mode.

`PathTemplate` says which components each atom of a template stands for, which
atom objects first, and what a variable captures; `Compile` is the external
compiler's output for a template. `Routing` uses `Matches` of this module for a
pattern; that the machine decides the same is `ResultMatchesTemplate` of
`PatternTemplates`, checked by the run `pattern` and proved.

### Routing

`components`, `verb`, `method`, `next` are `ServeHTTP`'s locals and `r.Method`;
`other` and `left` are the map iteration of the fallback. `answers` records
what was written, in order: reports of malformed escapes (`Report`), behind each of which
the search goes on, and its outcome. `Split` is the suffix test and the in-place rewriting of lines
362-376. `SplitsOnce` says of the constants that no path is split twice, or in two
ways, by the verbs of one method.

### RequestHandler and HookContract

`pc` follows the handler: `dispatch` (routing), `load` (client read and nil
check), `accept`, `derive` (`context.WithCancel`), `annotate`, `read` (the body, to its end),
`parse`, `call`, `await`, `handle` (`RequestHandled`), `reply`; `form` is the `ParseForm` of
the fallback. `body` is how much of the body there is, which its client sends when it
likes (`SendBody`) or not at all: a read waits for it. `flags` is the deployment: hook
set or not, `-debug-mode`, the generator's `request_context`. `ctx` keeps what the
properties tell apart of a context: the hook's values, whose outgoing metadata
it carries, its parent, a deadline. A binding says which parsing steps the
template generates. `hooks`, `answers` and `metrics` are histories. A panic ends
the request as `net/http` ends it: deferred calls run, nothing is answered.
verifyHeader gives one of three verdicts, because one of its rejections
(third-party source, line 172) returns before the metrics.

`HookContract` is the contract: callbacks in order, each at most once, no answer
between `RequestParsed` and `RequestHandled`. `KeepsHookContract` is the
refinement, with the last callback and the outcome of a request as the mapping.

### ServiceGroup and Gateway

`mem` holds the client variables and the skylb client variable, each a pair of
words. `script` is what the controlling goroutines of a process call, fixed at
its start. An assignment puts two word stores into `pending`; `Commit` makes one
visible, in either order, because the code has no synchronisation. `step`, `at`
and `todo` are the goroutines' positions, `cli` and `calls` the external skylb
clients. skylb is outside the repository: it is assumed to call back on its own
goroutine, with the group's endpoints, any number of times after `Start`, and
`Shutdown` is not assumed to wait for a callback under way.

`Gateway` instantiates both modules: a request's `Load` reads the variable of its
service as it stands, half stored if so; a call on a connection whose skylb
client was shut down fails.

### Registry

`apis` is the generated program. `Register` begins a service; `Bind` is what its
generated function does for one binding, counted by `bound`: `AddMethod` appends
the `Method` object, `Handle` puts the handler before those already in the mux.
Both are known by service and position (`EntryOf`). `Filter` is one round of
the loop that deletes other gateways' methods; `Enable` is `go sg.Enable()`.
Init functions and both map iterations run in any order.

### Streaming

`pc` is the handler, `sender` the goroutine a bidirectional request function
starts. Messages keep their order in a gRPC stream, so each queue is the
difference of two counters: `decoded`, `sent`, `received`, `replied`, `taken`.
`setup` is the request and its deployment: kind of stream, length of the body and
how it ends, gzip, `request_context`, deadline, whether encodings may fail, whether the
client leaves, and whether client and backend take turns. Where encodings may fail, sends, the
closing of the backend's stream and the response's options may too. `resp` is what the
handler wrote, `wire` what the client got: with gzip the recorder stands between
them. The label `forward` is the entry of `ForwardResponseStream`, which refuses a writer
that cannot flush, metadata that is missing, and options that fail. Backend, client and the HTTP/2 server are external; without HTTP/2 a
body is not readable once the answer has begun, and bidirectional bindings do
not work at all.

### Decoding

`RequestHandler` takes a step of parsing as one that succeeds or fails; here it is
taken by value. A message is a function from paths of fields to values, a body is
a tree, a text one of a few tokens that the conversions tell apart (`PathValue`
for the generated conversions, base 0; the table of the query, base 10). `walk` is
`populateFieldValueFromPath`, one name of the path per step; a query string that
`ParseForm` refuses is `queryBad`. Durations have
`Wide` values on each side of zero in place of 2^63. `MaskReference` is what a mask
should be, said of the tree at once (`SetFields`) and not level by level.

### Verbosity and Logging

Each goroutine has a script of calls. `mu` is the logging mutex; `V` reads the
verbosity and the filter's length before taking it, as the code does. `inEffect`
and `seen` are histories of the settings; a setting carries the number of those
before it, because setting a flag to the value it has turns `V` off for a moment
all the same. Levels are not negative. In `Logging`, `buf`, `content` and
`freeList` are the buffers and their list, `file` the `syncBuffer`s (bytes not yet
flushed, size, day or second of opening, and `bufio.Writer`'s error, behind which nothing
is written any more), `disk` the files. With `faults` any write, flush or `Sync` may fail:
a write ends the process, what `flushAll` meets is ignored. There are `flusher`, the goroutine
of `timeoutFlush`, and `noStacks`, `logExit` and `exited` the ways a process ends. A
line is named after its call, so that one that is lost, doubled or overwritten in
a shared buffer is seen.

### Descriptors, Generator, OpenAPI, Plugins and Echo

`req` is what protoc asks: files, targets, external configuration, flags.
`Descriptors` loads it step by step: configured rules, files in any order (that of a
map iteration), services of targets in any order, the check for unbound rules.
Operators that may fail return the set of their results, which is empty then.
`Generator` generates target after target; a binding's code is the list of its
steps (decode the body, apply the mask, assign or populate a parameter, read the
query, validate, call the hook, call the backend), whose effect in a request is
the subject of `RequestHandler`, `Streaming` and `Decoding`. Patterns are compiled
with `Compile` of `PathTemplate`. `OpenAPI` renders binding after binding and then
the definitions; `paths`, `requestRefs` and `customRefs` are the code's accumulators.
`Plugins` runs both on one request and compares them. `Echo` holds the example's
proto file as a request and, as its reference, the checked-in `.pb.gw.go` and
`.swagger.json`: `EchoReproduced` says that generating anew yields them.

## 3. Runs

| run | question | bounds | result |
|---|---|---|---|
| `pattern` | can what is accepted be run? does a compiled template decide and bind as it says? | all lists of at most 4 ops over operands -1..3, and 18 templates; paths of at most 3 components, plain, escaped or malformed | holds |
| `routing` | does the search find the first match, have one outcome, and end? | 2 GET handlers, 1 POST handler, 7 paths with at most one ':' at the end, forms and overrides | holds |
| `request` | one answer, guarded call, order of callbacks, release, measurement, closing | 1 request (requests share nothing here), 4 bindings, 3 kinds of body (none, one, a form), 8 deployments | holds |
| `gateway` | no use of a forgotten skylb client and none leaked; every service served; requests against enabling and disabling | 2 services, 2 skylb clients, 4 scripts: on; on, off; off, on, off, on; on against off; 1 request under the first two, up to 3 callbacks | holds |
| `registry` | exact filter, complete routing, controller's enable | lists of at most 3 bindings, 3 services, 2 groups, one enabled | holds |
| `streaming` | is the client told what happened? do conversations and deserted requests end? | bodies of at most 2 messages, whole or broken, 2 responses, a window of 1, every deployment | holds |
| `decoding` | are message, mask, metadata and deadline those the request asks for? | for each stage all variations of one request: pairs of 20 query keys, 8 lists of path parameters, bodies of two levels, all subsets of 6 headers | holds |
| `logging` | no line lost, doubled or mixed; verbosity as set; fatal lines end the process; lines reach the disk | 2 goroutines of at most 3 calls, 12 scripts, 2 of them with a failing disk, one named file, 2 days or seconds, files of 3 lines | holds |
| `plugins` | does the code import, validate and serve what was declared (`ServesDeclared`)? is the document true of the code (`HandlersDocumented`)? | the example, and some 60 requests of one to five files | holds |
| `first_match` | the first match, with two ':' | paths `a:v:w` and `b`, verbs `v` and `w` | violated |
| `errors_answered` | is every error answered (`ErrorsAnswered`)? | as `request`, hook set | violated |
| `rules_enforced` | are all rules of all messages checked (`RulesEnforced`)? | as `decoding` | violated |

Why the bounds are enough: the hazards need one literal, one `**` with a segment
before and behind it, and one capture over several cells (four ops and the
templates have these); a handler that rewrites the path, one after it, and one
of another method; one callback under way while another call stores; two
removals next to each other, at the head and at the end of a list; a message
sent, one under way and one still to decode when a stream ends; a line in a
buffer that is returned while another is taken; a rotation between two lines and
with one unflushed; a nested field, and one next to it of the same type; three
templates with one path. A request's behaviour does not depend on other requests
in `RequestHandler`, so one visits all of it; the same holds of `Gateway`, where
requests only read what the group writes.

The requests of `plugins` are made for what is hard: packages that ask for one
name, in every order of loading; a cycle of messages asked in every order;
configured and annotated rules; every reason to refuse a binding; templates that
coincide in a document; hidden services, methods and fields; merged files whose
types share a short name, under each naming strategy; nested, repeated and
recursive fields in the query.

A violated run is a statement of a comment or of an option that the code does not
keep; `findings` in `PROJECT.json` quotes each. The run `routing` keeps to paths
where the statement holds: at most one ':' in the last component, and not a last
component that is only a handler's verb, which ends the search by design
(`VerbAlone`); TLC confirms that its paths satisfy `SplitsOnce`, which the theorems
suppose. The run `logging` keeps to scripts where `SetVerbosity` does not race with
the flags (`StoresAlone`, confirmed too). `NoCrash` and `NoLeakedCli` are about one goroutine that makes all
the calls (`OneAtATime`): nothing in the repository makes them from two, and with
the lock commented out the fourth script reaches the crash. `NoLeakedCli` is
moreover about one that does not enable what it has just enabled (`Alternating`):
`Enable` makes a new skylb client whether there is one or not. `AllServed` and
`LateRequestsServed` are about processes that only enable (`OnlyEnables`), which is
what `Bootstrap` does. `EventuallyClosed` has the premises `BackendAnswers` and
`ClientKeepsUp`; `Released`, that the binding reads the body, if there is one (`Drains`).
`LinesReachDisk`, as `LinesKept`, is about disks that work (`~faults`): with a failing one
`flushAll` loses lines without a word. The premises of `ImportsSound` (`WellNamed`), `RulesGuarded`,
`RefsResolve` and `FieldsAgree` leave out what section 5 lists.

Deadlock is not checked in most runs: requests end, op lists end, controlling
goroutines return, and the process then waits for input the models bound.

## 4. Fairness

* A goroutine of a request that can take a step takes it (`Running`, and `Gateway`'s
  fairness): the Go scheduler is preemptive. A handler waits for three things, and none of
  them is assumed: for the end of the body or of a form (`Read` is enabled by what the
  client sent; no server has a `ReadTimeout`, `cmd/gateway/main.go:54`, and the deadline of
  a context does not end a read), for the call, and for a client that takes the answer
  (a write to one that has left fails at once).
* A call ends (`BackendAnswers`), and a client that stays sends its whole body and takes
  its answer (`ClientKeepsUp`): premises of `EventuallyClosed`, in whose formula they
  stand; the first is part of `Gateway`'s fairness too. `Released` is checked without
  either: a deadline is enough to end a call; with `request_context`, a departed client is
  enough to end the request, in the middle of its body included.
* Goroutines of a group, its stores and skylb's callbacks are weakly fair
  (`Scheduled`): stores become visible, and skylb delivers the endpoints of a
  client that was started. `AllServed` depends on it.
* `ServeHTTP`'s search is a loop over finite lists (`FairSpec` of `Routing`).
* In `Streaming` the handler and the sender are scheduled, and the backend takes
  what was sent to it (gRPC's transport reads). Only a client and a backend that
  talk (`setup.talks`) are assumed to do their part, for `ConversationEnds`;
  `LeaverReleased` assumes nothing of either.
* In `Logging` a goroutine runs (WF); a mutex goes to each that waits for it (SF),
  as Go's starvation mode hands it over after a millisecond; the daemon's ticker
  ticks. Nothing is assumed of the flush before an exit, which may hang: its time
  limit is what `FatalExits` rests on.

## 5. Other disagreements

Met while modelling, and visible in the modules, but without a run of their own:

* `MatchAndEscape` "will return an error if no Patterns matched or if a pattern
  matched but contained malformed escape sequences" (`pattern.go:152-153`). A
  pattern that could not match reports a malformed escape too, when the atom that
  meets it comes first (`RunPush`; `Result` of `PathTemplate` says which).
  `ServeHTTP` writes a 400 for it and goes on searching.
* The second loop of `ServeHTTP` looks up other methods "to determine if it is
  NotImplemented or NotFound" (`mux.go:394-395`) with whatever verb the first loop
  left. Handlers with a verb that no handler of the request's method carries are
  missed, and the answer is 404: `OtherMethodsNoticed` holds only for handlers
  without a verb.
* `RequestHandled` "is called after a request is completely handled, either
  succeeded or failed" (`hook.go:71-72`). A failing body reader, field mask, path
  parameter or query string is answered without it (`Silent`).
* The hook means to forward all HTTP headers (`integrate/hook.go:103`), but
  `AnnotateContext` replaces the outgoing metadata it made (`context.go:87`;
  `Annotate`).
* Handlers are to "forward requests to the grpc endpoint over the given
  implementation" (`template.go:905-906`). The client given to `Register...Client`
  is ignored, and requests are refused until skylb's first callback (`Load`).
* The hook is to see "the method object to which the gateway routes"
  (`hook.go:50`). `getMethod` looks it up by name, so for an additional binding it
  is the first binding's.

* `V` logs "if the level in the call to V is at least the value of -v"
  (`glog.go:1140-1142`). It logs if the value is at least the level, as the comment's
  first line says (`glog.go:1129`). `VerbosityExact` follows the code and that line, so the
  run `logging` shows that the other sentence is false: with `-v=1` a call `V(2)`, which one
  script makes, is silent.

Serving requests:

* A client that stops in the middle of its body holds a goroutine for as long as it keeps
  the connection, whatever `Grpc-Timeout` it sent: `main.go:54` sets no timeout and the
  read (`template.go:519`) does not look at the context.
* Over HTTP/1 the server notices a departed client only when the body has been read: with
  `request_context`, a call whose binding leaves the body unread goes on until the
  backend or a deadline ends it (`GiveUp`).
* A malformed path may be answered several times, once for each handler that reports it and
  once by the outcome of the search (`mux.go:382`); the client sees them run together.
  `OneOutcome` says how often, at most, and that no other path is affected.
* What `RequestAccepted` returns is "to be put into context and passed along the
  chain" (`hook.go:54-55`), but with `request_context` the generated handler
  replaces it (`template.go:936`): it does not reach `RequestHandled` (`Derive`).
* A callback of skylb that runs on after `Disable` has returned publishes a client
  again (`template.go:1040`), though "Disable() destroies the gRPC client"
  (`docs/design.md:97`).
* Two goroutines that switch one group may call a skylb client that is nil
  (`template.go:999-1007`, lock commented out), and two Enables without a Disable
  lose the first skylb client.
* A half-stored interface passes the handler's test for nil (`template.go:922`).
* An API that is not registered for this gateway is removed from the registry
  (comment at `hookexternal.go:38`), but its route stays in the mux.
* Services are registered in the order of a map iteration (`hookexternal.go:33`):
  which of two overlapping patterns answers differs from start to start.
* A last component that is only ':' and a handler's verb ends the search with 404
  although a later handler may match (`mux.go:369`).
* A group none of whose services has a controller has a nil `Enable`, and
  `go sg.Enable()` ends the process (`hookexternal.go:65`).
* A streaming handler declares the header `Trailer` whether the client accepts
  trailers or not (`handler.go:154`, against 142-146).
* The sender of a bidirectional request closes the stream in the normal way when
  a message does not decode: the backend sees a complete stream (`SenderDecode`).
* The recorder behind gzip has a `Flush` that delivers nothing (`gzip.go:96`),
  though `handler.go:20-25` refuses writers that cannot flush: a conversation
  behind it stalls. The middleware sets `Content-Length` on the request's headers.

Decoding:

* A query value `null` for a Timestamp or Duration stores a nil message, and the
  validators or the marshaler panic (`query.go:252-269`, 328).
* Fields below a member of a oneof evade "field already set for oneof"
  (`query.go:102-110`).
* A query key in JSON spelling escapes the filter, which has the original names, and
  overrides a path parameter (`query.go:50-53`).
* Integers are parsed with base 0 in paths and base 10 in queries.
* A field mask loses the prefix of a path inside a nested Any (`fieldmask.go:69`); an
  Any that is not an object panics (67); a Struct or an Any named by its JSON name
  keeps that name in the mask (56). `NamedAlike`, the premise of `MaskExact`, leaves
  these bodies out.
* A `Grpc-Timeout` that does not fit wraps around to another, possibly negative,
  deadline (`context.go:260`).
* With a proto field as hash key the key is always empty: the code that reads the
  field is commented out (`balancer.go`).
* Rules whose operator does not fit the type of the value are silently left out of
  the validator (`Fits`).

Logging:

* `flushAll` ignores the errors of `Flush` and `Sync` (`glog.go:1036-1047`): when a disk fails
  the lines of that buffer, and all later ones of its file, are lost without a word until
  the next write reports the error and ends the process.
* "A message written to a high-severity log file is also written to each
  lower-severity log file" (`glog.go:97-98`), but not a named line, which goes to
  its own file alone.
* A goroutine that exits while another's fatal line is written suppresses the
  stacks (`glog.go`, `fatalNoStacks`).
* `MaxSize` is not kept with `roll_type=date`, nor when a file is reopened within one
  second, whose name it then gets again.
* "These flags are modified only under lock" (`glog.go:460`), but `SetVerbosity`
  stores without it (`glog_patch.go:40-42`): while `moduleSpec.Set` runs it is undone
  (`StoresAlone`).
* Setting `-v` to the value it has stops `V` from firing for a moment.
* `LogColorInfof` and `LogColorErrorf` (`util/log.go`) use a formatted text as a format.
* `traceLocation.Set("")` unsets the location without the lock and returns an error.

Gateway generator:

* An additional binding without a pattern is appended as nil and panics later
  (`services.go:217-229`); "no HTTP rule" is an error nowhere.
* The imports with an alias (`vexpb`, `fpb`, `lgr`, `skypb`) do not reserve it: a user's
  package of that name collides. A request type in a package that is imported
  anyway is named by a name that import does not have. The package of a response
  whose field is picked by `response_body` is not imported (`generator.go:119-158`).
* The validator of a request type of another file is called although this file may
  not define it; for another package, without its qualifier (`template.go:617`).
* Names of messages that are not in camel case are changed in place after validators
  were named and before they are called (`template.go:176,184-187`).
* `HasRule` remembers no while it is asking (`types.go:149-186`): a message whose only
  rules are reached through a cycle may lack a validator.
* CONSISTENT balancing of a controlled group generates code that does not parse
  (`template.go:1023`); a server stream without parameters leaves a variable unused.
* Methods bound by external rules alone, or by `generate_unbound_methods`, need no login
  whatever their options say (`services.go:111-120`).
* Local handlers skip validation and hook.
* `buf.gen.yaml` refers to `unannotated_echo_service.yaml`; the file is called
  `unannotated_echo_servic.yaml`.

OpenAPI generator:

* Legacy names are to be unique (`naming.go`), but `.a.bc.D` and `.ab.c.D` are both
  `abcD` (`Ambiguous`).
* The cycle checker counts before it branches, so fields side by side count
  together (`template.go:331`, against the comment in 336-338), as do messages of one
  short name.
* Path parameters and the body are excluded from the query by the field's
  descriptor: another field of the same message type loses the same subfield
  although the handler accepts it (`boundElsewhere`).
* The parameters below a body's field are looked up by its JSON name: where that
  differs they stay in the body's schema (`renamed`).
* `disable_default_errors` with a server stream leaves a reference to a Status that is
  not defined.
* A second operation without parameters replaces the first at its path (logged
  only). A number given to a parameter may make it a field's name.
* A custom HTTP method is not documented; at a path that exists it panics.
* `operationId` "must be unique", but the second binding of `Echo` and a method `Echo2`
  share theirs, as do services of one short name that are merged.
* For a client stream, query parameters are documented that its handler never reads.
* The messages of hidden services are defined all the same.
* Configured rules without a method are reported by the gateway plug-in only.
* The checked-in document lags behind: a POST without a body has no query there.

## 6. Proofs

`PatternVM_proof` proves, for every pool, op list, unescape table, path and verb:

* `TypeCorrect`: `[]TypeOK`;
* `StackSafety`: `[]StackSafe`;
* `StackBound`: `[]StackBounded`;
* `MatchBindsAll`: `[]AllVarsBound`;
* `TailExactness`: `[]TailExact`.

They rest on the named assumptions of `PatternVM` about its constants. None of
the properties is inductive: the matcher is safe because of what the verifier
checked earlier, and the verifier's state is gone when the matcher runs. `note`
keeps it: `note[k]` is the depth, tail, deep flag and number of captures before
the k-th kept op. The invariant `IInv` says that consecutive notes are related as
the kept op demands, that none exceeds `maxstack`, and that while the matcher runs
its stack depth, its bound variables and, behind a `**`, its remaining path are
those of `note[ip]`. Each theorem is then a corollary.

For the templates of `PatternTemplates`, well-formed as `TemplatesAssumption` says:

* `TemplateInvariance`: `[]TemplateInv`;
* `DecidesAsTemplate`: `[]ResultMatchesTemplate`;
* `BindsAsTemplate`: `[]BindingsMatchTemplate`.

`FlattenLaysOut` says where the pieces of a flattened sequence lie, so that
`CompileLaysOut` can say which ops come from which atom. `Staged` then ties each moment
of a run to an atom and a stage in it: its push, join or capture is next; the atoms
before it agreed with their components (`AtOp`); the stack holds what they stand for,
joined where a variable ended; `captured` holds the variables that ended. With the push
of `**` the atoms behind stand for the end of the path (`InFront`, `Behind`), which is
right because the verifier's count of them is exact. The case of a literal beyond the
end of the path, which `AtomResult` once left to two guards of one `CASE`, came out of
this proof.

`RequestHandler_proof` proves, for every set of requests, bindings, connections
and deployments:

* `TypeCorrect`: `[]TypeOK`;
* `AnswersOnce`: `[]OneAnswer`;
* `CallsGuarded`: `[]CallGuarded`;
* `HandlesOnce`: `[]HandledOnce`;
* `ReleasesContext`: `[]ContextReleased`;
* `MeasuresOnce`: `[]MeasuredOnce`;
* `KeepsContract`: `Spec => KeepsHookContract`.

They rest on `DeploymentsAssumption`: a deployment says yes or no to each flag.
The properties compare the histories of a request with its end, so none is
inductive. `IInv` ties both to where the goroutine is: with a hook there are six
traces of callbacks a request can have, and its `pc` says which of them it has,
whether its call was made, what the call was checked for, and whether the
cancel function is owed. An action leaves all other requests alone (`Frame`), so
each preserves `IInv` by a case for the request that moves. For the
refinement, `ActionShown` sums an action up as the contract sees it: nothing,
one more callback, an answer, or a panic. Each maps to a step of `HookContract`
or to a stutter.

`Routing_proof` proves, for every set of methods, tables and requests:

* `EndsOnce`: `[]OneOutcome`;
* `FirstMatch`: `[]DispatchesFirstMatch`, if `SplitsOnce`;
* `OthersNoticed`: `[]OtherMethodsNoticed`, if `SplitsOnce`;
* `OneColonFirstMatch`: both, if the last component of no path has more than one ':'.

Without `SplitsOnce` the first is false: the run `first_match` shows it. The
difficulty is the scratch state all handlers share. `FInv` says that `components`
and `verb` are either the path as it came, or the path cut at the verb of one
handler already tried, and that no handler tried so far matches. Under `SplitsOnce` a
cut path is cut no further and a later handler decides of it as it would of the
path that came, so what was passed over stays passed over. `EndsOnce` needs none of
this and is about every path, malformed ones included. `CleanInv` and
`CountInv`: for a path without a malformed escape nothing is written before the end.
`ReportInv`: what is written there for any other are reports, no two alike. `PlaceInv`: they name
handlers that were tried already, so the one of the handler at hand is not among them.
`OutcomeInv`: once the search is over, the last answer is its outcome.
`Least`, that a set of numbers has a least member, is obtained from the library's
theorem on well-founded relations, without an induction over an operator.
`MethodsAssumption` (no method is the empty map's placeholder) and the types of
tables and requests are assumed.

`Gateway_proof` proves, for every set of services, scripts, requests and bound on
skylb clients:

* `GroupSafe`: `[]NoCrash`;
* `NothingLeaked`: `[]NoLeakedCli`;
* `GatewayServes`: `Spec => Handler!Init /\ [][Handler!Next]_(Handler!handlerVars)`;
* `GatewayKeeps`: the handler's `OneAnswer`, `CallGuarded`, `HandledOnce`,
  `ContextReleased` and `MeasuredOnce` hold in the composition.

A store of a two-word variable becomes visible word by word. `Settles(v)` says that
the skylb variable will have value `v` when what is pending has been committed, and
`SkycliIs` that `v` is the live skylb client for as long as a call needs one; only the
controlling goroutine stores there (`ThreadsInv`), callbacks store elsewhere. For
`GatewayServes` each step of a request or of the group is a handler's step or a
stutter: a `Load` that reads a half-stored variable is one of the values
`RequestHandler` allows for. `GatewayKeeps` then instantiates `RequestHandler_proof`
with the connections `1..MaxCli` and uses its invariants. It rests on
`HandlersAssumption`, that the gateway's bindings and deployments are those
`RequestHandler` is about.

`Registry_proof` proves, for every program, set of services and order of
initialisation and registration:

* `FiltersExactly`: `[]FilterExact`;
* `RoutesAll`: `[]RoutesComplete`.

The invariant counts the bindings registered of each service (`Upto`): the service's
list holds, in order, all of this gateway's among them and maybe others (`ListIs`), none
of those before the filter's index (`FilterInv`), and the handlers of an HTTP method
hold all of them, the latest first (`HandlersAre`). `RemoveAtProperties` and its
neighbours say what the list operations do. `ProgramsAssumption` types the programs;
`NoneAssumption` keeps the value for no service apart.

It also proves, for every request of protoc and every order in which its files are
loaded:

* `DistinctNames`: `[]NamesDistinct`;
* `OneName`: `[]OneNameEach`;
* `StandardNamesSafe`: `[]StandardNamesKept`;
* `PackagesSettle`: `PackagesSettled`.

They are about `LoadSpec`, the loading alone, and rest on `NumberedNonEmpty`: an
alternative name, made by `"%s_%d"`, is never the empty text that stands for no
alias. That packages differ does not make the properties inductive: a name that is
free for a later file must not be one an earlier file would have been given. The
invariant `NamesInv` says that each package has reserved the name it goes by, that
this name is the first alternative nobody else had, and that the standard names
belong to the imports from `New` on. A reservation is never taken back and never
changes hands (`ReservedKeeps`), so what was taken stays taken and the first
alternative stays the first (`PackageKept`); two files of one package therefore end
at the same number. `LoadFileTakes` reduces the two ways `LoadFile` ends to one.

And for every such request and order, of the gateway plug-in (`GeneratorSpec`):

* `ImportsAreSound`: `[]ImportsSound`;
* `ServesAsDeclared`: `[]ServesDeclared`.

The first follows from the theorems above once every package a file's code needs is known to
be one that was loaded. `LoadedInv` says that: what is loaded in which phase, that a
package is as its file says, and that the methods of loaded services name messages that
are loaded (`ServicesKnown`, for which `FlattenType` says what `FlattenSeq` is made of);
`CodeInv`, that the imports of code already generated are those its services still ask
for. Then names tell the needed packages apart (`NamesDistinct`, `OneNameEach`), those
of `BaseImports` are apart (`BaseDistinct`), and the two kinds from each other
(`NeededApart`). Two assumptions: `RequestsAssumption`, that files of one Go package
agree on its name, which protogen checks before the plug-in sees them (and that the
services of a file are a list), and `NumberedApart`, that an alternative name, which
ends in a number, is neither empty nor one of the four aliases of the imports. What
user packages could collide with is in the premise `WellNamed` (section 5).

The second joins three invariants. `RulesInv`: after n configured rules a selector has
those of the n that are its own, in their order (`Gathered`). `ServicesInv`: the
services loaded for a file are those it declares that have methods, their methods have a
binding for each rule applied, in order, and that binding is none only when the rule has
no pattern (`AreServices`, `AreBindings`). `ClientsInv`: unless a target failed, each one
visited has code or no binding, and a file's code has a handler for each of its bindings,
none of which is none, no two with the same annotation. `FileNames` then leads from the bindings
in their order (`Ordered`) to the handlers declared, method by method (`MethodNames`) and service by
service (`ServiceNames`): a rule's own handler, if it has one, and those of its additional
rules (`RuleNames`, `AppliedNames`). Keys differ because services of a file and methods
of a service have names of their own, and indices count a method's bindings
(`FlattenApart`). What lists of lists flatten to is settled once: `FlattenSnoc` for one
list more, from which `ClimbFromNone` gets what is mapped (`MapFlatten`), left out
(`FlattenKept`) and found there (`FlattenAll`). `RequestsAssumption` is all it assumes:
what protoc hands over as a list is one, and protoc has refused files with two services, or
services with two methods, of one name.

`Decoding_proof` proves, for every set of requests, every schema and every table of
units:

* `CarriesFaithfully`: `[]CallFaithful`;
* `MasksExactly`: `[]MaskExact`.

`CarryInv` says what the list of metadata has at each stage: the pairs of the headers
visited, in whatever order the map gave them, then those of all headers and the
gateway's own word last (`Listed`); `ListOfSet` that a list made of a finite set has its
members. The deadline is kept because a product that fits is its own remainder
(`WrapsNothing`). `MaskInv` says that a search that has done n levels has as items the
nodes of depth n it goes into (`Items`), and as mask what the fields found above them
give (`MaskUpTo`). `LevelDone` is the step from n to n + 1; without items nothing
is deeper (`LevelsEnd`). That what is found is what the reference calls set
(`FoundAreSet`) takes the other half of the lemmas: `Resolve` goes one name at a time
(`ResolveAppend`), a tree has all nodes above its nodes (`TreeClosed`), and no field is
known below a Struct (`NoStructAbove`). `RequestsAssumption` says that a body is a tree
for a field of the request, that headers have finitely many values and
`Grpc-Timeout` one; `SchemaAssumption` that a Struct's fields are not in the schema.

`Streaming_proof` proves, for every set of requests, number of messages and responses
and every window:

* `StreamInvariant`: `[]IInv`;
* `StreamFaithful`: `[]FaithfulStream`;
* `ReplyFaithful`: `[]FaithfulReply`;
* `HalfCloseFaithful`: `[]HalfCloseMeansEnd`.

`ControlInv` says who is where, `UploadInv` how the counters of a client's stream agree
with `pc`, and `AnswerInv` what was answered by then: the responses taken so far while the
handler receives, and one of the answers the properties allow (`Final`) from the
moment it returns, through the recorder and the server that fill in the code.

`Logging_proof` proves, for any goroutines that make any calls:

* `LoggingInvariant`: `[]IInv`, if `StoresAlone`;
* `VerbosityFollowsSettings`: `[]VerbosityExact`, if `StoresAlone`;
* `LinesAreKept`: `[]LinesKept`, whatever stores what.

Without `StoresAlone` the first two are false, as section 5 says. `MutexInv`: who is past `Lock` holds
the mutex, the flusher of an exit included. `SettingInv`: either nothing is being set
and what `V` reads is the one setting in effect, or one goroutine replaces one setting
by the next and what `V` reads is between the two. `CacheInv`: the cache agrees with the
filter. `VInv`: a `V` call that fell through its first test has seen a change, or the
one setting there was during all of it does not ask for its level globally. The steps of files and buffers
touch none of this but the mutex (`Quiet`, `FileMove`). `ScriptsAssumption` types the
calls; `ThreadsAssumption` keeps goroutines apart from the daemon and the flusher.

`LinesKept` speaks of the moments between two calls of `output`; `KeptInv` says what
holds within one. `PrintInv`: who has a buffer is in a call that prints. `BufferInv`: a
buffer is held by one goroutine or is once on the free list, and holds the line of its
holder's call once that is formatted, so what is written log by log is one line. `Disks`:
a log that has a file is open, and no file of it is later than its latest, so that what
is pushed there comes after all it has (`DiskGrows`). `Downward`: a severity that has a
file has one for each severity below it, so that the files `createFiles` stops at are all
there (`ToCreateIs`). `Exact`: a log has the lines output for it but the last, if it
`Owes` that one: while files are created all the line's logs do, then those still to be
visited. `FlattenSnoc` and `FlattenGrows` say what the library's `FlattenSeq` makes of a
list that grows at its end or in one part; they come down to the well-foundedness of the
naturals (`Least`, `Climb`), as induction itself is out of reach. The premises on the
process, writing to files and no failing disk, are those of `LinesKept`.
`NamesAssumption` tells names from severities, `PrintsAssumption` says that calls that
print have a severity and a name, `TimeAssumption` that time is a number.

Only model-checked:

* liveness (`Released`, `EventuallyClosed`, `AllServed`, `LateRequestsServed`,
  `ConversationEnds`, `LeaverReleased`, `FatalExits`, `LinesReachDisk`,
  `EventuallyAnswered`): outside the prover's reach;
* `DecodesExactly`: it compares the message with what six stages say of it, and the
  order of the keys is lost in a map; it is left to TLC;
* `RulesGuarded`: what the recursion of `HasRule` computes, for every input, is induction
  over data;
* the properties of documents and of the example: `OpenAPI` has recursive operators,
  whose modules the prover cannot handle. `Descriptors` has none, which is why `New` is
  there although only the gateway plug-in calls it, and neither has `Generator`: what
  `HasRule` remembers (`Memos`) is an argument of a recursive function.

`AllVarsBound`, the four properties of package names and the invariants of the proofs
(`TypeOK`, `StackBounded`, `HandledOnce`, `FInv`, `GroupInv`, each `IInv`) are in no run: TLC
agreed with them before they were proved, and the theorems hold for all constants.

## 7. Not modelled

Not modelled:

* marshalers (`marshal_*.go`, `proto2_convert.go`): encodings, no state;
* CORS: a pure decision on headers, with nothing to go wrong over time;
* generated protocol buffer code, the option definitions among it;
* texts: comments, formats, user-supplied options and extensions in documents, the
  wording of generated code, `Pattern.String`;
* standalone mode of the gateway plug-in, proto2 files, message names that are not
  in camel case;
* `-log_backtrace_at`, the bridge from package `log`, prefixes of `util/log.go`;
* TLS, flags and signals of the programs (I/O); trace ids and latencies.
