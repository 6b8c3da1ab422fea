------------------------------ MODULE Registry ------------------------------
(***************************************************************************)
(* What the gateway knows of its APIs: the service groups of               *)
(* gateway/runtime/service.go, filled by the init functions of generated   *)
(* packages, the handlers their Register functions put into the mux, and   *)
(* Bootstrap of integrate's hook, which registers every service, drops     *)
(* other gateways' methods from its list and enables every group.          *)
(***************************************************************************)
EXTENDS Integers, Sequences, SequencesExt

CONSTANTS
  Groups, Services,
  GroupOf,      \* the group (service spec) of each service
  Controllers,  \* the services generated with gen_controller
  Names, Verbs, \* method names, HTTP methods
  Programs,     \* the APIs a generated program may declare, per service
  Started       \* the groups to enable: all, or those named by debug-service

\* One binding of a method; mine: its ApiSource is this gateway.
Api == [name : Names, verb : Verbs, mine : BOOLEAN]

\* AddMethod makes a Method object for each binding, Handle a handler: both are
\* identified by the service and the position of the binding.
Entry == [svc : Services, k : Nat]

ASSUME GroupAssumption == GroupOf \in [Services -> Groups] /\ Controllers \subseteq Services
ASSUME ProgramsAssumption == Programs \subseteq [Services -> Seq(Api)]
ASSUME StartedAssumption == Started \subseteq Groups
ASSUME NoneAssumption == "none" \notin Services

VARIABLES
  stage,    \* init, bootstrap, enabling, serving, or panicked
  apis,     \* the program: each service's bindings, in order
  added,    \* the services AddService was called for
  enabler,  \* sg.Enable: the service whose function it is, or "nil"
  methods,  \* svc.Methods
  handlers, \* ServeMux.handlers: for each HTTP method, first tried first
  pending,  \* the services Bootstrap's loops have still to visit
  current,  \* the service being registered and filtered, or "none"
  bound,    \* how many bindings of the current service are registered
  i,        \* the index of the filter loop, from 1
  running   \* groups with a goroutine that runs sg.Enable

vars == <<stage, apis, added, enabler, methods, handlers, pending, current, bound, i, running>>

Members(g) == { s \in Services : GroupOf[s] = g }
EntryOf(s, k) == [svc |-> s, k |-> k]
ApiOf(e) == apis[e.svc][e.k]

Init ==
  /\ stage = "init"
  /\ apis \in Programs
  /\ added = {}
  /\ enabler = [g \in Groups |-> "nil"]
  /\ methods = [s \in Services |-> << >>]
  /\ handlers = [v \in Verbs |-> << >>]
  /\ pending = Services
  /\ current = "none" /\ bound = 0 /\ i = 1
  /\ running = {}

-----------------------------------------------------------------------------
\* Called by init functions, whose order depends on the imports.
AddService(s) ==
  /\ stage = "init" /\ s \notin added
  /\ added' = added \cup {s}
  /\ enabler' = IF s \in Controllers THEN [enabler EXCEPT ![GroupOf[s]] = s] ELSE enabler
  /\ UNCHANGED <<stage, apis, methods, handlers, pending, current, bound, i, running>>

SetGatewayServiceHook ==
  /\ stage = "init" /\ added = Services
  /\ stage' = "bootstrap"
  /\ UNCHANGED <<apis, added, enabler, methods, handlers, pending, current, bound, i, running>>

-----------------------------------------------------------------------------
\* Go visits maps in any order; a group's services are visited together.
Visitable(s) ==
  /\ s \in pending
  /\ \A u \in pending : Members(GroupOf[u]) \subseteq pending \/ GroupOf[u] = GroupOf[s]

\* svc.Register, called for one service after the other.
Register(s) ==
  /\ stage = "bootstrap" /\ current = "none"
  /\ Visitable(s)
  /\ pending' = pending \ {s}
  /\ current' = s /\ bound' = 0 /\ i' = 1
  /\ UNCHANGED <<stage, apis, added, enabler, methods, handlers, running>>

\* Mutant: handlers are tried in the order of their registration.
HandleLast(e) == handlers' = [handlers EXCEPT ![ApiOf(e).verb] = Append(@, e)]

\* ServeMux.Handle puts each handler before the others of its HTTP method.
Handle(e) == handlers' = [handlers EXCEPT ![ApiOf(e).verb] = << e >> \o @]

AddMethod(e) == methods' = [methods EXCEPT ![e.svc] = Append(@, e)]

\* What the generated Register function does for each binding.
Bind ==
  /\ current # "none" /\ bound < Len(apis[current])
  /\ LET e == EntryOf(current, bound + 1) IN AddMethod(e) /\ Handle(e)
  /\ bound' = bound + 1
  /\ UNCHANGED <<stage, apis, added, enabler, pending, current, i, running>>

\* The loop starts when Register has returned.
Filtering == current # "none" /\ bound = Len(apis[current])

\* Mutant: the index moves on after a removal as well.
FilterSkips ==
  /\ Filtering /\ i <= Len(methods[current])
  /\ i' = i + 1
  /\ methods' = IF ApiOf(methods[current][i]).mine THEN methods
                ELSE [methods EXCEPT ![current] = RemoveAt(@, i)]
  /\ UNCHANGED <<stage, apis, added, enabler, handlers, pending, current, bound, running>>

\* One round of the loop that drops the methods of other gateways.
Filter ==
  /\ Filtering /\ i <= Len(methods[current])
  /\ \/ /\ ApiOf(methods[current][i]).mine
        /\ i' = i + 1 /\ UNCHANGED methods
     \/ /\ ~ApiOf(methods[current][i]).mine
        /\ methods' = [methods EXCEPT ![current] = RemoveAt(@, i)] /\ UNCHANGED i
  /\ UNCHANGED <<stage, apis, added, enabler, handlers, pending, current, bound, running>>

Filtered ==
  /\ Filtering /\ i > Len(methods[current])
  /\ current' = "none"
  /\ stage' = IF pending = {} THEN "enabling" ELSE stage
  /\ UNCHANGED <<apis, added, enabler, methods, handlers, pending, bound, i, running>>

\* go sg.Enable(); the nil function panics.
Enable(g) ==
  /\ stage = "enabling" /\ g \in Started \ running
  /\ running' = running \cup {g}
  /\ stage' = IF enabler[g] = "nil" THEN "panicked" ELSE stage
  /\ UNCHANGED <<apis, added, enabler, methods, handlers, pending, current, bound, i>>

Serve ==
  /\ stage = "enabling" /\ running = Started
  /\ stage' = "serving"
  /\ UNCHANGED <<apis, added, enabler, methods, handlers, pending, current, bound, i, running>>

-----------------------------------------------------------------------------
Next ==
  \/ \E s \in Services : AddService(s) \/ Register(s)
  \/ SetGatewayServiceHook \/ Bind \/ Filter \/ Filtered \/ Serve
  \/ \E g \in Groups : Enable(g)

Spec == Init /\ [][Next]_vars

-----------------------------------------------------------------------------
(* Properties. *)

Later(list, p, q) == list[p].svc = list[q].svc => list[p].k < list[q].k

\* The filter that deletes from the list it walks keeps exactly this gateway's
\* methods, each once and in the order of their declaration.
FilterExact ==
  \A s \in Services : s \notin pending /\ s # current =>
    /\ \A k \in DOMAIN apis[s] : apis[s][k].mine =>
         \E p \in DOMAIN methods[s] : methods[s][p] = EntryOf(s, k)
    /\ \A p \in DOMAIN methods[s] :
         \E k \in DOMAIN apis[s] : apis[s][k].mine /\ methods[s][p] = EntryOf(s, k)
    /\ \A p, q \in DOMAIN methods[s] : p < q => Later(methods[s], p, q)

\* When the gateway serves, each binding of the program has one handler under
\* its HTTP method, and of two bindings of a service the later declared is
\* tried first (Handle puts it before the others).
RoutesComplete ==
  stage = "serving" => \A v \in Verbs :
    /\ \A s \in Services : \A k \in DOMAIN apis[s] : apis[s][k].verb = v =>
         \E p \in DOMAIN handlers[v] : handlers[v][p] = EntryOf(s, k)
    /\ \A p, q \in DOMAIN handlers[v] :
         p < q => Later(handlers[v], q, p)
=============================================================================
