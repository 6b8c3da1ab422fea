------------------------------- MODULE Gateway -------------------------------
(***************************************************************************)
(* The gateway process: requests served by the generated handlers          *)
(* (RequestHandler) while goroutines enable and disable the service group  *)
(* they go to (ServiceGroup).  The two share the client variable of each   *)
(* service, which a handler reads without a lock while it may be half      *)
(* stored, and the skylb client behind the connection of a call.           *)
(***************************************************************************)
EXTENDS ServiceGroup

CONSTANTS
  Req, Bindings, Deployments, Kinds,  \* as in RequestHandler
  ServiceOf,                   \* the service each request goes to
  Visitors                     \* bound: the requests that arrive under a script

ASSUME ServiceOfAssumption == ServiceOf \in [Req -> Services]
ASSUME VisitorsAssumption == Visitors \in [Scripts -> SUBSET Req]

VARIABLES flags, pc, binding, client, ctx, cancel, failed, hooks, rpc, answers, metrics, gone, body

Handler == INSTANCE RequestHandler WITH Conns <- 1..MaxCli

ASSUME HandlersAssumption ==
  Bindings \subseteq Handler!Binding /\ Deployments \subseteq Handler!Deployment /\ Kinds \subseteq Handler!Kind

handlerVars == <<flags, pc, binding, client, ctx, cancel, failed, hooks, rpc, answers, metrics, gone, body>>
vars == <<groupVars, handlerVars>>

Init == GroupInit /\ Handler!Init

\* Mutant: the handler takes the controller's client, whatever its service.
LoadControllersClient(r) == Handler!Load(r, mem[Controller])

\* client := internal_<svc>_client
LoadClient(r) == Handler!Load(r, mem[ServiceOf[r]])

\* A call on a connection that was shut down fails.
Backend(r, status) ==
  /\ pc[r] = "await"
  /\ status = "ok" => cli[client[r].data] # "down"
  /\ Handler!Return(r, status)

RequestStep(r) ==
  /\ ~crashed
  /\ \/ Handler!Receive(r) \/ Handler!Step(r) \/ Handler!Reply(r)
     \/ Handler!SendBody(r) \/ Handler!Disconnect(r)
     \/ LoadClient(r)
     \/ \E status \in {"ok", "error"} : Backend(r, status)

Next ==
  \/ GroupNext /\ UNCHANGED handlerVars
  \/ (\E r \in Visitors[script] : RequestStep(r)) /\ UNCHANGED groupVars

\* The group's fairness, and for each request that its goroutine is scheduled;
\* what its client and its backend do is theirs.
Fairness ==
  /\ Scheduled
  /\ \A r \in Req : WF_handlerVars(Handler!Step(r) \/ LoadClient(r))

Spec == Init /\ [][Next]_vars /\ Fairness

-----------------------------------------------------------------------------
(* Properties. *)

\* While the group is only ever enabled, a request that reaches the handler
\* after its service was published is served over a whole client: neither
\* refused nor handed half of one, no matter which callback is storing.
LateRequestsServed ==
  OnlyEnables =>
    \A r \in Req :
      pc[r] = "load" /\ Whole(mem[ServiceOf[r]])
        ~> pc[r] = "accept" /\ Whole(client[r])
=============================================================================
