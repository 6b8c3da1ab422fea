-------------------------- MODULE MCRequestHandler --------------------------
(***************************************************************************)
(* RequestHandler for TLC.  Requests share no state in that module, so one *)
(* request visits every behaviour; every deployment, every kind of body    *)
(* and the bindings below (everything generated, body only, no body, not   *)
(* listed) are tried.                                                      *)
(***************************************************************************)
EXTENDS RequestHandler

MCConns == {1}

Full == [listed |-> TRUE, body |-> TRUE, mask |-> TRUE, path |-> TRUE, query |-> TRUE, rule |-> TRUE]

MCBindings ==
  { Full,
    [Full EXCEPT !.mask = FALSE, !.path = FALSE, !.query = FALSE, !.rule = FALSE],
    [Full EXCEPT !.body = FALSE, !.mask = FALSE],
    [Full EXCEPT !.listed = FALSE] }

MCDeployments == Deployment

\* Both main packages: the hook is set, request_context has its default.
Production == { [hookSet |-> TRUE, debug |-> FALSE, requestContext |-> TRUE] }

\* The error handler "replies with the status code mapped by HTTPStatusFromCode"
\* (errors.go:90): a known method called over a whole client never panics.
ErrorsAnswered ==
  \A r \in Req : pc[r] = "panicked" => ~binding[r].listed \/ client[r].data = 0
=============================================================================
