---------------------------- MODULE HookContract ----------------------------
(***************************************************************************)
(* What GatewayServiceHook promises its implementer (the interface of      *)
(* gateway/runtime/hook.go): the order in which a request's callbacks may  *)
(* arrive, and how they relate to the answer the HTTP client gets.         *)
(***************************************************************************)
CONSTANT Req

VARIABLES
  stage,   \* the last callback made for the request
  outcome  \* open, answered, or aborted by a panic

vars == <<stage, outcome>>

Stages == {"none", "Received", "Accepted", "Parsed", "Handled"}
Outcomes == {"open", "answered", "aborted"}

\* The callbacks that may follow a callback.  A payload that does not parse
\* may be reported handled without having been reported parsed.
After(s) ==
  CASE s = "none"     -> {"Received"}
    [] s = "Received" -> {"Accepted"}
    [] s = "Accepted" -> {"Parsed", "Handled"}
    [] s = "Parsed"   -> {"Handled"}
    [] s = "Handled"  -> {}

Init ==
  /\ stage = [r \in Req |-> "none"]
  /\ outcome = [r \in Req |-> "open"]

Callback(r) ==
  /\ outcome[r] = "open"
  /\ \E s \in After(stage[r]) : stage' = [stage EXCEPT ![r] = s]
  /\ UNCHANGED outcome

\* No answer leaves between RequestParsed and RequestHandled.
Answer(r) ==
  /\ outcome[r] = "open"
  /\ stage[r] \notin {"none", "Parsed"}
  /\ outcome' = [outcome EXCEPT ![r] = "answered"]
  /\ UNCHANGED stage

\* A panic, possibly inside a callback.
Abort(r) ==
  /\ outcome[r] = "open"
  /\ stage[r] # "none"
  /\ \E s \in {stage[r]} \cup After(stage[r]) : stage' = [stage EXCEPT ![r] = s]
  /\ outcome' = [outcome EXCEPT ![r] = "aborted"]

Next == \E r \in Req : Callback(r) \/ Answer(r) \/ Abort(r)

Spec == Init /\ [][Next]_vars
=============================================================================
