------------------------------ MODULE MCGateway ------------------------------
(***************************************************************************)
(* Gateway for TLC: the controller's service and another one, to which a   *)
(* request goes, while one or two goroutines switch the group.             *)
(***************************************************************************)
EXTENDS Gateway

CONSTANTS echo, admin, boot, watcher, r1

Script(bootCalls, watcherCalls) ==
  [t \in {boot, watcher} |-> IF t = boot THEN bootCalls ELSE watcherCalls]

\* Bootstrap's go sg.Enable(), the only call the gateway itself makes.
Bootstrap == Script(<< "Enable" >>, << >>)

\* The configuration watcher of docs/design.md switches the group off and on;
\* in Race its first call overlaps Bootstrap's.
OnAndOff == Script(<< "Enable", "Disable" >>, << >>)
Toggle == Script(<< >>, << "Disable", "Enable", "Disable", "Enable" >>)
Race == Script(<< "Enable" >>, << "Disable" >>)

MCScripts == { Bootstrap, OnAndOff, Toggle, Race }
MCMaxCallbacks == [s \in MCScripts |-> IF s = Bootstrap THEN 3 ELSE IF s = OnAndOff THEN 1 ELSE 2]

\* A second skylb client and a second goroutine are the group's own affair.
MCVisitors == [s \in MCScripts |-> IF s \in { Bootstrap, OnAndOff } THEN {r1} ELSE {}]
MCServiceOf == [r \in {r1} |-> admin]

\* A binding with nothing to parse, and a body it does not read: what can fail
\* in parsing or wait for a body is checked by MCRequestHandler and does not
\* depend on the group.
MCBindings ==
  { [listed |-> TRUE, body |-> FALSE, mask |-> FALSE, path |-> FALSE, query |-> FALSE, rule |-> FALSE] }

Production == { [hookSet |-> TRUE, debug |-> FALSE, requestContext |-> TRUE] }
=============================================================================
