---------------------------- MODULE ServiceGroup ----------------------------
(***************************************************************************)
(* The clients of one service group, as the template of                    *)
(* protoc-gen-grpc-gateway generates them: Enable_..._ServiceGroup makes a *)
(* skylb client whose callback publishes a gRPC client for every service   *)
(* of the group; Disable_..._ServiceGroup withdraws them.  The lock calls  *)
(* in that code are commented out, so every variable is raced on.          *)
(*                                                                         *)
(* A Go interface variable is two words, the type and the data, stored one *)
(* after the other in either order; 0 in both is nil.  The data word holds *)
(* the number of the skylb client whose connection it stands for.          *)
(***************************************************************************)
EXTENDS Naturals, Sequences

CONSTANTS
  Services,     \* the services that share the group's spec
  Controller,   \* the one of them generated with gen_controller
  Controls,     \* goroutines that switch the group on and off
  Scripts,      \* script[t] of a script: the calls goroutine t makes, in order
  MaxCli,       \* bound: skylb clients made
  MaxCallbacks  \* bound: callbacks made by each skylb client under a script

Cli == 1..MaxCli
Iface == [tab : {0, 1}, data : 0..MaxCli]
Nil == [tab |-> 0, data |-> 0]
Value(c) == [tab |-> 1, data |-> c]
Whole(v) == v.tab = 1 /\ v.data # 0

\* The threads that store: the controlling goroutines, and each skylb client's.
Callback(c) == <<"callback", c>>
Threads == Controls \cup { Callback(c) : c \in Cli }

ASSUME ServicesAssumption == Controller \in Services /\ "skycli" \notin Services
ASSUME BoundsAssumption == MaxCli \in Nat /\ MaxCallbacks \in [Scripts -> Nat]
ASSUME ScriptsAssumption == \A s \in Scripts : s \in [Controls -> Seq({"Enable", "Disable"})]
ASSUME ThreadsAssumption == \A c \in Cli : Callback(c) \notin Controls

Cells == Services \cup {"skycli"}

VARIABLES
  mem,      \* internal_<svc>_client of each service, and internal_..._skycli
  pending,  \* words stored but not yet visible
  script,   \* what the controlling goroutines of this process call
  step,     \* where each controlling goroutine is in its call
  at,       \* the calls of its script it has made
  todo,     \* the services a thread's loop has still to visit
  cli,      \* the state of each skylb client
  calls,    \* callbacks begun by each skylb client
  crashed   \* a nil dereference outside a request ended the process

groupVars == <<mem, pending, script, step, at, todo, cli, calls, crashed>>

GroupInit ==
  /\ mem = [x \in Cells |-> Nil]
  /\ pending = {}
  /\ script \in Scripts
  /\ step = [t \in Controls |-> "call"]
  /\ at = [t \in Controls |-> 0]
  /\ todo = [t \in Threads |-> {}]
  /\ cli = [c \in Cli |-> "unmade"]
  /\ calls = [c \in Cli |-> 0]
  /\ crashed = FALSE

-----------------------------------------------------------------------------
\* An assignment to an interface variable: two word stores, then committed.
Words(t, cell, value) ==
  { [by |-> t, cell |-> cell, word |-> w, val |-> value[w]] : w \in {"tab", "data"} }
Store(t, cell, value) == pending' = pending \cup Words(t, cell, value)

Commit(x) ==
  /\ ~crashed
  /\ mem' = [mem EXCEPT ![x.cell][x.word] = x.val]
  /\ pending' = pending \ {x}
  /\ UNCHANGED <<script, step, at, todo, cli, calls, crashed>>

Quiet(t) == ~crashed /\ \A x \in pending : x.by # t

GoTo(t, label) == step' = [step EXCEPT ![t] = label]
Calls(t, op) == Quiet(t) /\ step[t] = "call" /\ at[t] < Len(script[t]) /\ script[t][at[t] + 1] = op
CallReturns(t) == at' = [at EXCEPT ![t] = @ + 1] /\ GoTo(t, "call")

\* A method call on internal_..._skycli: on nil it panics.
OnSkycli(state) ==
  \/ /\ Whole(mem["skycli"])
     /\ cli' = [cli EXCEPT ![mem["skycli"].data] = state]
     /\ UNCHANGED crashed
  \/ /\ ~Whole(mem["skycli"])
     /\ crashed' = TRUE
     /\ UNCHANGED cli

-----------------------------------------------------------------------------
(* Enable_..._ServiceGroup. *)

NewServiceCli(t) ==
  /\ Calls(t, "Enable")
  /\ \E c \in Cli :
       /\ cli[c] = "unmade" /\ \A d \in 1..(c - 1) : cli[d] # "unmade"
       /\ cli' = [cli EXCEPT ![c] = "made"]
       /\ Store(t, "skycli", Value(c))
  /\ GoTo(t, "resolve")
  /\ UNCHANGED <<script, mem, at, todo, calls, crashed>>

Resolve(t) ==
  /\ Quiet(t) /\ step[t] = "resolve"
  /\ OnSkycli("resolved")
  /\ GoTo(t, "start")
  /\ UNCHANGED <<script, mem, pending, at, todo, calls>>

Start(t) ==
  /\ Quiet(t) /\ step[t] = "start"
  /\ OnSkycli("started")
  /\ CallReturns(t)
  /\ UNCHANGED <<script, mem, pending, todo, calls>>

\* Mutant: the callback enables the controller's service only.
BeginCallbackAlone(c) ==
  /\ Quiet(Callback(c)) /\ todo[Callback(c)] = {}
  /\ cli[c] = "started" /\ calls[c] < MaxCallbacks[script]
  /\ calls' = [calls EXCEPT ![c] = @ + 1]
  /\ todo' = [todo EXCEPT ![Callback(c)] = {Controller}]
  /\ UNCHANGED <<script, mem, pending, step, at, cli, crashed>>

\* The callback given to Start, called by skylb with a connection.
BeginCallback(c) ==
  /\ Quiet(Callback(c)) /\ todo[Callback(c)] = {}
  /\ cli[c] = "started" /\ calls[c] < MaxCallbacks[script]
  /\ calls' = [calls EXCEPT ![c] = @ + 1]
  /\ todo' = [todo EXCEPT ![Callback(c)] = Services]
  /\ UNCHANGED <<script, mem, pending, step, at, cli, crashed>>

EnableService(c, s) ==
  /\ Quiet(Callback(c)) /\ s \in todo[Callback(c)]
  /\ todo' = [todo EXCEPT ![Callback(c)] = @ \ {s}]
  /\ Store(Callback(c), s, Value(c))
  /\ UNCHANGED <<script, mem, step, at, cli, calls, crashed>>

-----------------------------------------------------------------------------
(* Disable_..._ServiceGroup. *)

BeginDisable(t) ==
  /\ Calls(t, "Disable")
  /\ \/ /\ mem["skycli"].tab = 0
        /\ CallReturns(t) /\ UNCHANGED todo
     \/ /\ mem["skycli"].tab # 0
        /\ GoTo(t, "services") /\ todo' = [todo EXCEPT ![t] = Services] /\ UNCHANGED at
  /\ UNCHANGED <<script, mem, pending, cli, calls, crashed>>

DisableService(t, s) ==
  /\ Quiet(t) /\ step[t] = "services" /\ s \in todo[t]
  /\ todo' = [todo EXCEPT ![t] = @ \ {s}]
  /\ Store(t, s, Nil)
  /\ UNCHANGED <<script, mem, step, at, cli, calls, crashed>>

\* Mutant: the skylb client is forgotten before it is shut down.
DisableControllerForgets(t) ==
  /\ Quiet(t) /\ step[t] = "services" /\ todo[t] = {}
  /\ Store(t, "skycli", Nil)
  /\ GoTo(t, "shutdown")
  /\ UNCHANGED <<script, mem, at, todo, cli, calls, crashed>>

\* The group's own service once more.
DisableController(t) ==
  /\ Quiet(t) /\ step[t] = "services" /\ todo[t] = {}
  /\ Store(t, Controller, Nil)
  /\ GoTo(t, "shutdown")
  /\ UNCHANGED <<script, mem, at, todo, cli, calls, crashed>>

\* Mutant: Disable does not shut the skylb client down.
ShutdownSkipped(t) ==
  /\ Quiet(t) /\ step[t] = "shutdown"
  /\ GoTo(t, "forget")
  /\ UNCHANGED <<script, mem, pending, at, todo, cli, calls, crashed>>

Shutdown(t) ==
  /\ Quiet(t) /\ step[t] = "shutdown"
  /\ OnSkycli("down")
  /\ GoTo(t, "forget")
  /\ UNCHANGED <<script, mem, pending, at, todo, calls>>

Forget(t) ==
  /\ Quiet(t) /\ step[t] = "forget"
  /\ Store(t, "skycli", Nil)
  /\ CallReturns(t)
  /\ UNCHANGED <<script, mem, todo, cli, calls, crashed>>

-----------------------------------------------------------------------------
Control(t) ==
  \/ NewServiceCli(t) \/ Resolve(t) \/ Start(t)
  \/ BeginDisable(t) \/ (\E s \in Services : DisableService(t, s))
  \/ DisableController(t) \/ Shutdown(t) \/ Forget(t)

Skylb(c) == BeginCallback(c) \/ \E s \in Services : EnableService(c, s)

Visible == \E x \in pending : Commit(x)

GroupNext ==
  \/ \E t \in Controls : Control(t)
  \/ \E c \in Cli : Skylb(c)
  \/ Visible

\* Goroutines are scheduled, stores become visible, and skylb delivers the
\* endpoints of a client that was started.
Scheduled ==
  /\ \A t \in Controls : WF_groupVars(Control(t))
  /\ \A c \in Cli : WF_groupVars(Skylb(c))
  /\ WF_groupVars(Visible)

-----------------------------------------------------------------------------
(* Properties. *)

Resting(t) == step[t] = "call" /\ Quiet(t)

\* What the script of the process does: it only switches the group on; one
\* goroutine makes all the calls; none enables a group it has just enabled.
OnlyEnables == \A t \in Controls : \A k \in DOMAIN script[t] : script[t][k] = "Enable"
OneAtATime == \A t, u \in Controls : script[t] # << >> /\ script[u] # << >> => t = u
Alternating ==
  \A t \in Controls : \A k \in 1..(Len(script[t]) - 1) :
    script[t][k] = "Enable" => script[t][k + 1] # "Enable"

\* While one goroutine switches the group, no call of Enable or Disable uses the
\* skylb client after it was forgotten, whatever its callbacks are doing.
NoCrash == OneAtATime => ~crashed

\* Between two calls every skylb client made is either the group's current one
\* or was shut down: switching on and off leaks no resolver.
NoLeakedCli ==
  OneAtATime /\ Alternating /\ (\A t \in Controls : Resting(t)) =>
    \A c \in Cli : cli[c] \notin {"unmade", "down"} => mem["skycli"] = Value(c)

\* Every service of a group that is only enabled, and not its controller alone,
\* gets its client for good.
AllServed ==
  OnlyEnables =>
    <>[](\A s \in Services : Whole(mem[s]) /\ cli[mem[s].data] = "started")
=============================================================================
