---------------------------- MODULE Gateway_proof ----------------------------
(***************************************************************************)
(* The service group of a gateway process while requests are served: its   *)
(* skylb client is neither used after it was forgotten nor lost, for every *)
(* set of services, requests and scripts.  The handlers in the process are *)
(* those of RequestHandler, whatever half-stored value they read.          *)
(***************************************************************************)
EXTENDS Gateway, SequenceTheorems, TLAPS

Labels == {"call", "resolve", "start", "services", "shutdown", "forget"}
Lives == {"unmade", "made", "resolved", "started", "down"}
StoredWords == [by : Threads, cell : Cells, word : {"tab"}, val : {0, 1}]
                 \cup [by : Threads, cell : Cells, word : {"data"}, val : 0..MaxCli]

GroupTypeOK ==
  /\ mem \in [Cells -> Iface]
  /\ pending \subseteq StoredWords
  /\ script \in Scripts
  /\ step \in [Controls -> Labels]
  /\ at \in [Controls -> Nat]
  /\ todo \in [Threads -> SUBSET Services]
  /\ cli \in [Cli -> Lives]
  /\ calls \in [Cli -> Nat]
  /\ crashed \in BOOLEAN

\* A goroutine without calls to make does nothing, callbacks leave the skylb
\* client alone, and a goroutine in a call is in one of its script.
ThreadsInv ==
  /\ \A x \in pending : x.cell = "skycli" => x.by \in Controls
  /\ \A x \in pending : x.by \in Controls => script[x.by] # << >>
  /\ \A t \in Controls :
       /\ at[t] <= Len(script[t])
       /\ step[t] # "call" => at[t] < Len(script[t])
       /\ step[t] \in {"resolve", "start"} => script[t][at[t] + 1] = "Enable"

\* The value the skylb client's variable has once its stores are visible.
Settles(v) ==
  /\ \A x \in pending : x.cell = "skycli" => x.val = v[x.word]
  /\ \A w \in {"tab", "data"} :
       mem["skycli"][w] = v[w] \/ \E x \in pending : x.cell = "skycli" /\ x.word = w

Values == {Nil} \cup { Value(c) : c \in Cli }
Live(c) == cli[c] \notin {"unmade", "down"}

\* That variable has the current skylb client for as long as a call needs it,
\* and nobody else's client is live.
SkycliIs(v) ==
  /\ Settles(v)
  /\ \A t \in Controls : step[t] # "call" => v # Nil
  /\ Alternating =>
       /\ \A c \in Cli : Live(c) => v = Value(c)
       /\ \A t \in Controls :
            /\ step[t] = "forget" => \A c \in Cli : ~Live(c)
            /\ step[t] = "call" /\ script[t] # << >> /\ v # Nil => at[t] > 0 /\ script[t][at[t]] = "Enable"

SkycliInv == \E v \in Values : SkycliIs(v)

GroupInv ==
  /\ GroupTypeOK
  /\ ThreadsInv
  /\ OneAtATime => ~crashed /\ SkycliInv

-----------------------------------------------------------------------------
\* What the constants are.
LEMMA Constants ==
  /\ MaxCli \in Nat /\ Cli \subseteq Nat \ {0}
  /\ "skycli" \in Cells /\ "skycli" \notin Services /\ Services \subseteq Cells /\ Controller \in Services
  /\ Nil \in Iface /\ \A c \in Cli : Value(c) \in Iface /\ Value(c) # Nil /\ Whole(Value(c)) /\ Value(c).data = c
  /\ Controls \subseteq Threads /\ \A c \in Cli : Callback(c) \in Threads \ Controls
<1>1. MaxCli \in Nat /\ Cli \subseteq Nat \ {0}
  BY BoundsAssumption DEF Cli
<1>2. "skycli" \in Cells /\ "skycli" \notin Services /\ Services \subseteq Cells /\ Controller \in Services
  BY ServicesAssumption DEF Cells
<1>3. Nil \in Iface /\ \A c \in Cli : Value(c) \in Iface /\ Value(c) # Nil /\ Whole(Value(c)) /\ Value(c).data = c
  BY <1>1 DEF Nil, Iface, Value, Whole, Cli
<1>4. Controls \subseteq Threads /\ \A c \in Cli : Callback(c) \in Threads \ Controls
  BY ThreadsAssumption DEF Threads
<1>. QED  BY <1>1, <1>2, <1>3, <1>4

LEMMA ScriptTyped ==
  ASSUME GroupTypeOK, NEW t \in Controls
  PROVE  script[t] \in Seq({"Enable", "Disable"}) /\ Len(script[t]) \in Nat /\ (Len(script[t]) = 0 => script[t] = << >>)
<1>1. script[t] \in Seq({"Enable", "Disable"})
  BY ScriptsAssumption DEF GroupTypeOK
<1>. QED  BY <1>1, EmptySeq

\* The words of an assignment.
LEMMA StoreTyped ==
  ASSUME pending \subseteq StoredWords, NEW t \in Threads, NEW cell \in Cells, NEW value \in Iface,
         Store(t, cell, value)
  PROVE  /\ pending' \subseteq StoredWords
         /\ \A x \in pending' : x \in pending \/ (x.by = t /\ x.cell = cell /\ x.val = value[x.word])
         /\ \A w \in {"tab", "data"} : \E x \in pending' : x.by = t /\ x.cell = cell /\ x.word = w
         /\ pending \subseteq pending'
<1>1. \A w \in {"tab", "data"} : [by |-> t, cell |-> cell, word |-> w, val |-> value[w]] \in StoredWords
  BY DEF StoredWords, Iface
<1>2. \A w \in {"tab", "data"} : [by |-> t, cell |-> cell, word |-> w, val |-> value[w]] \in pending'
  BY DEF Store, Words
<1>3. \A x \in pending' : x \in pending \/ (\E w \in {"tab", "data"} : x = [by |-> t, cell |-> cell, word |-> w, val |-> value[w]])
  BY DEF Store, Words
<1>4. \A x \in pending' : x \in pending \/ (x.by = t /\ x.cell = cell /\ x.val = value[x.word])
  BY <1>3
<1>5. \A w \in {"tab", "data"} : \E x \in pending' : x.by = t /\ x.cell = cell /\ x.word = w
  BY <1>2
<1>. QED  BY <1>1, <1>3, <1>4, <1>5 DEF Store

\* A call on the skylb client.
LEMMA OnSkycliTyped ==
  ASSUME GroupTypeOK, NEW state \in Lives, OnSkycli(state)
  PROVE  cli' \in [Cli -> Lives] /\ crashed' \in BOOLEAN
<1>1. mem["skycli"] \in Iface
  BY Constants DEF GroupTypeOK
<1>2. Whole(mem["skycli"]) => mem["skycli"].data \in Cli
  BY <1>1, Constants DEF Whole, Iface, Cli
<1>. QED  BY <1>2 DEF OnSkycli, GroupTypeOK

-----------------------------------------------------------------------------
\* Every step keeps the types.
LEMMA GroupTypeStep ==
  ASSUME GroupTypeOK, GroupNext
  PROVE  GroupTypeOK'
<1>. USE Constants DEF GroupTypeOK, Lives, Labels
<1>1. ASSUME NEW t \in Controls, NewServiceCli(t) PROVE GroupTypeOK'
  <2>1. PICK c \in Cli : cli' = [cli EXCEPT ![c] = "made"] /\ Store(t, "skycli", Value(c))
    BY <1>1 DEF NewServiceCli
  <2>2. pending' \subseteq StoredWords
    BY <2>1, StoreTyped
  <2>. QED  BY <1>1, <2>1, <2>2 DEF NewServiceCli, GoTo
<1>2. ASSUME NEW t \in Controls, Resolve(t) PROVE GroupTypeOK'
  BY <1>2, OnSkycliTyped DEF Resolve, GoTo
<1>3. ASSUME NEW t \in Controls, Start(t) PROVE GroupTypeOK'
  BY <1>3, OnSkycliTyped DEF Start, CallReturns, GoTo
<1>4. ASSUME NEW t \in Controls, BeginDisable(t) PROVE GroupTypeOK'
  BY <1>4 DEF BeginDisable, CallReturns, GoTo
<1>5. ASSUME NEW t \in Controls, NEW s \in Services, DisableService(t, s) PROVE GroupTypeOK'
  <2>1. pending' \subseteq StoredWords
    BY <1>5, StoreTyped DEF DisableService
  <2>. QED  BY <1>5, <2>1 DEF DisableService
<1>6. ASSUME NEW t \in Controls, DisableController(t) PROVE GroupTypeOK'
  <2>1. pending' \subseteq StoredWords
    BY <1>6, StoreTyped DEF DisableController
  <2>. QED  BY <1>6, <2>1 DEF DisableController, GoTo
<1>7. ASSUME NEW t \in Controls, Shutdown(t) PROVE GroupTypeOK'
  BY <1>7, OnSkycliTyped DEF Shutdown, GoTo
<1>8. ASSUME NEW t \in Controls, Forget(t) PROVE GroupTypeOK'
  <2>1. pending' \subseteq StoredWords
    BY <1>8, StoreTyped DEF Forget
  <2>. QED  BY <1>8, <2>1 DEF Forget, CallReturns, GoTo
<1>9. ASSUME NEW c \in Cli, BeginCallback(c) PROVE GroupTypeOK'
  BY <1>9 DEF BeginCallback
<1>10. ASSUME NEW c \in Cli, NEW s \in Services, EnableService(c, s) PROVE GroupTypeOK'
  <2>1. pending' \subseteq StoredWords
    BY <1>10, StoreTyped DEF EnableService
  <2>. QED  BY <1>10, <2>1 DEF EnableService
<1>11. ASSUME NEW x \in pending, Commit(x) PROVE GroupTypeOK'
  <2>1. x.cell \in Cells /\ mem[x.cell] \in Iface
        /\ ((x.word = "tab" /\ x.val \in {0, 1}) \/ (x.word = "data" /\ x.val \in 0..MaxCli))
    BY DEF StoredWords
  <2>2. [mem[x.cell] EXCEPT ![x.word] = x.val] \in Iface
    BY <2>1 DEF Iface
  <2>3. mem' = [mem EXCEPT ![x.cell] = [mem[x.cell] EXCEPT ![x.word] = x.val]]
    BY <1>11 DEF Commit
  <2>. QED  BY <1>11, <2>1, <2>2, <2>3 DEF Commit
<1>. QED  BY <1>1, <1>2, <1>3, <1>4, <1>5, <1>6, <1>7, <1>8, <1>9, <1>10, <1>11 DEF GroupNext, Control, Skylb, Visible

\* Every step keeps who stores and who is in a call.
LEMMA ThreadsStep ==
  ASSUME GroupTypeOK, ThreadsInv, GroupNext
  PROVE  ThreadsInv'
<1>. USE Constants, ScriptTyped DEF ThreadsInv, GroupTypeOK
<1>a. ASSUME NEW t \in Controls, step[t] # "call" \/ (\E op \in {"Enable", "Disable"} : Calls(t, op))
      PROVE  script[t] # << >> /\ at[t] < Len(script[t])
  BY <1>a DEF Calls
<1>b. ASSUME NEW t \in Controls, NEW cell \in Cells, NEW value \in Iface, Store(t, cell, value),
             script[t] # << >>, script' = script
      PROVE  /\ \A x \in pending' : x.cell = "skycli" => x.by \in Controls
             /\ \A x \in pending' : x.by \in Controls => script'[x.by] # << >>
  BY <1>b, StoreTyped
<1>1. ASSUME NEW t \in Controls, NewServiceCli(t) PROVE ThreadsInv'
  <2>1. PICK c \in Cli : Store(t, "skycli", Value(c))
    BY <1>1 DEF NewServiceCli
  <2>2. Calls(t, "Enable") /\ script[t] # << >> /\ at[t] < Len(script[t]) /\ script[t][at[t] + 1] = "Enable"
    BY <1>1, <1>a DEF NewServiceCli, Calls
  <2>3. /\ \A x \in pending' : x.cell = "skycli" => x.by \in Controls
        /\ \A x \in pending' : x.by \in Controls => script'[x.by] # << >>
    BY <1>1, <1>b, <2>1, <2>2 DEF NewServiceCli
  <2>. QED  BY <1>1, <2>2, <2>3 DEF NewServiceCli, GoTo
<1>2. ASSUME NEW t \in Controls, Resolve(t) PROVE ThreadsInv'
  BY <1>2 DEF Resolve, GoTo
<1>3. ASSUME NEW t \in Controls, Start(t) PROVE ThreadsInv'
  BY <1>3 DEF Start, CallReturns, GoTo
<1>4. ASSUME NEW t \in Controls, BeginDisable(t) PROVE ThreadsInv'
  <2>1. at[t] < Len(script[t])
    BY <1>4 DEF BeginDisable, Calls
  <2>2. CASE CallReturns(t)
    BY <1>4, <2>1, <2>2 DEF BeginDisable, CallReturns, GoTo
  <2>3. CASE GoTo(t, "services") /\ UNCHANGED at
    BY <1>4, <2>1, <2>3 DEF BeginDisable, GoTo
  <2>. QED  BY <1>4, <2>2, <2>3 DEF BeginDisable
<1>5. ASSUME NEW t \in Controls, NEW s \in Services, DisableService(t, s) PROVE ThreadsInv'
  <2>1. /\ \A x \in pending' : x.cell = "skycli" => x.by \in Controls
        /\ \A x \in pending' : x.by \in Controls => script'[x.by] # << >>
    BY <1>5, <1>a, <1>b DEF DisableService
  <2>. QED  BY <1>5, <2>1 DEF DisableService
<1>6. ASSUME NEW t \in Controls, DisableController(t) PROVE ThreadsInv'
  <2>1. /\ \A x \in pending' : x.cell = "skycli" => x.by \in Controls
        /\ \A x \in pending' : x.by \in Controls => script'[x.by] # << >>
    BY <1>6, <1>a, <1>b DEF DisableController
  <2>. QED  BY <1>6, <2>1 DEF DisableController, GoTo
<1>7. ASSUME NEW t \in Controls, Shutdown(t) PROVE ThreadsInv'
  BY <1>7 DEF Shutdown, GoTo
<1>8. ASSUME NEW t \in Controls, Forget(t) PROVE ThreadsInv'
  <2>1. /\ \A x \in pending' : x.cell = "skycli" => x.by \in Controls
        /\ \A x \in pending' : x.by \in Controls => script'[x.by] # << >>
    BY <1>8, <1>a, <1>b DEF Forget
  <2>. QED  BY <1>8, <2>1 DEF Forget, CallReturns, GoTo
<1>9. ASSUME NEW c \in Cli, BeginCallback(c) PROVE ThreadsInv'
  BY <1>9 DEF BeginCallback
<1>10. ASSUME NEW c \in Cli, NEW s \in Services, EnableService(c, s) PROVE ThreadsInv'
  <2>1. \A x \in pending' : x \in pending \/ (x.by = Callback(c) /\ x.cell = s)
    BY <1>10, StoreTyped DEF EnableService
  <2>2. /\ \A x \in pending' : x.cell = "skycli" => x.by \in Controls
        /\ \A x \in pending' : x.by \in Controls => script'[x.by] # << >>
    BY <1>10, <2>1 DEF EnableService
  <2>. QED  BY <1>10, <2>2 DEF EnableService
<1>11. ASSUME NEW x \in pending, Commit(x) PROVE ThreadsInv'
  BY <1>11 DEF Commit
<1>. QED  BY <1>1, <1>2, <1>3, <1>4, <1>5, <1>6, <1>7, <1>8, <1>9, <1>10, <1>11 DEF GroupNext, Control, Skylb, Visible

-----------------------------------------------------------------------------
\* Between its stores the goroutine that switches the group sees the value the
\* skylb client's variable settles to.
LEMMA QuietSees ==
  ASSUME GroupTypeOK, ThreadsInv, OneAtATime, NEW t \in Controls, script[t] # << >>, Quiet(t),
         NEW v \in Values, Settles(v)
  PROVE  mem["skycli"] = v /\ \A x \in pending : x.cell # "skycli"
<1>1. \A x \in pending : x.cell # "skycli"
  BY DEF ThreadsInv, OneAtATime, Quiet
<1>2. mem["skycli"] \in Iface /\ v \in Iface
  BY Constants DEF GroupTypeOK, Values
<1>3. mem["skycli"].tab = v.tab /\ mem["skycli"].data = v.data
  BY <1>1 DEF Settles
<1>. QED  BY <1>1, <1>2, <1>3 DEF Iface

\* An assignment to another variable, and one to the skylb client's.
LEMMA StoreElsewhere ==
  ASSUME pending \subseteq StoredWords, NEW t \in Threads, NEW cell \in Cells \ {"skycli"}, NEW value \in Iface,
         Store(t, cell, value), mem' = mem, NEW v, Settles(v)
  PROVE  Settles(v)'
<1>1. \A x \in pending' : x \in pending \/ x.cell # "skycli"
  BY StoreTyped
<1>2. pending \subseteq pending'
  BY DEF Store
<1>. QED  BY <1>1, <1>2 DEF Settles

LEMMA StoreSkycli ==
  ASSUME pending \subseteq StoredWords, NEW t \in Threads, NEW value \in Iface,
         Store(t, "skycli", value), \A x \in pending : x.cell # "skycli"
  PROVE  Settles(value)'
BY StoreTyped, Constants DEF Settles

LEMMA CommitSettles ==
  ASSUME GroupTypeOK, NEW x \in pending, Commit(x), NEW v, Settles(v)
  PROVE  Settles(v)'
<1>1. /\ mem' = [mem EXCEPT ![x.cell] = [mem[x.cell] EXCEPT ![x.word] = x.val]] /\ pending' = pending \ {x}
      /\ x.cell \in Cells /\ x.word \in {"tab", "data"} /\ mem["skycli"] \in Iface
  BY Constants DEF Commit, GroupTypeOK, StoredWords
<1>2. ASSUME NEW w \in {"tab", "data"}
      PROVE  mem'["skycli"][w] = v[w] \/ \E y \in pending' : y.cell = "skycli" /\ y.word = w
  <2>1. CASE x.cell = "skycli" /\ x.word = w
    <3>1. x.val = v[w]
      BY <2>1 DEF Settles
    <3>2. mem'["skycli"][w] = x.val
      BY <1>1, <2>1, Constants DEF GroupTypeOK, Iface
    <3>. QED  BY <3>1, <3>2
  <2>2. CASE ~(x.cell = "skycli" /\ x.word = w)
    <3>1. mem'["skycli"][w] = mem["skycli"][w]
      BY <1>1, <2>2, Constants DEF GroupTypeOK, Iface
    <3>. QED  BY <1>1, <2>2, <3>1 DEF Settles
  <2>. QED  BY <2>1, <2>2
<1>. QED  BY <1>1, <1>2 DEF Settles

\* One goroutine switches the group, and it is the one that makes this step.
LEMMA Alone ==
  ASSUME GroupTypeOK, ThreadsInv, OneAtATime, NEW t \in Controls, script[t] # << >>
  PROVE  \A u \in Controls \ {t} : script[u] = << >> /\ step[u] = "call"
BY ScriptTyped DEF ThreadsInv, OneAtATime, GroupTypeOK

\* Every step keeps the value of the skylb client's variable right.
LEMMA SkycliStep ==
  ASSUME GroupTypeOK, ThreadsInv, ThreadsInv', GroupTypeOK', OneAtATime, ~crashed, SkycliInv, GroupNext
  PROVE  ~crashed' /\ SkycliInv'
<1>. USE Constants
<1>0. PICK v \in Values : SkycliIs(v)
  BY DEF SkycliInv
<1>a. ASSUME NEW t \in Controls, step[t] # "call" \/ (\E op \in {"Enable", "Disable"} : Calls(t, op)), Quiet(t)
      PROVE  /\ script[t] # << >> /\ mem["skycli"] = v /\ \A x \in pending : x.cell # "skycli"
             /\ \A u \in Controls \ {t} : script[u] = << >> /\ step[u] = "call"
  <2>1. script[t] # << >>
    BY <1>a, ScriptTyped DEF ThreadsInv, Calls, GroupTypeOK
  <2>. QED  BY <1>0, <1>a, <2>1, QuietSees, Alone DEF SkycliIs
<1>b. ASSUME NEW t \in Controls, NEW state, OnSkycli(state), step[t] # "call", Quiet(t)
      PROVE  /\ ~crashed' /\ mem["skycli"] = v
             /\ \E c \in Cli : v = Value(c) /\ cli' = [cli EXCEPT ![c] = state]
  <2>1. v # Nil /\ mem["skycli"] = v
    BY <1>0, <1>a, <1>b DEF SkycliIs
  <2>2. PICK c \in Cli : v = Value(c)
    BY <2>1 DEF Values
  <2>. QED  BY <1>b, <2>1, <2>2 DEF OnSkycli
<1>c. script' = script => (Alternating' <=> Alternating)
  BY DEF Alternating
<1>d. ASSUME NEW c \in Cli, v = Value(c), NEW state \in Lives, cli' = [cli EXCEPT ![c] = state], Alternating,
             NEW d \in Cli, Live(d)'
      PROVE  d = c /\ state # "down"
  <2>1. CASE d = c
    BY <1>d, <2>1 DEF Live, GroupTypeOK
  <2>2. CASE d # c
    <3>1. Live(d)
      BY <1>d, <2>2 DEF Live, GroupTypeOK
    <3>2. Value(d).data = Value(c).data
      BY <1>0, <1>d, <3>1 DEF SkycliIs
    <3>. QED  BY <2>2, <3>2
  <2>. QED  BY <2>1, <2>2
<1>1. ASSUME NEW t \in Controls, NewServiceCli(t) PROVE ~crashed' /\ SkycliInv'
  <2>1. PICK c \in Cli : cli[c] = "unmade" /\ cli' = [cli EXCEPT ![c] = "made"] /\ Store(t, "skycli", Value(c))
    BY <1>1 DEF NewServiceCli
  <2>2. /\ Calls(t, "Enable") /\ script[t] # << >> /\ \A x \in pending : x.cell # "skycli"
        /\ \A u \in Controls \ {t} : script[u] = << >> /\ step[u] = "call"
    BY <1>1, <1>a DEF NewServiceCli, Calls
  <2>3. Settles(Value(c))'
    BY <2>1, <2>2, StoreSkycli DEF GroupTypeOK
  <2>4. Alternating => \A d \in Cli : ~Live(d)
    <3>. SUFFICES ASSUME Alternating, NEW d \in Cli, Live(d) PROVE FALSE
      OBVIOUS
    <3>1. v = Value(d) /\ v # Nil
      BY <1>0 DEF SkycliIs
    <3>2. at[t] > 0 /\ script[t][at[t]] = "Enable" /\ step[t] = "call" /\ at[t] < Len(script[t]) /\ script[t][at[t] + 1] = "Enable"
      BY <1>0, <2>2, <3>1 DEF SkycliIs, Calls
    <3>a. at[t] \in Nat /\ Len(script[t]) \in Nat
      BY ScriptTyped DEF GroupTypeOK
    <3>b. at[t] > 0 /\ at[t] < Len(script[t])
      BY <3>2
    <3>3. at[t] \in 1..(Len(script[t]) - 1)
      BY <3>a, <3>b
    <3>4. ~(script[t][at[t]] = "Enable" /\ script[t][at[t] + 1] = "Enable")
      BY <3>3 DEF Alternating
    <3>. QED  BY <3>2, <3>4
  <2>5. step'[t] = "resolve" /\ \A u \in Controls \ {t} : step'[u] = "call" /\ script'[u] = << >>
    BY <1>1, <2>2 DEF NewServiceCli, GoTo, GroupTypeOK
  <2>6. Alternating => \A d \in Cli : Live(d)' => d = c
    BY <2>1, <2>4 DEF Live, GroupTypeOK
  <2>7. SkycliIs(Value(c))'
    BY <1>1, <1>c, <2>3, <2>5, <2>6 DEF SkycliIs, NewServiceCli
  <2>. QED  BY <1>1, <2>7 DEF NewServiceCli, SkycliInv, Values
<1>2. ASSUME NEW t \in Controls, Resolve(t) PROVE ~crashed' /\ SkycliInv'
  <2>1. /\ ~crashed' /\ step'[t] = "start" /\ \A u \in Controls \ {t} : step'[u] = "call" /\ script'[u] = << >>
        /\ \E c \in Cli : v = Value(c) /\ cli' = [cli EXCEPT ![c] = "resolved"]
    BY <1>2, <1>a, <1>b DEF Resolve, GoTo, GroupTypeOK
  <2>2. PICK c \in Cli : v = Value(c) /\ cli' = [cli EXCEPT ![c] = "resolved"]
    BY <2>1
  <2>3. Alternating => \A d \in Cli : Live(d)' => d = c
    BY <1>d, <2>2 DEF Lives
  <2>4. Settles(v)'
    BY <1>0, <1>2 DEF Settles, SkycliIs, Resolve
  <2>5. SkycliIs(v)'
    BY <1>2, <1>c, <2>1, <2>2, <2>3, <2>4 DEF SkycliIs, Resolve
  <2>. QED  BY <2>1, <2>5 DEF SkycliInv
<1>3. ASSUME NEW t \in Controls, Start(t) PROVE ~crashed' /\ SkycliInv'
  <2>1. /\ ~crashed' /\ step'[t] = "call" /\ \A u \in Controls \ {t} : step'[u] = "call" /\ script'[u] = << >>
        /\ \E c \in Cli : v = Value(c) /\ cli' = [cli EXCEPT ![c] = "started"]
    BY <1>3, <1>a, <1>b DEF Start, CallReturns, GoTo, GroupTypeOK
  <2>2. PICK c \in Cli : v = Value(c) /\ cli' = [cli EXCEPT ![c] = "started"]
    BY <2>1
  <2>3. Alternating => \A d \in Cli : Live(d)' => d = c
    BY <1>d, <2>2 DEF Lives
  <2>4. at'[t] = at[t] + 1 /\ at'[t] > 0 /\ script'[t][at'[t]] = "Enable"
    BY <1>3 DEF Start, CallReturns, GroupTypeOK, ThreadsInv
  <2>5. Settles(v)'
    BY <1>0, <1>3 DEF Settles, SkycliIs, Start
  <2>6. SkycliIs(v)'
    BY <1>3, <1>c, <2>1, <2>2, <2>3, <2>4, <2>5 DEF SkycliIs, Start
  <2>. QED  BY <2>1, <2>6 DEF SkycliInv
<1>4. ASSUME NEW t \in Controls, BeginDisable(t) PROVE ~crashed' /\ SkycliInv'
  <2>1. /\ mem["skycli"] = v /\ Quiet(t) /\ step[t] = "call"
        /\ \A u \in Controls \ {t} : script[u] = << >> /\ step[u] = "call"
    BY <1>4, <1>a DEF BeginDisable, Calls
  <2>2. Settles(v)'
    BY <1>0, <1>4 DEF Settles, SkycliIs, BeginDisable
  <2>3. CASE mem["skycli"].tab = 0
    <3>1. v = Nil
      BY <2>1, <2>3 DEF Values, Value
    <3>2. \A u \in Controls : step'[u] = "call"
      <4>1. step' = [step EXCEPT ![t] = "call"]
        BY <1>4, <2>3 DEF BeginDisable, CallReturns, GoTo
      <4>. QED  BY <2>1, <4>1 DEF GroupTypeOK
    <3>3. SkycliIs(v)'
      BY <1>0, <1>4, <1>c, <2>2, <3>1, <3>2 DEF SkycliIs, BeginDisable, Live
    <3>. QED  BY <1>4, <3>3 DEF SkycliInv, BeginDisable
  <2>4. CASE mem["skycli"].tab # 0
    <3>1. v # Nil
      BY <2>1, <2>4 DEF Nil
    <3>2. step'[t] = "services" /\ \A u \in Controls \ {t} : step'[u] = "call" /\ script'[u] = << >>
      BY <1>4, <2>1, <2>4 DEF BeginDisable, GoTo, GroupTypeOK
    <3>3. SkycliIs(v)'
      BY <1>0, <1>4, <1>c, <2>2, <3>1, <3>2 DEF SkycliIs, BeginDisable, Live
    <3>. QED  BY <1>4, <3>3 DEF SkycliInv, BeginDisable
  <2>. QED  BY <2>3, <2>4
<1>5. ASSUME NEW t \in Controls, NEW s \in Services, DisableService(t, s) PROVE ~crashed' /\ SkycliInv'
  <2>1. Settles(v)'
    BY <1>0, <1>5, StoreElsewhere DEF DisableService, SkycliIs, GroupTypeOK
  <2>2. SkycliIs(v)'
    BY <1>0, <1>5, <1>c, <2>1 DEF SkycliIs, DisableService, Live
  <2>. QED  BY <1>5, <2>2 DEF SkycliInv, DisableService
<1>6. ASSUME NEW t \in Controls, DisableController(t) PROVE ~crashed' /\ SkycliInv'
  <2>1. Settles(v)'
    BY <1>0, <1>6, StoreElsewhere DEF DisableController, SkycliIs, GroupTypeOK
  <2>2. step'[t] = "shutdown" /\ step[t] = "services" /\ \A u \in Controls \ {t} : step'[u] = step[u]
    BY <1>6 DEF DisableController, GoTo, GroupTypeOK
  <2>3. SkycliIs(v)'
    BY <1>0, <1>6, <1>c, <2>1, <2>2 DEF SkycliIs, DisableController, Live
  <2>. QED  BY <1>6, <2>3 DEF SkycliInv, DisableController
<1>7. ASSUME NEW t \in Controls, Shutdown(t) PROVE ~crashed' /\ SkycliInv'
  <2>1. /\ ~crashed' /\ step'[t] = "forget" /\ \A u \in Controls \ {t} : step'[u] = "call" /\ script'[u] = << >>
        /\ \E c \in Cli : v = Value(c) /\ cli' = [cli EXCEPT ![c] = "down"]
    BY <1>7, <1>a, <1>b DEF Shutdown, GoTo, GroupTypeOK
  <2>2. PICK c \in Cli : v = Value(c) /\ cli' = [cli EXCEPT ![c] = "down"]
    BY <2>1
  <2>3. Alternating => \A d \in Cli : ~Live(d)'
    BY <1>d, <2>2 DEF Lives
  <2>4. Settles(v)'
    BY <1>0, <1>7 DEF Settles, SkycliIs, Shutdown
  <2>5. SkycliIs(v)'
    BY <1>7, <1>c, <2>1, <2>2, <2>3, <2>4 DEF SkycliIs, Shutdown
  <2>. QED  BY <2>1, <2>5 DEF SkycliInv
<1>8. ASSUME NEW t \in Controls, Forget(t) PROVE ~crashed' /\ SkycliInv'
  <2>1. /\ \A x \in pending : x.cell # "skycli"
        /\ \A u \in Controls : step'[u] = "call"
    BY <1>8, <1>a DEF Forget, CallReturns, GoTo, GroupTypeOK
  <2>2. Settles(Nil)'
    BY <1>8, <2>1, StoreSkycli DEF Forget, GroupTypeOK
  <2>3. Alternating => \A c \in Cli : ~Live(c)'
    BY <1>0, <1>8 DEF SkycliIs, Forget, Live
  <2>4. SkycliIs(Nil)'
    BY <1>8, <1>c, <2>1, <2>2, <2>3 DEF SkycliIs, Forget
  <2>. QED  BY <1>8, <2>4 DEF SkycliInv, Forget, Values
<1>9. ASSUME NEW c \in Cli, BeginCallback(c) PROVE ~crashed' /\ SkycliInv'
  <2>1. SkycliIs(v)'
    BY <1>0, <1>9, <1>c DEF SkycliIs, BeginCallback, Live, Settles
  <2>. QED  BY <1>9, <2>1 DEF SkycliInv, BeginCallback
<1>10. ASSUME NEW c \in Cli, NEW s \in Services, EnableService(c, s) PROVE ~crashed' /\ SkycliInv'
  <2>1. Settles(v)'
    BY <1>0, <1>10, StoreElsewhere DEF EnableService, SkycliIs, GroupTypeOK
  <2>2. SkycliIs(v)'
    BY <1>0, <1>10, <1>c, <2>1 DEF SkycliIs, EnableService, Live
  <2>. QED  BY <1>10, <2>2 DEF SkycliInv, EnableService
<1>11. ASSUME NEW x \in pending, Commit(x) PROVE ~crashed' /\ SkycliInv'
  <2>1. Settles(v)'
    BY <1>0, <1>11, CommitSettles DEF SkycliIs
  <2>2. SkycliIs(v)'
    BY <1>0, <1>11, <1>c, <2>1 DEF SkycliIs, Commit, Live
  <2>. QED  BY <1>11, <2>2 DEF SkycliInv, Commit
<1>. QED  BY <1>1, <1>2, <1>3, <1>4, <1>5, <1>6, <1>7, <1>8, <1>9, <1>10, <1>11 DEF GroupNext, Control, Skylb, Visible

-----------------------------------------------------------------------------
LEMMA GroupInitInv ==
  ASSUME GroupInit
  PROVE  GroupInv
<1>. USE Constants DEF GroupInit
<1>1. GroupTypeOK
  BY DEF GroupTypeOK, Labels, Lives
<1>2. ThreadsInv
  BY <1>1, ScriptTyped DEF ThreadsInv
<1>3. SkycliIs(Nil)
  BY DEF SkycliIs, Settles, Live
<1>. QED  BY <1>1, <1>2, <1>3 DEF GroupInv, SkycliInv, Values

LEMMA GroupStepInv == GroupInv /\ [Next]_vars => GroupInv'
<1>. SUFFICES ASSUME GroupInv, [Next]_vars PROVE GroupInv'
  OBVIOUS
<1>1. CASE GroupNext
  <2>1. GroupTypeOK' /\ ThreadsInv'
    BY <1>1, GroupTypeStep, ThreadsStep DEF GroupInv
  <2>2. script' = script
    BY <1>1 DEF GroupNext, Control, Skylb, Visible, NewServiceCli, Resolve, Start, BeginDisable, DisableService,
                DisableController, Shutdown, Forget, BeginCallback, EnableService, Commit
  <2>3. OneAtATime' <=> OneAtATime
    BY <2>2 DEF OneAtATime
  <2>. QED  BY <1>1, <2>1, <2>3, SkycliStep DEF GroupInv
<1>2. CASE UNCHANGED groupVars
  <2>1. GroupTypeOK' /\ ThreadsInv' /\ (OneAtATime' <=> OneAtATime)
    BY <1>2 DEF groupVars, GroupInv, GroupTypeOK, ThreadsInv, OneAtATime
  <2>2. SkycliInv => SkycliInv'
    BY <1>2 DEF groupVars, SkycliInv, SkycliIs, Settles, Live, Alternating
  <2>. QED  BY <1>2, <2>1, <2>2 DEF GroupInv, groupVars
<1>. QED  BY <1>1, <1>2 DEF Next, vars

\* The inductive invariant of the group, in the gateway.
LEMMA GroupInvariance == Spec => []GroupInv
<1>1. Init => GroupInv
  BY GroupInitInv DEF Init
<1>. QED  BY <1>1, GroupStepInv, PTL DEF Spec

\* Where one goroutine makes all the calls of Enable and Disable, none of them
\* calls a method of a nil skylb client, whatever the callbacks are doing.
THEOREM GroupSafe == Spec => []NoCrash
<1>1. GroupInv => NoCrash
  BY DEF GroupInv, NoCrash
<1>. QED  BY <1>1, GroupInvariance, PTL

\* If it moreover never enables a group it has just enabled, every skylb client
\* it made is the current one or was shut down, whenever it is between calls.
THEOREM NothingLeaked == Spec => []NoLeakedCli
<1>1. GroupInv => NoLeakedCli
  <2>. SUFFICES ASSUME GroupInv, OneAtATime, Alternating, \A t \in Controls : Resting(t),
                       NEW c \in Cli, Live(c)
                PROVE  mem["skycli"] = Value(c)
    BY DEF NoLeakedCli, Live
  <2>1. PICK v \in Values : SkycliIs(v)
    BY DEF GroupInv, SkycliInv
  <2>2. v = Value(c)
    BY <2>1 DEF SkycliIs
  <2>3. \A x \in pending : x.cell # "skycli"
    BY DEF GroupInv, ThreadsInv, Resting, Quiet
  <2>4. mem["skycli"] \in Iface /\ v \in Iface
    BY Constants DEF GroupInv, GroupTypeOK, Values
  <2>5. mem["skycli"].tab = v.tab /\ mem["skycli"].data = v.data
    BY <2>1, <2>3 DEF SkycliIs, Settles
  <2>. QED  BY <2>2, <2>4, <2>5 DEF Iface
<1>. QED  BY <1>1, GroupInvariance, PTL

-----------------------------------------------------------------------------
(* The handlers in the gateway. *)

\* A step of the gateway is a step of a request handler, or of none: the value a
\* handler reads while it is half stored is one that RequestHandler provides for.
LEMMA HandlerStep == GroupTypeOK /\ [Next]_vars => [Handler!Next]_(Handler!handlerVars)
<1>. SUFFICES ASSUME GroupTypeOK, [Next]_vars PROVE [Handler!Next]_(Handler!handlerVars)
  OBVIOUS
<1>1. ASSUME NEW r \in Req, RequestStep(r) PROVE Handler!Next
  <2>1. mem[ServiceOf[r]] \in Handler!Iface
    BY Constants, ServiceOfAssumption DEF GroupTypeOK, Iface, Handler!Iface
  <2>2. CASE LoadClient(r)
    BY <2>1, <2>2 DEF LoadClient, Handler!Next
  <2>3. CASE \E status \in {"ok", "error"} : Backend(r, status)
    BY <2>3 DEF Backend, Handler!Next, Handler!Backend
  <2>. QED  BY <1>1, <2>2, <2>3 DEF RequestStep, Handler!Next
<1>2. Visitors[script] \subseteq Req
  BY VisitorsAssumption DEF GroupTypeOK
<1>3. CASE UNCHANGED handlerVars
  BY <1>3 DEF handlerVars, Handler!handlerVars
<1>. QED  BY <1>1, <1>2, <1>3 DEF Next, vars

\* The requests in the gateway are served as RequestHandler describes it, while
\* the group they go to is enabled, disabled and called back.
THEOREM GatewayServes == Spec => Handler!Init /\ [][Handler!Next]_(Handler!handlerVars)
<1>1. Init => Handler!Init
  BY DEF Init
<1>2. GroupInv => GroupTypeOK
  BY DEF GroupInv
<1>. QED  BY <1>1, <1>2, GroupInvariance, HandlerStep, PTL DEF Spec

HP == INSTANCE RequestHandler_proof WITH Conns <- 1..MaxCli

LEMMA SameAssumptions ==
  /\ Bindings \subseteq HP!Binding /\ Deployments \subseteq HP!Deployment /\ Kinds \subseteq HP!Kind
  /\ 1..MaxCli \subseteq Nat \ {0}
BY HandlersAssumption, BoundsAssumption
   DEF HP!Binding, HP!Deployment, HP!Kind, Handler!Binding, Handler!Deployment, Handler!Kind

LEMMA SameHandler ==
  /\ Handler!Init => HP!Init
  /\ [Handler!Next]_(Handler!handlerVars) => [HP!Next]_(HP!handlerVars)
<1>1. Handler!Init => HP!Init
  BY DEF Handler!Init, HP!Init, Handler!NilIface, HP!NilIface, Handler!NilContext, HP!NilContext,
         Handler!NewContext, HP!NewContext, Handler!NewBody, HP!NewBody
<1>2. [Handler!Next]_(Handler!handlerVars) => [HP!Next]_(HP!handlerVars)
  BY DEF Handler!Receive, HP!Receive, Handler!NotRouted, HP!NotRouted, Handler!Route, HP!Route,
         Handler!Load, HP!Load, Handler!AcceptWithoutHook, HP!AcceptWithoutHook,
         Handler!AcceptUnknownMethod, HP!AcceptUnknownMethod, Handler!Accept, HP!Accept,
         Handler!Derive, HP!Derive, Handler!Annotate, HP!Annotate, Handler!AnnotateFails,
         HP!AnnotateFails, Handler!Parse, HP!Parse, Handler!ParseFails, HP!ParseFails, Handler!Call,
         HP!Call, Handler!GiveUp, HP!GiveUp, Handler!Return, HP!Return, Handler!Handle, HP!Handle,
         Handler!Reply, HP!Reply, Handler!Disconnect, HP!Disconnect, Handler!Step, HP!Step,
         Handler!Backend, HP!Backend, Handler!Next, HP!Next, Handler!handlerVars, HP!handlerVars,
         Handler!HookSet, HP!HookSet, Handler!DebugMode, HP!DebugMode, Handler!UseRequestContext,
         HP!UseRequestContext, Handler!NewContext, HP!NewContext, Handler!NilContext, HP!NilContext,
         Handler!Goto, HP!Goto, Handler!CallHook, HP!CallHook, Handler!Fail, HP!Fail,
         Handler!Release, HP!Release, Handler!Panic, HP!Panic, Handler!Measure, HP!Measure,
         Handler!ReadForm, HP!ReadForm, Handler!ReadFormFails, HP!ReadFormFails, Handler!ReadBody,
         HP!ReadBody, Handler!ReadBodyFails, HP!ReadBodyFails, Handler!SendBody, HP!SendBody,
         Handler!Read, HP!Read, Handler!ReadBreaks, HP!ReadBreaks, Handler!ParseForm, HP!ParseForm,
         Handler!FormBreaks, HP!FormBreaks,
         Handler!RequestHandled, HP!RequestHandled, Handler!Verdicts, HP!Verdicts, Handler!Reported,
         HP!Reported, Handler!Silent, HP!Silent, Handler!Open, HP!Open, Handler!Iface, HP!Iface
<1>. QED  BY <1>1, <1>2

(***************************************************************************)
(* Every handler the gateway's groups register keeps what the handler's    *)
(* own proof establishes of it, whatever connections skycli hands out and  *)
(* whenever the groups are enabled and disabled around it: the invariant   *)
(* of RequestHandler_proof, with the connections 1..MaxCli, carried over   *)
(* the refinement GatewayServes.                                           *)
(***************************************************************************)
THEOREM GatewayKeeps ==
  Spec => [](/\ Handler!OneAnswer /\ Handler!CallGuarded /\ Handler!HandledOnce
             /\ Handler!ContextReleased /\ Handler!MeasuredOnce)
<1>1. HP!Init => HP!IInv /\ HP!MeasureInv
  BY HP!InitInv, HP!MeasureInit, SameAssumptions
<1>2. HP!IInv /\ [HP!Next]_(HP!handlerVars) => HP!IInv'
  BY HP!StepInv, SameAssumptions
<1>3. HP!IInv /\ HP!IInv' /\ HP!MeasureInv /\ [HP!Next]_(HP!handlerVars) => HP!MeasureInv'
  BY HP!MeasureStep, SameAssumptions
<1>4. HP!IInv /\ HP!MeasureInv =>
        HP!OneAnswer /\ HP!CallGuarded /\ HP!HandledOnce /\ HP!ContextReleased /\ HP!MeasuredOnce
  BY HP!IInvImplies, HP!MeasureImplies, SameAssumptions
<1>5. HP!OneAnswer /\ HP!CallGuarded /\ HP!HandledOnce /\ HP!ContextReleased /\ HP!MeasuredOnce =>
        Handler!OneAnswer /\ Handler!CallGuarded /\ Handler!HandledOnce /\ Handler!ContextReleased /\ Handler!MeasuredOnce
  BY DEF Handler!OneAnswer, HP!OneAnswer,
         Handler!CallGuarded, HP!CallGuarded,
         Handler!HandledOnce, HP!HandledOnce,
         Handler!ContextReleased, HP!ContextReleased,
         Handler!MeasuredOnce, HP!MeasuredOnce,
         Handler!Called, HP!Called,
         Handler!LastHook, HP!LastHook,
         Handler!HookSet, HP!HookSet,
         Handler!UseRequestContext, HP!UseRequestContext,
         Handler!Closed, HP!Closed
<1>. QED  BY <1>1, <1>2, <1>3, <1>4, <1>5, SameHandler, GatewayServes, PTL
=============================================================================
