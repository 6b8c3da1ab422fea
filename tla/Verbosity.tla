----------------------------- MODULE Verbosity -----------------------------
(***************************************************************************)
(* V-leveled logging in util/glog.  A statement guarded by V(level) reads  *)
(* the global verbosity and the length of the -vmodule filter without a    *)
(* lock, and the cache of levels per call site under the logging mutex.    *)
(* Setting -v or -vmodule turns both off, changes the filter, and turns    *)
(* them on again, under that mutex; SetVerbosity stores without it.        *)
(*                                                                         *)
(* A call site stands for its program counter and the file it is in; a     *)
(* pattern of the filter is the set of sites in the files it matches.      *)
(***************************************************************************)
EXTENDS Naturals, Sequences

CONSTANTS
  Threads,  \* goroutines that log or set flags
  Sites,    \* call sites of V
  Scripts   \* script[t] of a script: the calls that goroutine t makes, in order

Pattern == [sites : SUBSET Sites, level : Nat]

ASSUME ThreadsAssumption == Threads \cap {"free", "daemon", "flusher"} = {}
ASSUME ScriptsAssumption ==
  \A s \in Scripts : \A t \in Threads :
    /\ Len(s[t]) \in Nat
    /\ \A k \in 1..Len(s[t]) :
         /\ s[t][k].op \in {"V", "Level.Set", "SetVerbosity"} => s[t][k].level \in Nat
         /\ s[t][k].op = "moduleSpec.Set" => s[t][k].filter \in Seq(Pattern)

VARIABLES
  script,        \* what the goroutines of this process call
  pc,            \* where each goroutine is in its call
  at,            \* the calls of its script it has finished
  mu,            \* the holder of logging.mu, or "free"
  verbosity,     \* logging.verbosity
  filterLength,  \* logging.filterLength
  filter,        \* logging.vmodule.filter
  vmap,          \* logging.vmap: the level of each site that was looked up
  arg,           \* the verbosity a setter restores
  verdict,       \* what each goroutine's last V returned
  inEffect,      \* history: the settings in effect, two while one replaces the other,
                 \* each with the number of settings made before it
  seen           \* history: the settings in effect at some time of a V call

frameVars == <<script, pc, at, mu>>
levelVars == <<verbosity, filterLength, filter, vmap, arg, verdict, inEffect, seen>>

Call(t) == script[t][at[t] + 1]
Calls(t, ops) == pc[t] = "ready" /\ at[t] < Len(script[t]) /\ Call(t).op \in ops
Setting(v, f, n) == [verbosity |-> v, filter |-> f, nth |-> n]
InV == {"vlen", "vslow"}

LevelInit ==
  /\ script \in Scripts
  /\ pc = [t \in Threads |-> "ready"]
  /\ at = [t \in Threads |-> 0]
  /\ mu = "free"
  /\ verbosity = 0
  /\ filterLength = 0
  /\ filter = << >>
  /\ vmap = << >>
  /\ arg = [t \in Threads |-> 0]
  /\ verdict = [t \in Threads |-> FALSE]
  /\ inEffect = { Setting(0, << >>, 0) }
  /\ seen = [t \in Threads |-> {}]

Goto(t, label) == pc' = [pc EXCEPT ![t] = label]
Finish(t) == Goto(t, "ready") /\ at' = [at EXCEPT ![t] = @ + 1]

\* The level of the first pattern that matches the site's file.
LevelAt(f, site) ==
  LET matching == { i \in DOMAIN f : site \in f[i].sites }
  IN  IF matching = {} THEN 0
      ELSE f[CHOOSE i \in matching : \A j \in matching : i <= j].level

Enabled(setting, call) ==
  \/ setting.verbosity >= call.level
  \/ setting.filter # << >> /\ LevelAt(setting.filter, call.site) >= call.level

TakesEffect(settings) ==
  /\ inEffect' = settings
  /\ seen' = [t \in Threads |-> IF pc[t] \in InV THEN seen[t] \cup settings ELSE seen[t]]

-----------------------------------------------------------------------------
\* Level.Set takes the lock and passes the new verbosity to setVState.
LevelSet(t) ==
  /\ Calls(t, {"Level.Set"})
  /\ mu = "free"
  /\ mu' = t
  /\ arg' = [arg EXCEPT ![t] = Call(t).level]
  /\ TakesEffect(inEffect \cup { Setting(Call(t).level, s.filter, s.nth + 1) : s \in inEffect })
  /\ Goto(t, "off")
  /\ UNCHANGED <<script, at, verbosity, filterLength, filter, vmap, verdict>>

\* moduleSpec.Set reads the verbosity that setVState will restore.
ModuleSet(t) ==
  /\ Calls(t, {"moduleSpec.Set"})
  /\ mu = "free"
  /\ mu' = t
  /\ arg' = [arg EXCEPT ![t] = verbosity]
  /\ TakesEffect(inEffect \cup { Setting(s.verbosity, Call(t).filter, s.nth + 1) : s \in inEffect })
  /\ Goto(t, "off")
  /\ UNCHANGED <<script, at, verbosity, filterLength, filter, vmap, verdict>>

\* setVState turns V off, first the verbosity, then the filter.
VerbosityOff(t) ==
  /\ pc[t] = "off"
  /\ verbosity' = 0
  /\ Goto(t, "length off")
  /\ UNCHANGED <<script, at, mu, filterLength, filter, vmap, arg, verdict, inEffect, seen>>

FilterOff(t) ==
  /\ pc[t] = "length off"
  /\ filterLength' = 0
  /\ Goto(t, "filter")
  /\ UNCHANGED <<script, at, mu, verbosity, filter, vmap, arg, verdict, inEffect, seen>>

\* Mutant: the cache survives a new filter.
SetFilterKeepsCache(t) ==
  /\ pc[t] = "filter"
  /\ IF Call(t).op = "moduleSpec.Set" THEN filter' = Call(t).filter ELSE UNCHANGED filter
  /\ filterLength' = Len(filter')
  /\ Goto(t, "on")
  /\ UNCHANGED <<script, at, mu, verbosity, vmap, arg, verdict, inEffect, seen>>

\* It installs the filter, wipes the cache if the filter is a new one, ...
SetFilter(t) ==
  /\ pc[t] = "filter"
  /\ IF Call(t).op = "moduleSpec.Set"
       THEN filter' = Call(t).filter /\ vmap' = << >>
       ELSE UNCHANGED <<filter, vmap>>
  /\ filterLength' = Len(filter')
  /\ Goto(t, "on")
  /\ UNCHANGED <<script, at, mu, verbosity, arg, verdict, inEffect, seen>>

\* ... and turns V on again; the deferred Unlock follows.
VerbosityOn(t) ==
  /\ pc[t] = "on"
  /\ verbosity' = arg[t]
  /\ mu' = "free"
  /\ TakesEffect({ s \in inEffect : \A r \in inEffect : r.nth <= s.nth })
  /\ Finish(t)
  /\ UNCHANGED <<script, filterLength, filter, vmap, arg, verdict>>

\* SetVerbosity stores atomically, without the lock.
SetVerbosity(t) ==
  /\ Calls(t, {"SetVerbosity"})
  /\ verbosity' = Call(t).level
  /\ TakesEffect({ Setting(Call(t).level, s.filter, s.nth + 1) : s \in inEffect })
  /\ Finish(t)
  /\ UNCHANGED <<script, mu, filterLength, filter, vmap, arg, verdict>>

-----------------------------------------------------------------------------
Decide(t, fires) == verdict' = [verdict EXCEPT ![t] = fires] /\ Goto(t, "decided")

\* V: first test, of the global verbosity.
VFast(t) ==
  /\ Calls(t, {"V"})
  /\ seen' = [seen EXCEPT ![t] = inEffect]
  /\ IF verbosity >= Call(t).level THEN Decide(t, TRUE) ELSE Goto(t, "vlen") /\ UNCHANGED verdict
  /\ UNCHANGED <<script, at, mu, verbosity, filterLength, filter, vmap, arg, inEffect>>

\* Second test: is there a filter at all?
VLength(t) ==
  /\ pc[t] = "vlen"
  /\ IF filterLength > 0 THEN Goto(t, "vslow") /\ UNCHANGED verdict ELSE Decide(t, FALSE)
  /\ UNCHANGED <<script, at, mu, verbosity, filterLength, filter, vmap, arg, inEffect, seen>>

\* Under the lock: the cached level of the site, computed on its first use.
VSlow(t) ==
  /\ pc[t] = "vslow"
  /\ mu = "free"
  /\ LET site == Call(t).site
         level == IF site \in DOMAIN vmap THEN vmap[site] ELSE LevelAt(filter, site)
     IN  /\ vmap' = [s \in DOMAIN vmap \cup {site} |-> IF s = site THEN level ELSE vmap[s]]
         /\ Decide(t, level >= Call(t).level)
  /\ UNCHANGED <<script, at, mu, verbosity, filterLength, filter, arg, inEffect, seen>>

LevelNext(t) ==
  \/ LevelSet(t) \/ ModuleSet(t) \/ VerbosityOff(t) \/ FilterOff(t) \/ SetFilter(t) \/ VerbosityOn(t)
  \/ SetVerbosity(t)
  \/ VFast(t) \/ VLength(t) \/ VSlow(t)

-----------------------------------------------------------------------------
\* What is set is set under the lock, unless one goroutine does it all:
\* SetVerbosity does not wait for a setting that is under way.
StoresAlone ==
  \A s \in Scripts : \A t, u \in Threads :
    (\E k \in 1..Len(s[t]) : s[t][k].op = "SetVerbosity") /\ u # t =>
      \A k \in 1..Len(s[u]) : s[u][k].op \notin {"Level.Set", "moduleSpec.Set"}

\* V answers for a setting that was in effect while it ran: it never fires in
\* the transition from one setting to the next when neither asks for it, nor
\* because of a level cached for an earlier filter; and it is exact while
\* nothing is set, not even to the value it has.  What a setting enables is
\* taken from the code and the first line of V's comment (glog.go:1129); the
\* last sentence of the comment (glog.go:1140) compares the other way round.
VerbosityExact ==
  \A t \in Threads : pc[t] = "decided" =>
    IF verdict[t] THEN \E s \in seen[t] : Enabled(s, Call(t))
    ELSE \E s \in seen[t] : ~Enabled(s, Call(t)) \/ \E r \in seen[t] : r # s
=============================================================================
