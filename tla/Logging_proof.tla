--------------------------- MODULE Logging_proof ---------------------------
(***************************************************************************)
(* Proofs that the logging mutex has one holder, that V answers for a      *)
(* setting that was in effect while it ran, and that the logs keep their   *)
(* lines.                                                                  *)
(***************************************************************************)
EXTENDS Logging, SequenceTheorems, WellFoundedInduction, TLAPS

Changing == {"off", "length off", "filter", "on"}
Locked == Changing \cup {"create", "write", "written", "dump", "unlock", "flush"}
Labels == Locked \cup InV \cup {"ready", "decided", "format", "output", "exit 1", "exit 255"}
SettingType == [verbosity : Nat, filter : Seq(Pattern), nth : Nat]
Several(S) == \E r, s \in S : r # s

\* Where the goroutines are.
PlaceInv ==
  /\ script \in Scripts
  /\ pc \in [Threads -> Labels]
  /\ at \in [Threads -> Nat]
  /\ flusher \in [Threads -> {"none", "started", "flushing", "done"}]

TypeInv ==
  /\ PlaceInv
  /\ arg \in [Threads -> Nat]
  /\ verdict \in [Threads -> BOOLEAN]
  /\ seen = [t \in Threads |-> seen[t]]

\* A goroutine that is past Lock and not yet at Unlock holds the mutex, and so
\* does the one goroutine at most that flushes before an exit.
MutexInv ==
  /\ \A t \in Threads : pc[t] \in Locked => mu = t
  /\ \A t \in Threads : flusher[t] = "flushing" => mu = "flusher"
  /\ \A t, u \in Threads : flusher[t] = "flushing" /\ flusher[u] = "flushing" => t = u

Sets(t) == Call(t).op \in {"Level.Set", "moduleSpec.Set"}

CallInv ==
  \A t \in Threads :
    /\ pc[t] \in Changing => at[t] + 1 \in 1..Len(script[t]) /\ Sets(t)
    /\ pc[t] \in InV => at[t] + 1 \in 1..Len(script[t]) /\ Call(t).op = "V"

\* The cache agrees with the filter.
CacheInv == \A site \in DOMAIN vmap : vmap[site] = LevelAt(filter, site)

\* Nothing is being set.
Steady(s) ==
  /\ inEffect = {s}
  /\ verbosity = s.verbosity /\ filter = s.filter /\ filterLength = Len(s.filter)

\* Goroutine t replaces one setting by the next.
Replaces(t, old, new) ==
  /\ inEffect = {old, new} /\ old.nth < new.nth
  /\ verbosity \in {0, old.verbosity}
  /\ arg[t] = new.verbosity
  /\ new.filter = IF Call(t).op = "moduleSpec.Set" THEN Call(t).filter ELSE old.filter
  /\ filter = IF pc[t] = "on" THEN new.filter ELSE old.filter
  /\ pc[t] = "on" => filterLength = Len(filter)

SettingInv ==
  /\ (\A t \in Threads : pc[t] \notin Changing) => \E s \in SettingType : Steady(s)
  /\ \A t \in Threads : pc[t] \in Changing =>
       \E old, new \in SettingType : Replaces(t, old, new)

\* A V call under way has seen a change, or fell through its first test.
VInv ==
  \A t \in Threads : pc[t] \in InV =>
    /\ inEffect \subseteq seen[t]
    /\ \/ Several(seen[t])
       \/ \E s \in SettingType : seen[t] = {s} /\ s.verbosity < Call(t).level

LevelInv == TypeInv /\ CallInv /\ CacheInv /\ SettingInv /\ VInv /\ VerbosityExact
IInv == LevelInv /\ MutexInv

-----------------------------------------------------------------------------
LEMMA InitIInv == Init => IInv
<1> SUFFICES ASSUME Init PROVE IInv
  OBVIOUS
<1> USE DEF Init, LevelInit
<1>1. TypeInv
  BY SMT DEF TypeInv, PlaceInv, Labels
<1>2. MutexInv /\ CallInv /\ VInv /\ VerbosityExact
  BY DEF MutexInv, CallInv, VInv, VerbosityExact, Locked, Changing, InV
<1>3. CacheInv
  BY SMT DEF CacheInv
<1>4. SettingInv
  <2> DEFINE s == Setting(0, << >>, 0)
  <2>1. s \in SettingType
    BY SMT DEF Setting, SettingType
  <2>2. Steady(s)
    BY SMT DEF Steady, Setting
  <2> QED
    BY <2>1, <2>2 DEF SettingInv, Changing
<1> QED
  BY <1>1, <1>2, <1>3, <1>4 DEF IInv, LevelInv

-----------------------------------------------------------------------------
\* A goroutine that is where it was, in the same call.
Stays(u) == pc'[u] = pc[u] /\ at'[u] = at[u]

\* A change of the settings is noticed by all V calls under way.
LEMMA Watched ==
  ASSUME LevelInv, NEW S, TakesEffect(S), Several(inEffect \cup S),
         UNCHANGED <<script, verdict>>,
         \A u \in Threads :
           Stays(u) \/ (pc[u] \notin InV /\ pc'[u] \notin InV \cup {"decided"})
  PROVE  VInv' /\ VerbosityExact' /\ seen' = [u \in Threads |-> seen'[u]]
<1>0. seen' = [u \in Threads |-> IF pc[u] \in InV THEN seen[u] \cup S ELSE seen[u]] /\ inEffect' = S
  BY DEF TakesEffect
<1>1. VInv'
  <2> SUFFICES ASSUME NEW u \in Threads, pc'[u] \in InV
               PROVE  inEffect' \subseteq seen'[u] /\ Several(seen'[u])
    BY DEF VInv
  <2>1. pc[u] \in InV
    BY DEF Stays
  <2>2. seen'[u] = seen[u] \cup S /\ inEffect \subseteq seen[u]
    BY <1>0, <2>1 DEF LevelInv, VInv
  <2> QED
    BY <1>0, <2>2 DEF Several
<1>2. VerbosityExact'
  <2> SUFFICES ASSUME NEW u \in Threads, pc'[u] = "decided"
               PROVE  IF verdict'[u] THEN \E s \in seen'[u] : Enabled(s, Call(u)')
                      ELSE \E s \in seen'[u] : ~Enabled(s, Call(u)') \/ \E r \in seen'[u] : r # s
    BY DEF VerbosityExact, Enabled
  <2>1. pc[u] = "decided" /\ at'[u] = at[u]
    BY DEF Stays
  <2>2. seen'[u] = seen[u] /\ verdict'[u] = verdict[u] /\ Call(u)' = Call(u)
    BY <1>0, <2>1 DEF InV, Call
  <2> QED
    BY <2>1, <2>2 DEF LevelInv, VerbosityExact
<1> QED
  BY <1>0, <1>1, <1>2

\* A V call sees no less when the settings and the verdicts stay.
LEMMA Unwatched ==
  ASSUME LevelInv, UNCHANGED <<script, verdict, inEffect, seen>>,
         \A u \in Threads :
           Stays(u) \/ (pc[u] \notin InV /\ pc'[u] \notin InV \cup {"decided"})
  PROVE  VInv' /\ VerbosityExact'
<1>0. \A u \in Threads : pc'[u] \in InV \cup {"decided"} => pc[u] = pc'[u] /\ Call(u)' = Call(u)
  BY DEF Stays, Call, InV
<1>1. VInv'
  BY <1>0 DEF LevelInv, VInv
<1>2. VerbosityExact'
  BY <1>0 DEF LevelInv, VerbosityExact, Enabled
<1> QED
  BY <1>1, <1>2

\* Nothing starts or stops being set, and no setter takes a step.
LEMMA SettingsStay ==
  ASSUME LevelInv, UNCHANGED <<script, verbosity, filterLength, filter, arg, inEffect>>,
         \A u \in Threads : Stays(u) \/ (pc[u] \notin Changing /\ pc'[u] \notin Changing)
  PROVE  SettingInv'
<1>1. \A u \in Threads : pc'[u] \in Changing <=> pc[u] \in Changing
  BY DEF Stays
<1>2. (\A u \in Threads : pc'[u] \notin Changing) => \E s \in SettingType : Steady(s)'
  <2> SUFFICES ASSUME \A u \in Threads : pc'[u] \notin Changing
               PROVE  \E s \in SettingType : Steady(s)'
    OBVIOUS
  <2>1. PICK s \in SettingType : Steady(s)
    BY <1>1 DEF LevelInv, SettingInv
  <2>2. Steady(s)'
    BY <2>1 DEF Steady
  <2> QED
    BY <2>2
<1>3. ASSUME NEW u \in Threads, pc'[u] \in Changing
      PROVE  \E old, new \in SettingType : Replaces(u, old, new)'
  <2>1. PICK old \in SettingType, new \in SettingType : Replaces(u, old, new)
    BY <1>1, <1>3 DEF LevelInv, SettingInv
  <2>2. pc'[u] = pc[u] /\ Call(u)' = Call(u)
    BY <1>3 DEF Stays, Call
  <2>3. Replaces(u, old, new)'
    BY <2>1, <2>2 DEF Replaces
  <2> QED
    BY <2>3
<1> QED
  BY <1>2, <1>3 DEF SettingInv

\* Steps that leave the levels alone and move no goroutine into or out of V
\* or a setting, those that leave "decided" apart.
LEMMA Quiet ==
  ASSUME LevelInv, UNCHANGED <<script, levelVars>>,
         pc' \in [Threads -> Labels], at' \in [Threads -> Nat],
         flusher' \in [Threads -> {"none", "started", "flushing", "done"}],
         \A u \in Threads :
           Stays(u) \/ (pc[u] \notin Changing \cup InV /\ pc'[u] \notin Changing \cup InV \cup {"decided"})
  PROVE  LevelInv'
<1> USE DEF levelVars
<1>1. TypeInv'
  BY DEF LevelInv, TypeInv, PlaceInv
<1>2. CallInv'
  <2>1. \A u \in Threads : pc'[u] \in Changing \cup InV =>
          pc[u] = pc'[u] /\ at'[u] = at[u] /\ Call(u)' = Call(u)
    BY DEF Stays, Call
  <2> QED
    BY <2>1 DEF LevelInv, CallInv, Sets
<1>3. CacheInv'
  BY DEF LevelInv, CacheInv
<1>4. VInv' /\ VerbosityExact'
  BY Unwatched
<1>5. SettingInv'
  BY SettingsStay
<1> QED
  BY <1>1, <1>2, <1>3, <1>4, <1>5 DEF LevelInv

-----------------------------------------------------------------------------
\* The call of a goroutine that is in one.
LEMMA CallOk ==
  ASSUME TypeInv, NEW t \in Threads, at[t] + 1 \in 1..Len(script[t])
  PROVE  /\ Call(t).op \in {"V", "Level.Set", "SetVerbosity"} => Call(t).level \in Nat
         /\ Call(t).op = "moduleSpec.Set" => Call(t).filter \in Seq(Pattern)
BY ScriptsAssumption DEF TypeInv, PlaceInv, Call

LEMMA CallsOk ==
  ASSUME PlaceInv, NEW t \in Threads, NEW ops, Calls(t, ops)
  PROVE  at[t] + 1 \in 1..Len(script[t]) /\ pc[t] = "ready" /\ Call(t).op \in ops
<1>1. Len(script[t]) \in Nat /\ at[t] \in Nat /\ at[t] < Len(script[t])
  BY ScriptsAssumption DEF PlaceInv, Calls
<1>2. at[t] + 1 \in 1..Len(script[t])
  BY <1>1
<1> QED
  BY <1>2 DEF Calls

\* There is one goroutine at most that changes the settings.
LEMMA OneChanges ==
  ASSUME MutexInv, NEW t \in Threads, NEW u \in Threads,
         pc[t] \in Changing, pc[u] \in Changing
  PROVE  t = u
BY DEF MutexInv, Locked

\* None does when the mutex is free.
LEMMA NoneChanges ==
  ASSUME MutexInv, mu = "free"
  PROVE  \A t \in Threads : pc[t] \notin Changing
BY ThreadsAssumption DEF MutexInv, Locked

\* Setting the flags begins: the next setting, new, is now in effect as well.
LEMMA Begins ==
  ASSUME IInv, NEW t \in Threads, mu = "free",
         pc[t] = "ready", at[t] + 1 \in 1..Len(script[t]), Sets(t),
         NEW old \in SettingType, NEW new \in SettingType, Steady(old),
         new.nth = old.nth + 1,
         new.filter = IF Call(t).op = "moduleSpec.Set" THEN Call(t).filter ELSE old.filter,
         TakesEffect({old, new}), arg' = [arg EXCEPT ![t] = new.verbosity], Goto(t, "off"),
         UNCHANGED <<script, at, verbosity, filterLength, filter, vmap, verdict, flusher>>
  PROVE  LevelInv'
<1>0. /\ TypeInv
      /\ pc' = [pc EXCEPT ![t] = "off"] /\ pc'[t] = "off" /\ inEffect' = {old, new}
      /\ old.nth \in Nat /\ new.nth \in Nat /\ new.verbosity \in Nat
  BY DEF Goto, TakesEffect, SettingType, IInv, LevelInv, TypeInv, PlaceInv
<1>1. \A u \in Threads : Stays(u) \/ (u = t /\ pc[u] = "ready" /\ pc'[u] = "off")
  BY <1>0 DEF Stays, TypeInv, PlaceInv
<1>2. VInv' /\ VerbosityExact' /\ seen' = [u \in Threads |-> seen'[u]]
  <2>1. old # new
    BY <1>0
  <2>2. Several(inEffect \cup {old, new})
    BY <2>1 DEF Several
  <2> QED
    BY <1>1, <2>2, Watched DEF IInv, InV
<1>3. TypeInv'
  BY <1>0, <1>2 DEF TypeInv, PlaceInv, Labels, Locked, Changing
<1>4. CallInv'
  BY <1>1 DEF IInv, LevelInv, CallInv, Sets, Call, Stays, InV
<1>5. CacheInv'
  BY DEF IInv, LevelInv, CacheInv
<1>6. SettingInv'
  <2>1. \A u \in Threads : pc'[u] \in Changing <=> u = t
    BY <1>0, <1>1, NoneChanges DEF Stays, IInv, Changing
  <2>2. Replaces(t, old, new)'
    <3>1. arg'[t] = new.verbosity /\ pc'[t] = "off" /\ old.nth < new.nth /\ Call(t)' = Call(t)
      BY <1>0 DEF TypeInv, PlaceInv, Call
    <3> QED
      BY <1>0, <3>1 DEF Replaces, Steady
  <2> QED
    BY <2>1, <2>2 DEF SettingInv
<1> QED
  BY <1>2, <1>3, <1>4, <1>5, <1>6 DEF LevelInv

LEMMA LevelSetKeeps ==
  ASSUME IInv, NEW t \in Threads, LevelSet(t), UNCHANGED flusher
  PROVE  LevelInv'
<1>0. TypeInv /\ Calls(t, {"Level.Set"}) /\ mu = "free"
  BY DEF IInv, LevelInv, LevelSet
<1>1. at[t] + 1 \in 1..Len(script[t]) /\ pc[t] = "ready" /\ Call(t).op = "Level.Set"
  BY <1>0, CallsOk DEF TypeInv
<1>2. Call(t).level \in Nat
  BY <1>0, <1>1, CallOk
<1>3. PICK old \in SettingType : Steady(old)
  BY <1>0, NoneChanges DEF IInv, LevelInv, SettingInv
<1> DEFINE new == Setting(Call(t).level, old.filter, old.nth + 1)
<1>4. /\ new \in SettingType /\ new.nth = old.nth + 1 /\ new.filter = old.filter
      /\ new.verbosity = Call(t).level
  BY <1>2, <1>3 DEF SettingType, Setting
<1>5. TakesEffect({old, new})
  <2>1. inEffect \cup { Setting(Call(t).level, s.filter, s.nth + 1) : s \in inEffect } = {old, new}
    BY <1>3 DEF Steady
  <2> QED
    BY <2>1 DEF LevelSet
<1> HIDE DEF new
<1>6. Sets(t)
  BY <1>1 DEF Sets
<1> QED
  BY <1>0, <1>1, <1>3, <1>4, <1>5, <1>6, Begins DEF LevelSet

LEMMA ModuleSetKeeps ==
  ASSUME IInv, NEW t \in Threads, ModuleSet(t), UNCHANGED flusher
  PROVE  LevelInv'
<1>0. TypeInv /\ Calls(t, {"moduleSpec.Set"}) /\ mu = "free"
  BY DEF IInv, LevelInv, ModuleSet
<1>1. at[t] + 1 \in 1..Len(script[t]) /\ pc[t] = "ready" /\ Call(t).op = "moduleSpec.Set"
  BY <1>0, CallsOk DEF TypeInv
<1>2. Call(t).filter \in Seq(Pattern)
  BY <1>0, <1>1, CallOk
<1>3. PICK old \in SettingType : Steady(old)
  BY <1>0, NoneChanges DEF IInv, LevelInv, SettingInv
<1> DEFINE new == Setting(old.verbosity, Call(t).filter, old.nth + 1)
<1>4. /\ new \in SettingType /\ new.nth = old.nth + 1 /\ new.filter = Call(t).filter
      /\ new.verbosity = verbosity
  BY <1>2, <1>3 DEF SettingType, Setting, Steady
<1>5. TakesEffect({old, new})
  <2>1. inEffect \cup { Setting(s.verbosity, Call(t).filter, s.nth + 1) : s \in inEffect } = {old, new}
    BY <1>3 DEF Steady
  <2> QED
    BY <2>1 DEF ModuleSet
<1> HIDE DEF new
<1>6. Sets(t)
  BY <1>1 DEF Sets
<1>7. arg' = [arg EXCEPT ![t] = new.verbosity]
  BY <1>4 DEF ModuleSet
<1> QED
  BY <1>0, <1>1, <1>3, <1>4, <1>5, <1>6, <1>7, Begins DEF ModuleSet

-----------------------------------------------------------------------------
\* One step of setVState before the last, to label l.
LEMMA Proceeds ==
  ASSUME IInv, NEW t \in Threads, pc[t] \in Changing, NEW l \in Changing, Goto(t, l),
         UNCHANGED <<script, at, arg, verdict, inEffect, seen, flusher>>,
         CacheInv',
         NEW old \in SettingType, NEW new \in SettingType, Replaces(t, old, new)'
  PROVE  LevelInv'
<1>0. TypeInv /\ pc' = [pc EXCEPT ![t] = l] /\ pc'[t] = l
  BY DEF Goto, IInv, LevelInv, TypeInv, PlaceInv
<1>1. \A u \in Threads : Stays(u) \/ (u = t /\ pc[u] \in Changing /\ pc'[u] \in Changing)
  BY <1>0 DEF Stays, TypeInv, PlaceInv
<1>2. VInv' /\ VerbosityExact'
  BY <1>1, Unwatched DEF IInv, InV, Changing
<1>3. TypeInv'
  BY <1>0 DEF TypeInv, PlaceInv, Labels, Locked, Changing
<1>4. CallInv'
  <2>1. \A u \in Threads : Call(u)' = Call(u) /\ (pc'[u] \in Changing <=> pc[u] \in Changing)
                           /\ (pc'[u] \in InV <=> pc[u] \in InV)
    BY <1>1 DEF Stays, Call, InV, Changing
  <2> QED
    BY <2>1 DEF IInv, LevelInv, CallInv, Sets
<1>5. SettingInv'
  <2>1. \A u \in Threads : pc'[u] \in Changing <=> u = t
    BY <1>0, <1>1, OneChanges DEF Stays, IInv
  <2> QED
    BY <2>1 DEF SettingInv
<1> QED
  BY <1>2, <1>3, <1>4, <1>5 DEF LevelInv

\* The settings between which goroutine t is.
LEMMA Replacing ==
  ASSUME IInv, NEW t \in Threads, pc[t] \in Changing
  PROVE  \E old, new \in SettingType : Replaces(t, old, new)
BY DEF IInv, LevelInv, SettingInv

LEMMA VerbosityOffKeeps ==
  ASSUME IInv, NEW t \in Threads, VerbosityOff(t), UNCHANGED flusher
  PROVE  LevelInv'
<1>0. pc[t] \in Changing /\ pc'[t] = "length off" /\ Call(t)' = Call(t)
  BY DEF VerbosityOff, Goto, Changing, IInv, LevelInv, TypeInv, PlaceInv, Call
<1>1. PICK old \in SettingType, new \in SettingType : Replaces(t, old, new)
  BY <1>0, Replacing
<1>2. Replaces(t, old, new)'
  BY <1>0, <1>1 DEF Replaces, VerbosityOff
<1>3. CacheInv'
  BY DEF IInv, LevelInv, CacheInv, VerbosityOff
<1> QED
  BY <1>0, <1>2, <1>3, Proceeds DEF VerbosityOff, Changing

LEMMA FilterOffKeeps ==
  ASSUME IInv, NEW t \in Threads, FilterOff(t), UNCHANGED flusher
  PROVE  LevelInv'
<1>0. pc[t] \in Changing /\ pc'[t] = "filter" /\ Call(t)' = Call(t)
  BY DEF FilterOff, Goto, Changing, IInv, LevelInv, TypeInv, PlaceInv, Call
<1>1. PICK old \in SettingType, new \in SettingType : Replaces(t, old, new)
  BY <1>0, Replacing
<1>2. Replaces(t, old, new)'
  BY <1>0, <1>1 DEF Replaces, FilterOff
<1>3. CacheInv'
  BY DEF IInv, LevelInv, CacheInv, FilterOff
<1> QED
  BY <1>0, <1>2, <1>3, Proceeds DEF FilterOff, Changing

LEMMA SetFilterKeeps ==
  ASSUME IInv, NEW t \in Threads, SetFilter(t), UNCHANGED flusher
  PROVE  LevelInv'
<1>0. pc[t] \in Changing /\ pc[t] = "filter" /\ pc'[t] = "on" /\ Call(t)' = Call(t)
  BY DEF SetFilter, Goto, Changing, IInv, LevelInv, TypeInv, PlaceInv, Call
<1>1. PICK old \in SettingType, new \in SettingType : Replaces(t, old, new)
  BY <1>0, Replacing
<1>2. Replaces(t, old, new)'
  <2>1. filter' = new.filter
    BY <1>0, <1>1 DEF Replaces, SetFilter
  <2> QED
    BY <1>0, <1>1, <2>1 DEF Replaces, SetFilter
<1>3. CacheInv'
  <2>1. CASE Call(t).op = "moduleSpec.Set"
    BY <2>1 DEF CacheInv, SetFilter
  <2>2. CASE Call(t).op # "moduleSpec.Set"
    BY <2>2 DEF IInv, LevelInv, CacheInv, SetFilter
  <2> QED
    BY <2>1, <2>2
<1> QED
  BY <1>0, <1>2, <1>3, Proceeds DEF SetFilter, Changing

LEMMA VerbosityOnKeeps ==
  ASSUME IInv, NEW t \in Threads, VerbosityOn(t), UNCHANGED flusher
  PROVE  LevelInv'
<1>0. /\ TypeInv /\ pc[t] = "on" /\ pc[t] \in Changing
      /\ pc' = [pc EXCEPT ![t] = "ready"] /\ at' = [at EXCEPT ![t] = @ + 1]
  BY DEF VerbosityOn, Finish, Goto, Changing, IInv, LevelInv
<1>1. PICK old \in SettingType, new \in SettingType : Replaces(t, old, new)
  BY <1>0, Replacing
<1>2. \A u \in Threads : Stays(u) \/ (u = t /\ pc[u] = "on" /\ pc'[u] = "ready")
  BY <1>0 DEF Stays, TypeInv, PlaceInv
<1>3. TakesEffect({new})
  <2>1. old.nth \in Nat /\ new.nth \in Nat
    BY DEF SettingType
  <2>2. { s \in inEffect : \A r \in inEffect : r.nth <= s.nth } = {new}
    BY <1>1, <2>1 DEF Replaces
  <2> QED
    BY <2>2 DEF VerbosityOn
<1>4. VInv' /\ VerbosityExact' /\ seen' = [u \in Threads |-> seen'[u]]
  <2>1. old # new
    BY <1>1 DEF Replaces, SettingType
  <2>2. Several(inEffect \cup {new})
    BY <1>1, <2>1 DEF Several, Replaces
  <2> QED
    BY <1>2, <1>3, <2>2, Watched DEF IInv, InV, VerbosityOn
<1>5. TypeInv'
  <2>1. pc' \in [Threads -> Labels] /\ at' \in [Threads -> Nat]
    <3>1. "ready" \in Labels
      BY DEF Labels
    <3>2. pc' \in [Threads -> Labels]
      BY <1>0, <3>1 DEF TypeInv, PlaceInv
    <3>3. at' \in [Threads -> Nat]
      BY <1>0 DEF TypeInv, PlaceInv
    <3> QED
      BY <3>2, <3>3
  <2> QED
    BY <1>4, <2>1 DEF IInv, LevelInv, TypeInv, PlaceInv, VerbosityOn
<1>6. CallInv'
  BY <1>2 DEF IInv, LevelInv, CallInv, Sets, Call, Stays, InV, Changing, VerbosityOn
<1>7. CacheInv'
  BY DEF IInv, LevelInv, CacheInv, VerbosityOn
<1>8. SettingInv'
  <2>1. \A u \in Threads : pc'[u] \notin Changing
    <3> SUFFICES ASSUME NEW u \in Threads, pc'[u] \in Changing PROVE FALSE
      OBVIOUS
    <3>1. pc'[t] = "ready"
      BY <1>0 DEF TypeInv, PlaceInv
    <3>2. u # t /\ pc[u] \in Changing
      BY <1>2, <3>1 DEF Stays, Changing
    <3> QED
      BY <1>0, <3>2, OneChanges DEF IInv
  <2>2. Steady(new)'
    BY <1>0, <1>1, <1>3 DEF Steady, Replaces, VerbosityOn, TakesEffect
  <2> QED
    BY <2>1, <2>2 DEF SettingInv
<1> QED
  BY <1>4, <1>5, <1>6, <1>7, <1>8 DEF LevelInv

\* A goroutine that stores the verbosity finds no other half-way.
LEMMA SetVerbosityKeeps ==
  ASSUME StoresAlone, IInv, NEW t \in Threads, SetVerbosity(t), UNCHANGED flusher
  PROVE  LevelInv'
<1>0. TypeInv /\ Calls(t, {"SetVerbosity"})
  BY DEF IInv, LevelInv, SetVerbosity
<1>1. at[t] + 1 \in 1..Len(script[t]) /\ pc[t] = "ready" /\ Call(t).op = "SetVerbosity"
  BY <1>0, CallsOk DEF TypeInv
<1>2. Call(t).level \in Nat
  BY <1>0, <1>1, CallOk
<1>3. \A u \in Threads : pc[u] \notin Changing
  <2> SUFFICES ASSUME NEW u \in Threads, pc[u] \in Changing PROVE FALSE
    OBVIOUS
  <2>1. u # t
    BY <1>1 DEF Changing
  <2>2. at[u] + 1 \in 1..Len(script[u]) /\ script[u][at[u] + 1].op \in {"Level.Set", "moduleSpec.Set"}
    BY DEF IInv, LevelInv, CallInv, Sets, Call
  <2>3. script \in Scripts /\ script[t][at[t] + 1].op = "SetVerbosity"
    BY <1>0, <1>1 DEF TypeInv, PlaceInv, Call
  <2> QED
    BY <1>1, <2>1, <2>2, <2>3 DEF StoresAlone
<1>4. PICK old \in SettingType : Steady(old)
  BY <1>3 DEF IInv, LevelInv, SettingInv
<1>5. PICK new \in SettingType :
         /\ new = Setting(Call(t).level, old.filter, old.nth + 1)
         /\ new.nth = old.nth + 1 /\ new.filter = old.filter
         /\ new.verbosity = Call(t).level
  <2> DEFINE n == Setting(Call(t).level, old.filter, old.nth + 1)
  <2>1. /\ n \in SettingType /\ n.nth = old.nth + 1 /\ n.filter = old.filter
        /\ n.verbosity = Call(t).level
    BY <1>2, <1>4 DEF SettingType, Setting
  <2> QED
    BY <2>1
<1>6. TakesEffect({new})
  <2>1. { Setting(Call(t).level, s.filter, s.nth + 1) : s \in inEffect } = {new}
    BY <1>4, <1>5 DEF Steady
  <2> QED
    BY <2>1 DEF SetVerbosity
<1>7. /\ pc' = [pc EXCEPT ![t] = "ready"] /\ at' = [at EXCEPT ![t] = @ + 1]
      /\ verbosity' = new.verbosity /\ inEffect' = {new}
  BY <1>5, <1>6 DEF SetVerbosity, Finish, Goto, TakesEffect
<1>8. \A u \in Threads : Stays(u) \/ (u = t /\ pc[u] = "ready" /\ pc'[u] = "ready")
  BY <1>0, <1>1, <1>7 DEF Stays, TypeInv, PlaceInv
<1>9. VInv' /\ VerbosityExact' /\ seen' = [u \in Threads |-> seen'[u]]
  <2>1. old # new
    BY <1>5 DEF SettingType
  <2>2. Several(inEffect \cup {new})
    BY <1>4, <2>1 DEF Several, Steady
  <2> QED
    BY <1>6, <1>8, <2>2, Watched DEF IInv, InV, SetVerbosity
<1>10. TypeInv'
  <2>1. pc' \in [Threads -> Labels] /\ at' \in [Threads -> Nat]
    <3>1. "ready" \in Labels
      BY DEF Labels
    <3>2. pc' \in [Threads -> Labels]
      BY <1>0, <1>7, <3>1 DEF TypeInv, PlaceInv
    <3>3. at' \in [Threads -> Nat]
      BY <1>0, <1>7 DEF TypeInv, PlaceInv
    <3> QED
      BY <3>2, <3>3
  <2> QED
    BY <1>9, <2>1 DEF IInv, LevelInv, TypeInv, PlaceInv, SetVerbosity
<1>11. CallInv'
  BY <1>8 DEF IInv, LevelInv, CallInv, Sets, Call, Stays, InV, Changing, SetVerbosity
<1>12. CacheInv'
  BY DEF IInv, LevelInv, CacheInv, SetVerbosity
<1>13. SettingInv'
  <2>1. \A u \in Threads : pc'[u] \notin Changing
    BY <1>3, <1>8 DEF Stays, Changing
  <2>2. Steady(new)'
    BY <1>4, <1>5, <1>7 DEF Steady, SetVerbosity
  <2> QED
    BY <1>5, <2>1, <2>2 DEF SettingInv
<1> QED
  BY <1>9, <1>10, <1>11, <1>12, <1>13 DEF LevelInv

-----------------------------------------------------------------------------
\* What V's tests read is part of a setting in effect.
LEMMA InForce ==
  ASSUME LevelInv
  PROVE  /\ \E s \in SettingType : s \in inEffect /\ verbosity <= s.verbosity /\ verbosity \in Nat
         /\ \E s \in SettingType : s \in inEffect /\ s.filter = filter
         /\ Several(inEffect) \/ \E s \in SettingType : Steady(s)
<1>1. CASE \A u \in Threads : pc[u] \notin Changing
  <2>1. PICK s \in SettingType : Steady(s)
    BY <1>1 DEF LevelInv, SettingInv
  <2> QED
    BY <2>1 DEF Steady, SettingType
<1>2. CASE \E u \in Threads : pc[u] \in Changing
  <2>1. PICK u \in Threads : pc[u] \in Changing
    BY <1>2
  <2>2. PICK old \in SettingType, new \in SettingType : Replaces(u, old, new)
    BY <2>1 DEF LevelInv, SettingInv
  <2>3. old.verbosity \in Nat /\ old.nth \in Nat /\ new.nth \in Nat
    BY DEF SettingType
  <2>4. old \in inEffect /\ new \in inEffect /\ old # new
    BY <2>2, <2>3 DEF Replaces
  <2> QED
    BY <2>2, <2>3, <2>4 DEF Replaces, Several
<1> QED
  BY <1>1, <1>2

\* A step of V by goroutine t to label l; others stay where they are.
LEMMA VSteps ==
  ASSUME LevelInv, NEW t \in Threads, NEW l \in InV \cup {"decided"}, Goto(t, l),
         at[t] + 1 \in 1..Len(script[t]), Call(t).op = "V", pc[t] \notin Changing,
         UNCHANGED <<script, at, verbosity, filterLength, filter, arg, inEffect, flusher>>,
         verdict' \in [Threads -> BOOLEAN], seen' = [u \in Threads |-> seen'[u]],
         \A u \in Threads \ {t} : seen'[u] = seen[u] /\ verdict'[u] = verdict[u],
         CacheInv',
         l \in InV => /\ inEffect \subseteq seen'[t]
                      /\ \/ Several(seen'[t])
                         \/ \E s \in SettingType : seen'[t] = {s} /\ s.verbosity < Call(t).level,
         l = "decided" =>
           IF verdict'[t] THEN \E s \in seen'[t] : Enabled(s, Call(t))
           ELSE \E s \in seen'[t] : ~Enabled(s, Call(t)) \/ \E r \in seen'[t] : r # s
  PROVE  LevelInv'
<1>0. TypeInv /\ pc' = [pc EXCEPT ![t] = l] /\ pc'[t] = l /\ \A u \in Threads : Call(u)' = Call(u)
  BY DEF Goto, LevelInv, TypeInv, PlaceInv, Call
<1>1. \A u \in Threads \ {t} : pc'[u] = pc[u]
  BY <1>0 DEF TypeInv, PlaceInv
<1>2. TypeInv'
  <2>1. pc' \in [Threads -> Labels]
    BY <1>0 DEF TypeInv, PlaceInv, Labels, InV
  <2> QED
    BY <1>0, <2>1 DEF TypeInv, PlaceInv
<1>3. CallInv'
  <2> SUFFICES ASSUME NEW u \in Threads
               PROVE  /\ pc'[u] \in Changing => at[u] + 1 \in 1..Len(script[u]) /\ Sets(u)
                      /\ pc'[u] \in InV => at[u] + 1 \in 1..Len(script[u]) /\ Call(u).op = "V"
    BY <1>0 DEF CallInv, Sets
  <2>1. CASE u = t
    BY <1>0, <2>1 DEF InV, Changing
  <2>2. CASE u # t
    BY <1>1, <2>2 DEF LevelInv, CallInv
  <2> QED
    BY <2>1, <2>2
<1>4. VInv'
  <2> SUFFICES ASSUME NEW u \in Threads, pc'[u] \in InV
               PROVE  /\ inEffect \subseteq seen'[u]
                      /\ \/ Several(seen'[u])
                         \/ \E s \in SettingType : seen'[u] = {s} /\ s.verbosity < Call(u).level
    BY <1>0 DEF VInv, Several
  <2>1. CASE u = t
    BY <1>0, <2>1
  <2>2. CASE u # t
    BY <1>1, <2>2 DEF LevelInv, VInv
  <2> QED
    BY <2>1, <2>2
<1>5. VerbosityExact'
  <2> SUFFICES ASSUME NEW u \in Threads, pc'[u] = "decided"
               PROVE  IF verdict'[u] THEN \E s \in seen'[u] : Enabled(s, Call(u))
                      ELSE \E s \in seen'[u] : ~Enabled(s, Call(u)) \/ \E r \in seen'[u] : r # s
    BY <1>0 DEF VerbosityExact, Enabled
  <2>1. CASE u = t
    BY <1>0, <2>1
  <2>2. CASE u # t
    BY <1>1, <2>2 DEF LevelInv, VerbosityExact
  <2> QED
    BY <2>1, <2>2
<1>6. SettingInv'
  <2>1. \A u \in Threads : Stays(u) \/ (pc[u] \notin Changing /\ pc'[u] \notin Changing)
    BY <1>0, <1>1 DEF Stays, InV, Changing
  <2> QED
    BY <2>1, SettingsStay
<1> QED
  BY <1>2, <1>3, <1>4, <1>5, <1>6 DEF LevelInv

LEMMA VFastKeeps ==
  ASSUME LevelInv, NEW t \in Threads, VFast(t), UNCHANGED flusher
  PROVE  LevelInv'
<1>0. TypeInv /\ Calls(t, {"V"})
  BY DEF LevelInv, VFast
<1>1. at[t] + 1 \in 1..Len(script[t]) /\ pc[t] = "ready" /\ Call(t).op = "V"
  BY <1>0, CallsOk DEF TypeInv
<1>2. Call(t).level \in Nat
  BY <1>0, <1>1, CallOk
<1>3. /\ seen' = [u \in Threads |-> seen'[u]] /\ seen'[t] = inEffect
      /\ \A u \in Threads \ {t} : seen'[u] = seen[u]
  <2>1. seen = [u \in Threads |-> seen[u]] /\ seen' = [seen EXCEPT ![t] = inEffect]
    BY <1>0 DEF TypeInv, PlaceInv, VFast
  <2>2. DOMAIN seen = Threads
    BY <2>1
  <2> QED
    BY <2>1, <2>2
<1>4. CacheInv'
  BY DEF LevelInv, CacheInv, VFast
<1>5. CASE verbosity >= Call(t).level
  <2>1. PICK s \in SettingType : s \in inEffect /\ verbosity <= s.verbosity /\ verbosity \in Nat
    BY InForce
  <2>2. Enabled(s, Call(t))
    BY <1>2, <1>5, <2>1 DEF Enabled, SettingType
  <2>3. Goto(t, "decided") /\ verdict' = [verdict EXCEPT ![t] = TRUE]
    BY <1>5 DEF VFast, Decide
  <2>4. verdict' \in [Threads -> BOOLEAN] /\ verdict'[t] /\ \A u \in Threads \ {t} : verdict'[u] = verdict[u]
    BY <1>0, <2>3 DEF TypeInv, PlaceInv
  <2> QED
    BY <1>1, <1>3, <1>4, <2>1, <2>2, <2>3, <2>4, VSteps DEF VFast, InV, Changing
<1>6. CASE ~(verbosity >= Call(t).level)
  <2>1. \/ Several(inEffect)
        \/ \E s \in SettingType : inEffect = {s} /\ s.verbosity < Call(t).level
    BY <1>2, <1>6, InForce DEF Steady, SettingType
  <2>2. Goto(t, "vlen") /\ UNCHANGED verdict
    BY <1>6 DEF VFast
  <2> QED
    BY <1>0, <1>1, <1>3, <1>4, <2>1, <2>2, VSteps DEF VFast, InV, Changing, TypeInv, PlaceInv
<1> QED
  BY <1>5, <1>6

LEMMA VLengthKeeps ==
  ASSUME LevelInv, NEW t \in Threads, VLength(t), UNCHANGED flusher
  PROVE  LevelInv'
<1>0. TypeInv /\ pc[t] \in InV /\ pc[t] \notin Changing
  BY DEF LevelInv, VLength, InV, Changing
<1>1. at[t] + 1 \in 1..Len(script[t]) /\ Call(t).op = "V"
  BY <1>0 DEF LevelInv, CallInv
<1>2. Call(t).level \in Nat
  BY <1>0, <1>1, CallOk
<1>3. /\ inEffect \subseteq seen[t]
      /\ \/ Several(seen[t])
         \/ \E s \in SettingType : seen[t] = {s} /\ s.verbosity < Call(t).level
  BY <1>0 DEF LevelInv, VInv
<1>4. CacheInv'
  BY DEF LevelInv, CacheInv, VLength
<1>5. CASE filterLength > 0
  <2>1. Goto(t, "vslow") /\ UNCHANGED verdict
    BY <1>5 DEF VLength
  <2> QED
    BY <1>0, <1>1, <1>3, <1>4, <2>1, VSteps DEF VLength, InV, TypeInv, PlaceInv
<1>6. CASE ~(filterLength > 0)
  <2>1. \E s \in seen[t] : ~Enabled(s, Call(t)) \/ \E r \in seen[t] : r # s
    <3>1. CASE Several(seen[t])
      BY <3>1 DEF Several
    <3>2. CASE ~Several(seen[t])
      <4>1. PICK s \in SettingType : seen[t] = {s} /\ s.verbosity < Call(t).level
        BY <1>3, <3>2
      <4>2. PICK r \in SettingType : Steady(r)
        BY <1>3, <3>2, InForce DEF Several
      <4>3. r = s /\ filterLength = Len(s.filter)
        BY <1>3, <4>1, <4>2 DEF Steady
      <4>4. s.filter = << >>
        <5>1. s.filter \in Seq(Pattern)
          BY DEF SettingType
        <5> QED
          BY <1>6, <4>3, <5>1
      <4>5. ~Enabled(s, Call(t))
        BY <1>2, <4>1, <4>4 DEF Enabled, SettingType
      <4> QED
        BY <4>1, <4>5
    <3> QED
      BY <3>1, <3>2
  <2>2. Goto(t, "decided") /\ verdict' = [verdict EXCEPT ![t] = FALSE]
    BY <1>6 DEF VLength, Decide
  <2>3. verdict' \in [Threads -> BOOLEAN] /\ ~verdict'[t] /\ \A u \in Threads \ {t} : verdict'[u] = verdict[u]
    BY <1>0, <2>2 DEF TypeInv, PlaceInv
  <2> QED
    BY <1>0, <1>1, <1>4, <2>1, <2>2, <2>3, VSteps DEF VLength, InV, TypeInv, PlaceInv
<1> QED
  BY <1>5, <1>6

LEMMA VSlowKeeps ==
  ASSUME LevelInv, NEW t \in Threads, VSlow(t), UNCHANGED flusher
  PROVE  LevelInv'
<1> DEFINE site == Call(t).site
           level == IF site \in DOMAIN vmap THEN vmap[site] ELSE LevelAt(filter, site)
<1>0. TypeInv /\ pc[t] \in InV /\ pc[t] \notin Changing
  BY DEF LevelInv, VSlow, InV, Changing
<1>1. at[t] + 1 \in 1..Len(script[t]) /\ Call(t).op = "V"
  BY <1>0 DEF LevelInv, CallInv
<1>2. Call(t).level \in Nat
  BY <1>0, <1>1, CallOk
<1>3. /\ inEffect \subseteq seen[t]
      /\ \/ Several(seen[t])
         \/ \E s \in SettingType : seen[t] = {s} /\ s.verbosity < Call(t).level
  BY <1>0 DEF LevelInv, VInv
<1>4. level = LevelAt(filter, site)
  BY DEF LevelInv, CacheInv
<1>5. /\ vmap' = [c \in DOMAIN vmap \cup {site} |-> IF c = site THEN level ELSE vmap[c]]
      /\ Decide(t, level >= Call(t).level) /\ filter' = filter
  BY DEF VSlow
<1> HIDE DEF level
<1>6. CacheInv'
  <2> SUFFICES ASSUME NEW c \in DOMAIN vmap' PROVE vmap'[c] = LevelAt(filter, c)
    BY <1>5 DEF CacheInv
  <2>1. CASE c = site
    BY <1>4, <1>5, <2>1
  <2>2. CASE c # site
    BY <1>5, <2>2 DEF LevelInv, CacheInv
  <2> QED
    BY <2>1, <2>2
<1> HIDE DEF site
<1>7. /\ Goto(t, "decided") /\ verdict' \in [Threads -> BOOLEAN]
      /\ verdict'[t] = (LevelAt(filter, site) >= Call(t).level)
      /\ \A u \in Threads \ {t} : verdict'[u] = verdict[u]
  <2>1. verdict' = [verdict EXCEPT ![t] = level >= Call(t).level]
    BY <1>5 DEF Decide
  <2> QED
    BY <1>0, <1>4, <1>5, <2>1 DEF Decide, TypeInv, PlaceInv
<1>8. CASE verdict'[t]
  <2>1. PICK s \in SettingType : s \in inEffect /\ s.filter = filter
    BY InForce
  <2>2. Enabled(s, Call(t))
    <3>1. CASE filter = << >>
      <4>1. LevelAt(filter, site) = 0
        BY <3>1 DEF LevelAt
      <4> QED
        BY <1>2, <1>7, <1>8, <4>1 DEF Enabled, SettingType
    <3>2. CASE filter # << >>
      BY <1>7, <1>8, <2>1, <3>2 DEF Enabled, site
    <3> QED
      BY <3>1, <3>2
  <2>3. \E r \in seen[t] : Enabled(r, Call(t))
    BY <1>3, <2>1, <2>2
  <2> QED
    BY <1>0, <1>1, <1>6, <1>7, <1>8, <2>3, VSteps DEF VSlow, InV, TypeInv, PlaceInv
<1>9. CASE ~verdict'[t]
  <2>1. \E s \in seen[t] : ~Enabled(s, Call(t)) \/ \E r \in seen[t] : r # s
    <3>1. CASE Several(seen[t])
      BY <3>1 DEF Several
    <3>2. CASE ~Several(seen[t])
      <4>1. PICK s \in SettingType : seen[t] = {s} /\ s.verbosity < Call(t).level
        BY <1>3, <3>2
      <4>2. PICK r \in SettingType : Steady(r)
        BY <1>3, <3>2, InForce DEF Several
      <4>3. r = s /\ s.filter = filter
        BY <1>3, <4>1, <4>2 DEF Steady
      <4>4. ~Enabled(s, Call(t))
        BY <1>2, <1>7, <1>9, <4>1, <4>3 DEF Enabled, SettingType, site
      <4> QED
        BY <4>1, <4>4
    <3> QED
      BY <3>1, <3>2
  <2> QED
    BY <1>0, <1>1, <1>6, <1>7, <1>9, <2>1, VSteps DEF VSlow, InV, TypeInv, PlaceInv
<1> QED
  BY <1>8, <1>9

LEMMA LevelNextKeeps ==
  ASSUME StoresAlone, IInv, NEW t \in Threads, LevelNext(t), UNCHANGED flusher
  PROVE  LevelInv'
<1>0. LevelInv
  BY DEF IInv
<1> QED
  BY <1>0, LevelSetKeeps, ModuleSetKeeps, VerbosityOffKeeps, FilterOffKeeps, SetFilterKeeps,
     VerbosityOnKeeps, SetVerbosityKeeps, VFastKeeps, VLengthKeeps, VSlowKeeps DEF LevelNext

-----------------------------------------------------------------------------
\* What the mutex is to a step that moves one goroutine: taken if it enters the
\* labels under the lock, freed if it leaves them, left alone otherwise.
LEMMA OneMoves ==
  ASSUME PlaceInv, MutexInv, NEW t \in Threads, NEW l, pc' = [pc EXCEPT ![t] = l],
         UNCHANGED flusher,
         \/ mu = "free" /\ mu' = t
         \/ pc[t] \in Locked /\ l \notin Locked /\ mu' = "free"
         \/ mu' = mu /\ (l \in Locked => pc[t] \in Locked)
  PROVE  MutexInv'
<1>1. pc'[t] = l /\ \A u \in Threads \ {t} : pc'[u] = pc[u]
  BY DEF PlaceInv
<1>2. CASE mu = "free" /\ mu' = t
  BY <1>1, <1>2, ThreadsAssumption DEF MutexInv
<1>3. CASE pc[t] \in Locked /\ l \notin Locked /\ mu' = "free"
  BY <1>1, <1>3, ThreadsAssumption DEF MutexInv
<1>4. CASE mu' = mu /\ (l \in Locked => pc[t] \in Locked)
  BY <1>1, <1>4 DEF MutexInv
<1> QED
  BY <1>2, <1>3, <1>4

\* A step that moves goroutine t to label l and leaves the flushers alone.
Moves(t, l) ==
  /\ Goto(t, l)
  /\ UNCHANGED <<script, flusher>>
  /\ at' = at \/ at' = [at EXCEPT ![t] = @ + 1]
  /\ \/ mu = "free" /\ mu' = t
     \/ pc[t] \in Locked /\ l \notin Locked /\ mu' = "free"
     \/ mu' = mu /\ (l \in Locked => pc[t] \in Locked)

LEMMA MovesKeep ==
  ASSUME PlaceInv, MutexInv, NEW t \in Threads, NEW l \in Labels, Moves(t, l)
  PROVE  PlaceInv' /\ MutexInv'
<1>1. PlaceInv'
  BY DEF Moves, Goto, PlaceInv
<1>2. MutexInv'
  BY OneMoves DEF Moves, Goto
<1> QED
  BY <1>1, <1>2

\* The steps of level setting and of V, as they move a goroutine.
LEMMA LevelMoves ==
  ASSUME NEW t \in Threads, LevelNext(t), UNCHANGED flusher
  PROVE  \E l \in Labels : Moves(t, l)
<1> USE DEF Goto, Locked, Changing, Labels, InV, Moves
<1>1. CASE LevelSet(t)
  BY <1>1 DEF LevelSet
<1>2. CASE ModuleSet(t)
  BY <1>2 DEF ModuleSet
<1>3. CASE VerbosityOff(t)
  BY <1>3 DEF VerbosityOff
<1>4. CASE FilterOff(t)
  BY <1>4 DEF FilterOff
<1>5. CASE SetFilter(t)
  BY <1>5 DEF SetFilter
<1>6. CASE VerbosityOn(t)
  BY <1>6 DEF VerbosityOn, Finish
<1>7. CASE SetVerbosity(t)
  BY <1>7 DEF SetVerbosity, Finish, Calls
<1>8. CASE VFast(t)
  BY <1>8 DEF VFast, Decide, Calls
<1>9. CASE VLength(t)
  BY <1>9 DEF VLength, Decide
<1>10. CASE VSlow(t)
  BY <1>10 DEF VSlow, Decide
<1> QED
  BY <1>1, <1>2, <1>3, <1>4, <1>5, <1>6, <1>7, <1>8, <1>9, <1>10 DEF LevelNext

\* A step to label l that is neither V's nor a setter's.
Elsewhere == Labels \ (Changing \cup InV \cup {"decided"})

LEMMA QuietMove ==
  ASSUME IInv, NEW t \in Threads, NEW l \in Elsewhere,
         Goto(t, l), pc[t] \notin Changing \cup InV,
         UNCHANGED <<script, levelVars>>,
         at' = at \/ at' = [at EXCEPT ![t] = @ + 1],
         flusher' \in [Threads -> {"none", "started", "flushing", "done"}]
  PROVE  LevelInv'
<1>0. LevelInv /\ PlaceInv /\ pc' = [pc EXCEPT ![t] = l]
  BY DEF Goto, IInv, LevelInv, TypeInv
<1>1. pc' \in [Threads -> Labels]
  BY <1>0 DEF PlaceInv, Elsewhere
<1>2. at' \in [Threads -> Nat]
  BY <1>0 DEF PlaceInv
<1>3. \A u \in Threads :
        Stays(u) \/ (pc[u] \notin Changing \cup InV /\ pc'[u] \notin Changing \cup InV \cup {"decided"})
  BY <1>0 DEF Stays, PlaceInv, Elsewhere
<1> QED
  BY <1>0, <1>1, <1>2, <1>3, Quiet

\* A step that moves no goroutine.
LEMMA NoMove ==
  ASSUME IInv, UNCHANGED <<script, pc, at, levelVars>>,
         flusher' \in [Threads -> {"none", "started", "flushing", "done"}]
  PROVE  LevelInv'
<1>0. LevelInv /\ pc' \in [Threads -> Labels] /\ at' \in [Threads -> Nat]
  BY DEF IInv, LevelInv, TypeInv, PlaceInv
<1>1. \A u \in Threads : Stays(u)
  BY DEF Stays
<1> QED
  BY <1>0, <1>1, Quiet

-----------------------------------------------------------------------------
\* The steps of output and of the flushes leave the levels alone, and move a
\* goroutine, if they do, from a label that is not V's or a setter's to another.
FileMove(t, l) == Moves(t, l) /\ pc[t] \notin Changing \cup InV /\ UNCHANGED levelVars
Rests == UNCHANGED <<script, pc, at, mu, levelVars, flusher>>

LEMMA FormatSteps ==
  ASSUME NEW t \in Threads,
         PrintLine(t) \/ NamedLine(t) \/ ExitLine(t) \/ Guarded(t) \/ Format(t) \/ Output(t)
  PROVE  \E l \in Elsewhere : FileMove(t, l)
<1> USE DEF Labels, Locked, Changing, InV, Elsewhere, FileMove, Moves
<1>1. CASE PrintLine(t)
  BY <1>1 DEF PrintLine, GetBuffer, Calls
<1>2. CASE NamedLine(t)
  BY <1>2 DEF NamedLine, GetBuffer, Calls
<1>3. CASE ExitLine(t)
  BY <1>3 DEF ExitLine, GetBuffer, Calls
<1>4. CASE Guarded(t)
  BY <1>4 DEF Guarded, GetBuffer, Finish, fileVars
<1>5. CASE Format(t)
  BY <1>5 DEF Format
<1>6. CASE Output(t)
  BY <1>6 DEF Output
<1> QED
  BY <1>1, <1>2, <1>3, <1>4, <1>5, <1>6

LEMMA WriteSteps ==
  ASSUME NEW t \in Threads,
         \/ CreateFile(t) \/ Created(t) \/ Write(t) \/ Written(t) \/ Leave(t)
         \/ FatalLine(t) \/ Dump(t) \/ ExitFlushed(t) \/ ExitTimeout(t)
         \/ FlushLock(t) \/ Flush(t)
  PROVE  Rests \/ \E l \in Elsewhere : FileMove(t, l)
<1> USE DEF Labels, Locked, Changing, InV, Elsewhere, FileMove, Moves
<1>1. CASE CreateFile(t) \/ Write(t) \/ Dump(t) \/ ExitFlushed(t) \/ ExitTimeout(t)
  BY <1>1 DEF Rests, CreateFile, Write, Dump, ExitFlushed, ExitTimeout, frameVars
<1>2. CASE Created(t)
  BY <1>2 DEF Created
<1>3. CASE Written(t)
  BY <1>3 DEF Written, fileVars
<1>4. CASE Leave(t)
  BY <1>4 DEF Leave, Finish
<1>5. CASE FatalLine(t)
  BY <1>5 DEF FatalLine
<1>6. CASE FlushLock(t)
  BY <1>6 DEF FlushLock, fileVars, Calls
<1>7. CASE Flush(t)
  BY <1>7 DEF Flush, Finish
<1> QED
  BY <1>1, <1>2, <1>3, <1>4, <1>5, <1>6, <1>7

\* The steps that start and end a flush before an exit.
LEMMA FlusherSteps ==
  ASSUME PlaceInv, MutexInv, NEW t \in Threads,
         FatalUnlock(t) \/ FlusherLock(t) \/ FlusherFlush(t)
  PROVE  PlaceInv' /\ MutexInv'
<1> USE DEF Labels, Locked
<1>1. CASE FatalUnlock(t)
  <2>1. /\ pc[t] \in {"unlock", "dump"} /\ mu' = "free" /\ at' = at
        /\ flusher' = [flusher EXCEPT ![t] = "started"] /\ script' = script
    BY <1>1 DEF FatalUnlock
  <2>2. PICK l \in {"exit 1", "exit 255"} : Goto(t, l)
    BY <1>1 DEF FatalUnlock
  <2>3. PlaceInv'
    BY <2>1, <2>2 DEF PlaceInv, Goto
  <2>4. mu = t
    BY <2>1 DEF MutexInv
  <2>5. \A u \in Threads : flusher[u] # "flushing"
    BY <2>4, ThreadsAssumption DEF MutexInv
  <2>6. \A u \in Threads : pc'[u] \notin Locked /\ flusher'[u] # "flushing"
    <3> SUFFICES ASSUME NEW u \in Threads PROVE pc'[u] \notin Locked /\ flusher'[u] # "flushing"
      OBVIOUS
    <3>1. CASE u = t
      BY <2>1, <2>2, <3>1 DEF Goto, PlaceInv, Changing
    <3>2. CASE u # t
      BY <2>1, <2>2, <2>4, <2>5, <3>2 DEF Goto, PlaceInv, MutexInv
    <3> QED
      BY <3>1, <3>2
  <2>7. MutexInv'
    BY <2>6 DEF MutexInv
  <2> QED
    BY <2>3, <2>7
<1>2. CASE FlusherLock(t)
  <2>1. /\ mu = "free" /\ mu' = "flusher" /\ flusher' = [flusher EXCEPT ![t] = "flushing"]
        /\ UNCHANGED <<script, pc, at>>
    BY <1>2 DEF FlusherLock
  <2> QED
    BY <2>1, ThreadsAssumption DEF MutexInv, PlaceInv
<1>3. CASE FlusherFlush(t)
  <2>1. /\ flusher[t] = "flushing" /\ mu' = "free" /\ flusher' = [flusher EXCEPT ![t] = "done"]
        /\ UNCHANGED <<script, pc, at>>
    BY <1>3 DEF FlusherFlush
  <2> QED
    BY <2>1, ThreadsAssumption DEF MutexInv, PlaceInv
<1> QED
  BY <1>1, <1>2, <1>3

\* All steps keep track of where the goroutines are and of the mutex.
LEMMA NextPlaces ==
  ASSUME PlaceInv, MutexInv, [Next]_vars
  PROVE  PlaceInv' /\ MutexInv'
<1>1. ASSUME Rests PROVE PlaceInv' /\ MutexInv'
  BY <1>1 DEF Rests, PlaceInv, MutexInv
<1>2. ASSUME NEW t \in Threads, NEW l \in Elsewhere, FileMove(t, l) PROVE PlaceInv' /\ MutexInv'
  BY <1>2, MovesKeep DEF FileMove, Elsewhere
<1>3. ASSUME NEW t \in Threads, Step(t) PROVE PlaceInv' /\ MutexInv'
  <2>1. CASE LevelNext(t) /\ UNCHANGED fileVars
    BY <2>1, LevelMoves, MovesKeep DEF fileVars
  <2> QED
    BY <1>1, <1>2, <1>3, <2>1, FormatSteps, WriteSteps, FlusherSteps DEF Step
<1>4. CASE DaemonLock \/ DaemonFlush
  <2>1. /\ mu \in {"free", "daemon"} /\ mu' \in {"free", "daemon"}
        /\ UNCHANGED <<script, pc, at, flusher>>
    BY <1>4 DEF DaemonLock, DaemonFlush, fileVars
  <2> QED
    BY <2>1, ThreadsAssumption DEF MutexInv, PlaceInv
<1>5. CASE Tick \/ UNCHANGED vars
  <2>1. Rests
    BY <1>5 DEF Rests, Tick, vars, frameVars, fileVars
  <2> QED
    BY <1>1, <2>1
<1> QED
  BY <1>3, <1>4, <1>5, FlusherSteps DEF Next

\* They keep what is said of the levels.
LEMMA NextLevels ==
  ASSUME StoresAlone, IInv, [Next]_vars
  PROVE  LevelInv'
<1>0. PlaceInv
  BY DEF IInv, LevelInv, TypeInv
<1>1. ASSUME Rests PROVE LevelInv'
  BY <1>0, <1>1, NoMove DEF Rests, PlaceInv
<1>2. ASSUME NEW t \in Threads, NEW l \in Elsewhere, FileMove(t, l) PROVE LevelInv'
  BY <1>0, <1>2, QuietMove DEF FileMove, Moves, PlaceInv
<1>3. ASSUME NEW t \in Threads, FatalUnlock(t) PROVE LevelInv'
  <2>1. PICK l \in {"exit 1", "exit 255"} : Goto(t, l)
    BY <1>3 DEF FatalUnlock
  <2>2. /\ l \in Elsewhere /\ pc[t] \notin Changing \cup InV /\ at' = at /\ UNCHANGED <<script, levelVars>>
        /\ flusher' = [flusher EXCEPT ![t] = "started"]
    BY <1>3 DEF FatalUnlock, Elsewhere, Labels, Locked, Changing, InV
  <2> QED
    BY <1>0, <2>1, <2>2, QuietMove DEF PlaceInv
<1>4. ASSUME NEW t \in Threads, Step(t) PROVE LevelInv'
  <2>1. CASE LevelNext(t) /\ UNCHANGED fileVars
    BY <2>1, LevelNextKeeps DEF fileVars
  <2> QED
    BY <1>1, <1>2, <1>3, <1>4, <2>1, FormatSteps, WriteSteps DEF Step
<1>5. ASSUME NEW t \in Threads, FlusherLock(t) \/ FlusherFlush(t) PROVE LevelInv'
  <2>1. flusher' \in [Threads -> {"none", "started", "flushing", "done"}]
    BY <1>0, <1>5 DEF FlusherLock, FlusherFlush, PlaceInv
  <2> QED
    BY <1>5, <2>1, NoMove DEF FlusherLock, FlusherFlush
<1>6. CASE DaemonLock \/ DaemonFlush
  BY <1>0, <1>6, NoMove DEF DaemonLock, DaemonFlush, fileVars, PlaceInv
<1>7. CASE Tick \/ UNCHANGED vars
  <2>1. Rests
    BY <1>7 DEF Rests, Tick, vars, frameVars, fileVars
  <2> QED
    BY <1>1, <2>1
<1> QED
  BY <1>4, <1>5, <1>6, <1>7 DEF Next

LEMMA NextIInv ==
  ASSUME StoresAlone, IInv, [Next]_vars
  PROVE  IInv'
<1>1. PlaceInv /\ MutexInv
  BY DEF IInv, LevelInv, TypeInv
<1> QED
  BY <1>1, NextPlaces, NextLevels DEF IInv

-----------------------------------------------------------------------------
\* The locks of util/glog: at every state of the specification the logging
\* mutex has one holder at most, and V and the cache are as IInv says, for any
\* number of goroutines and any calls they make that obey StoresAlone.
THEOREM LoggingInvariant ==
  ASSUME StoresAlone
  PROVE  Spec => []IInv
<1>1. Init => IInv
  BY InitIInv
<1>2. IInv /\ [Next]_vars => IInv'
  BY NextIInv
<1> QED
  BY <1>1, <1>2, PTL DEF Spec

\* V answers for a setting in effect while it ran, whatever flags are set
\* meanwhile and whichever call sites are cached.
THEOREM VerbosityFollowsSettings ==
  ASSUME StoresAlone
  PROVE  Spec => []VerbosityExact
<1>1. IInv => VerbosityExact
  BY DEF IInv, LevelInv
<1> QED
  BY <1>1, LoggingInvariant, PTL

-----------------------------------------------------------------------------
(* Sequences: induction, and what FlattenSeq makes of a list that grows at *)
(* its end or in one of its parts.                                         *)

\* A set of naturals that is not empty has a least element.
LEMMA Least ==
  ASSUME NEW S, S \subseteq Nat, S # {}
  PROVE  \E n \in S : \A m \in S : n <= m
<1> DEFINE R == { ss \in Nat \X Nat : ss[1] < ss[2] }
<1>1. IsWellFoundedOn(R, Nat)
  BY NatLessThanWellFounded DEF OpToRel
<1>2. PICK n \in S : \A m \in S : ~(<<m, n>> \in R)
  BY <1>1, WFMin
<1>3. \A k, m \in Nat : k < m => <<k, m>> \in R
  OBVIOUS
<1>. HIDE DEF R
<1>4. \A m \in S : m \in Nat /\ n \in Nat /\ ~(m < n)
  BY <1>2, <1>3
<1>5. \A m \in S : n <= m
  BY <1>4
<1>. QED  BY <1>2, <1>5

\* Induction up to n, on a set: 1 is in it, and k + 1 whenever k is.
LEMMA Climb ==
  ASSUME NEW n \in Nat, NEW S, 1 \in S, \A k \in 1..(n - 1) : k \in S => k + 1 \in S
  PROVE  \A k \in 1..n : k \in S
<1> DEFINE Bad == (1..n) \ S
<1> SUFFICES ASSUME Bad # {} PROVE FALSE
  OBVIOUS
<1>1. PICK m \in Bad : \A k \in Bad : m <= k
  <2>1. Bad \subseteq Nat
    OBVIOUS
  <2>. HIDE DEF Bad
  <2>. QED  BY Least, <2>1
<1>2. m # 1 /\ m - 1 \in 1..(n - 1)
  BY <1>1
<1>3. m - 1 \in S
  BY <1>1, <1>2
<1>4. (m - 1) + 1 \in S
  BY <1>2, <1>3
<1>. QED  BY <1>1, <1>4

\* g[m] is the concatenation of the first m of the sequences.
Joins(g, seqs, n) == g = [m \in 1..n |-> IF m = 1 THEN seqs[m] ELSE g[m - 1] \o seqs[m]]

\* The joins of the first m sequences extend to the next one.
LEMMA JoinsExtends ==
  ASSUME NEW seqs, NEW m \in Nat, NEW g, Joins(g, seqs, m)
  PROVE  \E h : Joins(h, seqs, m + 1)
<1> DEFINE v == IF m + 1 = 1 THEN seqs[m + 1] ELSE g[m] \o seqs[m + 1]
           h == [k \in 1..(m + 1) |-> IF k = m + 1 THEN v ELSE g[k]]
<1>2. \A k \in 1..(m + 1) : h[k] = IF k = 1 THEN seqs[k] ELSE h[k - 1] \o seqs[k]
  <2> SUFFICES ASSUME NEW k \in 1..(m + 1)
               PROVE  h[k] = IF k = 1 THEN seqs[k] ELSE h[k - 1] \o seqs[k]
    OBVIOUS
  <2>1. CASE k = m + 1
    <3>1. k # 1 => h[k - 1] = g[k - 1] /\ k - 1 = m
      BY <2>1
    <3>. QED  BY <2>1, <3>1
  <2>2. CASE k # m + 1
    <3>1. k \in 1..m /\ h[k] = g[k]
      BY <2>2
    <3>2. k # 1 => h[k - 1] = g[k - 1]
      BY <3>1
    <3>3. g[k] = IF k = 1 THEN seqs[k] ELSE g[k - 1] \o seqs[k]
      BY <3>1 DEF Joins
    <3>. QED  BY <3>1, <3>2, <3>3
  <2>. QED  BY <2>1, <2>2
<1>3. h = [k \in 1..(m + 1) |-> h[k]]
  OBVIOUS
<1>4. Joins(h, seqs, m + 1)
  <2>. HIDE DEF h
  <2>. QED  BY <1>2, <1>3 DEF Joins
<1>. QED  BY <1>4

\* So they exist, however many sequences there are.
LEMMA JoinsExists ==
  ASSUME NEW seqs, NEW n \in Nat, n > 0
  PROVE  \E g : Joins(g, seqs, n)
<1> DEFINE S == { m \in Nat : \E g : Joins(g, seqs, m) }
<1>1. 1 \in S
  <2> DEFINE g == [m \in 1..1 |-> seqs[m]]
  <2>1. \A m \in 1..1 : seqs[m] = IF m = 1 THEN seqs[m] ELSE g[m - 1] \o seqs[m]
    OBVIOUS
  <2>2. Joins(g, seqs, 1)
    BY <2>1 DEF Joins
  <2>. QED  BY <2>2
<1>2. \A k \in 1..(n - 1) : k \in S => k + 1 \in S
  BY JoinsExtends
<1>3. n \in S
  <2>. HIDE DEF S
  <2>. QED  BY Climb, <1>1, <1>2
<1>. QED  BY <1>3

\* What FlattenSeq makes of n sequences: the last of their joins.
Flattens(g, seqs, n) ==
  /\ FlattenSeq(seqs) = g[n] /\ g[1] = seqs[1]
  /\ \A m \in 1..(n - 1) : g[m + 1] = g[m] \o seqs[m + 1]

LEMMA FlattenJoins ==
  ASSUME NEW S, NEW n \in Nat, n > 0, NEW seqs \in [1..n -> Seq(S)]
  PROVE  \E g \in [1..n -> Seq(S)] : Flattens(g, seqs, n)
<1>1. Len(seqs) = n
  BY IsASeq
<1> DEFINE g == CHOOSE f : Joins(f, seqs, n)
<1>2. Joins(g, seqs, n)
  BY JoinsExists
<1>3. FlattenSeq(seqs) = g[n]
  BY <1>1 DEF FlattenSeq, Joins
<1>. HIDE DEF g
<1>4. \A m \in 1..n : g[m] = IF m = 1 THEN seqs[m] ELSE g[m - 1] \o seqs[m]
  BY <1>2 DEF Joins
<1>5. 1 \in 1..n /\ \A m \in 1..(n - 1) : m + 1 \in 1..n /\ m + 1 # 1 /\ (m + 1) - 1 = m
  OBVIOUS
<1>6. Flattens(g, seqs, n)
  BY <1>3, <1>4, <1>5 DEF Flattens
<1> DEFINE T == { m \in 1..n : g[m] \in Seq(S) }
<1>7. 1 \in T
  BY <1>5, <1>6 DEF Flattens
<1>8. ASSUME NEW m \in 1..(n - 1), m \in T PROVE m + 1 \in T
  <2>1. g[m] \in Seq(S) /\ seqs[m + 1] \in Seq(S) /\ m + 1 \in 1..n
    BY <1>8
  <2>2. g[m + 1] = g[m] \o seqs[m + 1]
    BY <1>6 DEF Flattens
  <2>3. g[m] \o seqs[m + 1] \in Seq(S)
    BY <2>1
  <2>. HIDE DEF Joins, g
  <2>. QED  BY <2>1, <2>2, <2>3
<1>9. \A m \in 1..n : m \in T
  <2>. HIDE DEF T
  <2>. QED  BY <1>7, <1>8, Climb
<1>10. g \in [1..n -> Seq(S)]
  BY <1>2, <1>9 DEF Joins
<1>. QED  BY <1>6, <1>10

\* A list that gets one more part.
LEMMA FlattenSnoc ==
  ASSUME NEW S, NEW n \in Nat, NEW old \in [1..n -> Seq(S)], NEW new \in [1..(n + 1) -> Seq(S)],
         \A i \in 1..n : new[i] = old[i]
  PROVE  FlattenSeq(old) \in Seq(S) /\ FlattenSeq(new) = FlattenSeq(old) \o new[n + 1]
<1>0. n + 1 \in Nat /\ n + 1 > 0 /\ n + 1 \in 1..(n + 1)
  OBVIOUS
<1>1. PICK h \in [1..(n + 1) -> Seq(S)] : Flattens(h, new, n + 1)
  BY <1>0, FlattenJoins
<1>2. CASE n = 0
  <2>1. FlattenSeq(old) = << >> /\ old = << >>
    <3>1. old \in Seq(Seq(S)) /\ Len(old) = 0
      BY <1>2, IsASeq
    <3>. QED  BY <3>1 DEF FlattenSeq
  <2>2. FlattenSeq(new) = new[1] /\ new[1] \in Seq(S)
    BY <1>1, <1>2 DEF Flattens
  <2>. QED  BY <1>2, <2>1, <2>2
<1>3. CASE n > 0
  <2>1. PICK g \in [1..n -> Seq(S)] : Flattens(g, old, n)
    BY <1>3, FlattenJoins
  <2> DEFINE T == { m \in 1..n : h[m] = g[m] }
  <2>2. 1 \in T
    <3>1. 1 \in 1..n
      BY <1>3
    <3>. QED  BY <1>1, <2>1, <3>1 DEF Flattens
  <2>3. ASSUME NEW m \in 1..(n - 1), m \in T PROVE m + 1 \in T
    <3>1. m + 1 \in 1..n /\ m \in 1..((n + 1) - 1)
      OBVIOUS
    <3>2. g[m + 1] = g[m] \o old[m + 1] /\ h[m + 1] = h[m] \o new[m + 1]
      BY <1>1, <2>1, <3>1 DEF Flattens
    <3>3. h[m] = g[m] /\ new[m + 1] = old[m + 1]
      BY <2>3, <3>1
    <3>4. h[m + 1] = g[m + 1]
      BY <3>2, <3>3
    <3>. QED  BY <3>1, <3>4
  <2>4. \A m \in 1..n : m \in T
    <3>. HIDE DEF T
    <3>. QED  BY <2>2, <2>3, Climb
  <2>5. n \in 1..n /\ n \in 1..((n + 1) - 1)
    BY <1>3
  <2>6. h[n] = g[n] /\ g[n] \in Seq(S) /\ h[n + 1] = h[n] \o new[n + 1]
    BY <1>1, <2>4, <2>5 DEF Flattens
  <2>. QED  BY <1>1, <2>1, <2>6 DEF Flattens
<1>. QED  BY <1>2, <1>3

LEMMA ConcatAssoc ==
  \A S : \A a, b, c \in Seq(S) : (a \o b) \o c = a \o (b \o c)
OBVIOUS

\* One part of a list grows, behind which all are empty.
Grows(old, new, n, i, more, S) ==
  /\ old \in [1..n -> Seq(S)] /\ new \in [1..n -> Seq(S)]
  /\ i \in 1..n /\ more \in Seq(S) /\ new[i] = old[i] \o more
  /\ \A j \in 1..n : j # i => new[j] = old[j]
  /\ \A j \in 1..n : j > i => old[j] = << >>

LEMMA FlattenGrows ==
  ASSUME NEW S, NEW n \in Nat, NEW old, NEW new, NEW i, NEW more, Grows(old, new, n, i, more, S)
  PROVE  FlattenSeq(old) \in Seq(S) /\ FlattenSeq(new) = FlattenSeq(old) \o more
<1>. USE DEF Grows
<1>0. n > 0 /\ 1 \in 1..n /\ n \in 1..n
  OBVIOUS
<1>1. PICK g \in [1..n -> Seq(S)] : Flattens(g, old, n)
  BY <1>0, FlattenJoins
<1>2. PICK h \in [1..n -> Seq(S)] : Flattens(h, new, n)
  BY <1>0, FlattenJoins
<1> DEFINE T == { m \in 1..n : h[m] = IF m < i THEN g[m] ELSE g[m] \o more }
<1>3. 1 \in T
  <2>1. g[1] = old[1] /\ h[1] = new[1]
    BY <1>1, <1>2 DEF Flattens
  <2>2. CASE i = 1
    BY <1>0, <2>1, <2>2
  <2>3. CASE i # 1
    BY <1>0, <2>1, <2>3
  <2>. QED  BY <2>2, <2>3
<1>4. ASSUME NEW m \in 1..(n - 1), m \in T PROVE m + 1 \in T
  <2>1. m + 1 \in 1..n /\ m \in 1..n /\ m \in Nat /\ i \in Nat
    OBVIOUS
  <2>2. g[m + 1] = g[m] \o old[m + 1] /\ h[m + 1] = h[m] \o new[m + 1]
    BY <1>1, <1>2 DEF Flattens
  <2>3. g[m] \in Seq(S) /\ old[m + 1] \in Seq(S)
    BY <2>1
  <2>4. h[m] = IF m < i THEN g[m] ELSE g[m] \o more
    BY <1>4
  <2>5. SUFFICES h[m + 1] = IF m + 1 < i THEN g[m + 1] ELSE g[m + 1] \o more
    BY <2>1
  <2>. HIDE DEF T
  <2>6. CASE m + 1 < i
    <3>1. m < i /\ m + 1 # i
      BY ONLY <2>1, <2>6
    <3>. QED  BY <2>1, <2>2, <2>4, <2>6, <3>1
  <2>7. CASE m + 1 = i
    <3>1. m < i /\ ~(m + 1 < i)
      BY ONLY <2>1, <2>7
    <3>2. h[m + 1] = g[m] \o (old[m + 1] \o more)
      BY <2>2, <2>4, <2>7, <3>1
    <3>3. h[m + 1] = g[m + 1] \o more
      <4>1. (g[m] \o old[m + 1]) \o more = g[m] \o (old[m + 1] \o more)
        <5> DEFINE a == g[m]
                   b == old[m + 1]
        <5>1. a \in Seq(S) /\ b \in Seq(S) /\ more \in Seq(S)
          BY <2>3
        <5>. HIDE DEF a, b
        <5>2. (a \o b) \o more = a \o (b \o more)
          BY ONLY <5>1, ConcatAssoc
        <5>. QED  BY ONLY <5>2 DEF a, b
      <4>. QED  BY <2>2, <3>2, <4>1
    <3>. QED  BY <3>1, <3>3
  <2>8. CASE m + 1 > i
    <3>1. ~(m < i) /\ ~(m + 1 < i) /\ m + 1 # i
      BY ONLY <2>1, <2>8
    <3>2. h[m] = g[m] \o more /\ old[m + 1] = << >> /\ new[m + 1] = << >>
      BY <2>1, <2>4, <2>8, <3>1
    <3>3. h[m] \o << >> = h[m] /\ g[m] \o << >> = g[m]
      BY <2>1
    <3>. QED  BY <2>2, <3>1, <3>2, <3>3
  <2>9. m + 1 < i \/ m + 1 = i \/ m + 1 > i
    BY ONLY <2>1
  <2>. QED  BY <2>6, <2>7, <2>8, <2>9
<1>5. \A m \in 1..n : m \in T
  <2>. HIDE DEF T
  <2>. QED  BY <1>3, <1>4, Climb
<1>6. h[n] = g[n] \o more /\ g[n] \in Seq(S)
  BY <1>0, <1>5
<1>. QED  BY <1>1, <1>2, <1>6 DEF Flattens

LEMMA FlattenType ==
  ASSUME NEW S, NEW n \in Nat, NEW seqs \in [1..n -> Seq(S)]
  PROVE  FlattenSeq(seqs) \in Seq(S)
<1>1. CASE n = 0
  <2>1. seqs \in Seq(Seq(S)) /\ Len(seqs) = 0 /\ seqs = << >>
    BY <1>1, IsASeq
  <2>. QED  BY <2>1 DEF FlattenSeq
<1>2. CASE n > 0
  <2>1. n \in 1..n
    BY <1>2
  <2>2. PICK g \in [1..n -> Seq(S)] : Flattens(g, seqs, n)
    BY <1>2, FlattenJoins
  <2>. QED  BY <2>1, <2>2 DEF Flattens
<1>. QED  BY <1>1, <1>2

-----------------------------------------------------------------------------
(* The buffers. *)

LineNames == Threads \X Nat

\* A goroutine has a buffer from getBuffer on; a fatal line never gives it back.
Holding == {"format", "output", "create", "write", "written", "dump", "unlock", "exit 1", "exit 255"}
Printing == InV \cup {"decided"} \cup Holding

PrintInv ==
  \A t \in Threads : pc[t] \in Printing =>
    at[t] + 1 \in 1..Len(script[t]) /\ Call(t).op \in {"V", "print", "exit"}

\* A buffer is held by one goroutine or is once on the free list, and what is
\* in it since it was formatted is the line of the call that holds it.
BufferInv ==
  /\ buf \in [Threads -> Nat]
  /\ content \in Seq({<< >>} \cup LineNames)
  /\ freeList \in Seq(1..Len(content))
  /\ \A i, j \in 1..Len(freeList) : i # j => freeList[i] # freeList[j]
  /\ \A t \in Threads : pc[t] \in Holding =>
       /\ buf[t] \in 1..Len(content)
       /\ \A i \in 1..Len(freeList) : freeList[i] # buf[t]
       /\ pc[t] # "format" => content[buf[t]] = Line(t)
  /\ \A t, u \in Threads : pc[t] \in Holding /\ pc[u] \in Holding /\ t # u => buf[t] # buf[u]

\* A step that moves goroutine t to label l, as PrintInv sees it.
LEMMA PrintMove ==
  ASSUME PlaceInv, PrintInv, NEW t \in Threads, NEW l, Goto(t, l), UNCHANGED script,
         at' = at \/ (at' = [at EXCEPT ![t] = @ + 1] /\ l \notin Printing),
         l \in Printing => \/ pc[t] \in Printing
                           \/ at[t] + 1 \in 1..Len(script[t]) /\ Call(t).op \in {"V", "print", "exit"}
  PROVE  PrintInv'
<1> SUFFICES ASSUME NEW u \in Threads, pc'[u] \in Printing
             PROVE  at'[u] + 1 \in 1..Len(script'[u]) /\ Call(u)'.op \in {"V", "print", "exit"}
  BY DEF PrintInv
<1>1. pc' = [pc EXCEPT ![t] = l] /\ pc \in [Threads -> Labels] /\ at \in [Threads -> Nat]
  BY DEF Goto, PlaceInv
<1>2. at'[u] = at[u] /\ script' = script /\ Call(u)' = Call(u)
  <2>1. CASE at' = at
    BY <2>1 DEF Call
  <2>2. CASE at' = [at EXCEPT ![t] = @ + 1] /\ l \notin Printing
    <3>1. u # t
      BY <1>1, <2>2
    <3>. QED  BY <1>1, <2>2, <3>1 DEF Call
  <2>. QED  BY <2>1, <2>2
<1>3. at[u] + 1 \in 1..Len(script[u]) /\ Call(u).op \in {"V", "print", "exit"}
  <2>1. CASE u = t
    BY <1>1, <2>1 DEF PrintInv
  <2>2. CASE u # t
    BY <1>1, <2>2 DEF PrintInv
  <2>. QED  BY <2>1, <2>2
<1>. QED  BY <1>2, <1>3

\* A step that moves no goroutine, or one that does not print.
LEMMA PrintStay ==
  ASSUME PrintInv, UNCHANGED <<script, pc, at>>
  PROVE  PrintInv'
BY DEF PrintInv, Call

\* The buffers when no goroutine gets or formats one.
LEMMA BuffersStay ==
  ASSUME BufferInv, UNCHANGED <<buf, content, freeList>>,
         \A u \in Threads : pc'[u] \in Holding =>
           /\ pc[u] \in Holding /\ at'[u] = at[u]
           /\ pc'[u] # "format" => pc[u] # "format"
  PROVE  BufferInv'
<1>1. \A u \in Threads : pc'[u] \in Holding => Line(u)' = Line(u)
  BY DEF Line
<1>. QED  BY <1>1 DEF BufferInv

\* getBuffer.
LEMMA BufferTaken ==
  ASSUME PlaceInv, BufferInv, NEW t \in Threads, GetBuffer(t), pc[t] \notin Holding, UNCHANGED at
  PROVE  BufferInv'
<1>1. /\ pc' = [pc EXCEPT ![t] = "format"] /\ pc \in [Threads -> Labels]
      /\ buf \in [Threads -> Nat] /\ content \in Seq({<< >>} \cup LineNames)
      /\ freeList \in Seq(1..Len(content)) /\ Len(content) \in Nat
  BY DEF GetBuffer, Goto, PlaceInv, BufferInv
<1>2. pc'[t] = "format" /\ \A u \in Threads \ {t} : pc'[u] = pc[u] /\ Line(u)' = Line(u)
  BY <1>1 DEF Line
<1>3. CASE freeList = << >>
  <2> DEFINE n == Len(content) + 1
  <2>1. buf' = [buf EXCEPT ![t] = n] /\ content' = Append(content, << >>) /\ freeList' = freeList
    BY <1>3 DEF GetBuffer
  <2>2. /\ content' \in Seq({<< >>} \cup LineNames) /\ Len(content') = n
        /\ \A i \in 1..Len(content) : content'[i] = content[i]
    BY <1>1, <2>1
  <2>3. n \in Nat /\ n \in 1..n /\ n \notin 1..Len(content) /\ \A i \in 1..Len(content) : i \in 1..n
    BY <1>1
  <2>. HIDE DEF n
  <2>4. buf'[t] = n /\ \A u \in Threads \ {t} : buf'[u] = buf[u]
    BY <1>1, <2>1
  <2>5. buf' \in [Threads -> Nat] /\ freeList' \in Seq(1..Len(content')) /\ Len(freeList') = 0
    BY <1>1, <1>3, <2>1, <2>2, <2>3
  <2>6. ASSUME NEW u \in Threads, pc'[u] \in Holding
        PROVE  /\ buf'[u] \in 1..Len(content')
               /\ \A i \in 1..Len(freeList') : freeList'[i] # buf'[u]
               /\ pc'[u] # "format" => content'[buf'[u]] = Line(u)'
    <3>1. CASE u = t
      BY <1>2, <2>2, <2>3, <2>4, <2>5, <3>1
    <3>2. CASE u # t
      <4>1. /\ pc[u] \in Holding /\ buf[u] \in 1..Len(content)
            /\ pc[u] # "format" => content[buf[u]] = Line(u)
        BY <1>2, <2>6, <3>2 DEF BufferInv
      <4>. QED  BY <1>2, <2>2, <2>3, <2>4, <2>5, <3>2, <4>1
    <3>. QED  BY <3>1, <3>2
  <2>7. ASSUME NEW u \in Threads, NEW v \in Threads, pc'[u] \in Holding, pc'[v] \in Holding, u # v
        PROVE  buf'[u] # buf'[v]
    <3>1. \A w \in Threads \ {t} : pc'[w] \in Holding => pc[w] \in Holding /\ buf[w] \in 1..Len(content)
      BY <1>2 DEF BufferInv
    <3>2. CASE u = t \/ v = t
      BY <2>3, <2>4, <2>7, <3>1, <3>2
    <3>3. CASE u # t /\ v # t
      BY <2>4, <2>7, <3>1, <3>3 DEF BufferInv
    <3>. QED  BY <3>2, <3>3
  <2>. QED  BY <2>2, <2>5, <2>6, <2>7 DEF BufferInv
<1>4. CASE freeList # << >>
  <2> DEFINE h == freeList[1]
             m == Len(freeList)
  <2>1. /\ buf' = [buf EXCEPT ![t] = h] /\ content' = [content EXCEPT ![h] = << >>]
        /\ freeList' = Tail(freeList)
    BY <1>4 DEF GetBuffer
  <2>2. h \in 1..Len(content) /\ m \in Nat /\ m > 0
    BY <1>1, <1>4
  <2>3. /\ content' \in Seq({<< >>} \cup LineNames) /\ Len(content') = Len(content)
        /\ \A i \in 1..Len(content) : i # h => content'[i] = content[i]
    BY <1>1, <2>1, <2>2
  <2>4. /\ freeList' \in Seq(1..Len(content)) /\ Len(freeList') = m - 1
        /\ \A i \in 1..(m - 1) : freeList'[i] = freeList[i + 1] /\ i + 1 \in 1..m /\ i + 1 # 1
    BY <1>1, <1>4, <2>1, <2>2
  <2>5. \A i, j \in 1..m : i # j => freeList[i] # freeList[j]
    BY DEF BufferInv
  <2>6. 1 \in 1..m
    BY <2>2
  <2>7. buf'[t] = h /\ buf' \in [Threads -> Nat] /\ \A u \in Threads \ {t} : buf'[u] = buf[u]
    BY <1>1, <2>1, <2>2
  <2>8. \A u \in Threads : pc[u] \in Holding =>
          /\ buf[u] \in 1..Len(content) /\ \A i \in 1..m : freeList[i] # buf[u]
          /\ pc[u] # "format" => content[buf[u]] = Line(u)
    BY DEF BufferInv
  <2>9. \A u \in Threads : pc[u] \in Holding => buf[u] # h
    BY <2>6, <2>8
  <2>10. \A i \in 1..(m - 1) : freeList'[i] # h
    BY <2>4, <2>5, <2>6
  <2>11. \A i, j \in 1..(m - 1) : i # j => freeList'[i] # freeList'[j]
    <3>1. \A i, j \in 1..(m - 1) : i # j => i + 1 # j + 1
      OBVIOUS
    <3>. QED  BY <2>4, <2>5, <3>1
  <2>. HIDE DEF h, m
  <2>12. ASSUME NEW u \in Threads, pc'[u] \in Holding
         PROVE  /\ buf'[u] \in 1..Len(content')
                /\ \A i \in 1..Len(freeList') : freeList'[i] # buf'[u]
                /\ pc'[u] # "format" => content'[buf'[u]] = Line(u)'
    <3>1. CASE u = t
      BY <1>2, <2>2, <2>3, <2>4, <2>7, <2>10, <3>1
    <3>2. CASE u # t
      <4>1. pc[u] \in Holding /\ pc'[u] = pc[u] /\ Line(u)' = Line(u) /\ buf'[u] = buf[u]
        BY <1>2, <2>7, <2>12, <3>2
      <4>2. /\ buf[u] \in 1..Len(content) /\ \A i \in 1..m : freeList[i] # buf[u]
            /\ pc[u] # "format" => content[buf[u]] = Line(u)
        BY <2>8, <4>1
      <4>3. content'[buf[u]] = content[buf[u]]
        BY <2>3, <2>9, <4>1, <4>2
      <4>4. \A i \in 1..(m - 1) : freeList'[i] # buf[u]
        BY <2>4, <4>2
      <4>. QED  BY <2>3, <2>4, <4>1, <4>2, <4>3, <4>4
    <3>. QED  BY <3>1, <3>2
  <2>13. ASSUME NEW u \in Threads, NEW v \in Threads, pc'[u] \in Holding, pc'[v] \in Holding, u # v
         PROVE  buf'[u] # buf'[v]
    <3>1. \A w \in Threads \ {t} : pc'[w] \in Holding => pc[w] \in Holding /\ buf'[w] = buf[w]
      BY <1>2, <2>7
    <3>2. CASE u = t \/ v = t
      BY <2>7, <2>9, <2>13, <3>1, <3>2
    <3>3. CASE u # t /\ v # t
      BY <2>13, <3>1, <3>3 DEF BufferInv
    <3>. QED  BY <3>2, <3>3
  <2>. QED  BY <2>3, <2>4, <2>7, <2>11, <2>12, <2>13 DEF BufferInv
<1>. QED  BY <1>3, <1>4

\* The line is formatted into the buffer.
LEMMA BufferFormatted ==
  ASSUME PlaceInv, BufferInv, NEW t \in Threads, Format(t)
  PROVE  BufferInv'
<1>1. /\ pc[t] = "format" /\ pc' = [pc EXCEPT ![t] = "output"] /\ pc \in [Threads -> Labels]
      /\ content' = [content EXCEPT ![buf[t]] = Line(t)]
      /\ UNCHANGED <<at, buf, freeList>> /\ at \in [Threads -> Nat]
      /\ buf \in [Threads -> Nat] /\ content \in Seq({<< >>} \cup LineNames)
      /\ freeList \in Seq(1..Len(content)) /\ buf[t] \in 1..Len(content)
  BY DEF Format, Goto, PlaceInv, BufferInv, Holding
<1>2. Line(t) \in LineNames
  BY <1>1 DEF Line, LineNames
<1>3. /\ content' \in Seq({<< >>} \cup LineNames) /\ Len(content') = Len(content)
      /\ content'[buf[t]] = Line(t)
      /\ \A i \in 1..Len(content) : i # buf[t] => content'[i] = content[i]
  BY <1>1, <1>2
<1>4. \A u \in Threads : /\ Line(u)' = Line(u) /\ buf'[u] = buf[u]
                         /\ pc'[u] \in Holding => pc[u] \in Holding
                         /\ u # t => pc'[u] = pc[u]
  BY <1>1 DEF Line, Holding
<1>5. ASSUME NEW u \in Threads, pc'[u] \in Holding
      PROVE  /\ buf'[u] \in 1..Len(content')
             /\ \A i \in 1..Len(freeList') : freeList'[i] # buf'[u]
             /\ pc'[u] # "format" => content'[buf'[u]] = Line(u)'
  <2>1. /\ pc[u] \in Holding /\ buf[u] \in 1..Len(content)
        /\ \A i \in 1..Len(freeList) : freeList[i] # buf[u]
        /\ pc[u] # "format" => content[buf[u]] = Line(u)
    BY <1>4, <1>5 DEF BufferInv
  <2>2. CASE u = t
    BY <1>1, <1>3, <1>4, <2>1, <2>2
  <2>3. CASE u # t
    <3>1. buf[u] # buf[t]
      BY <1>1, <2>1, <2>3 DEF BufferInv, Holding
    <3>. QED  BY <1>1, <1>3, <1>4, <2>1, <2>3, <3>1
  <2>. QED  BY <2>2, <2>3
<1>. QED  BY <1>1, <1>3, <1>4, <1>5 DEF BufferInv

\* putBuffer.
LEMMA BufferPut ==
  ASSUME PlaceInv, BufferInv, NEW t \in Threads, Leave(t)
  PROVE  BufferInv'
<1>1. /\ pc[t] \in Holding /\ pc' = [pc EXCEPT ![t] = "ready"] /\ pc \in [Threads -> Labels]
      /\ at' = [at EXCEPT ![t] = @ + 1] /\ at \in [Threads -> Nat]
      /\ buf' = [buf EXCEPT ![t] = 0] /\ buf \in [Threads -> Nat]
      /\ content' = content /\ content \in Seq({<< >>} \cup LineNames)
      /\ freeList' = << buf[t] >> \o freeList /\ freeList \in Seq(1..Len(content))
      /\ buf[t] \in 1..Len(content)
  BY DEF Leave, Goto, Finish, PlaceInv, BufferInv, Holding
<1> DEFINE m == Len(freeList)
<1>2. /\ m \in Nat /\ freeList' \in Seq(1..Len(content)) /\ Len(freeList') = m + 1
      /\ freeList'[1] = buf[t] /\ \A i \in 2..(m + 1) : freeList'[i] = freeList[i - 1] /\ i - 1 \in 1..m
  BY <1>1
<1>3. \A i \in 1..(m + 1) : i = 1 \/ i \in 2..(m + 1)
  BY <1>2
<1>. HIDE DEF m
<1>4. \A i \in 1..m : freeList[i] # buf[t]
  BY <1>1 DEF BufferInv, m
<1>5. \A i, j \in 1..m : i # j => freeList[i] # freeList[j]
  BY DEF BufferInv, m
<1>6. ASSUME NEW i \in 1..(m + 1), NEW j \in 1..(m + 1), i # j PROVE freeList'[i] # freeList'[j]
  <2>1. CASE i = 1
    BY <1>2, <1>3, <1>4, <1>6, <2>1
  <2>2. CASE j = 1
    BY <1>2, <1>3, <1>4, <1>6, <2>2
  <2>3. CASE i # 1 /\ j # 1
    <3>1. i - 1 # j - 1
      BY <1>6
    <3>. QED  BY <1>2, <1>3, <1>5, <2>3, <3>1
  <2>. QED  BY <2>1, <2>2, <2>3
<1>7. \A u \in Threads : pc'[u] \in Holding =>
        u # t /\ pc'[u] = pc[u] /\ buf'[u] = buf[u] /\ Line(u)' = Line(u)
  BY <1>1 DEF Holding, Line
<1>8. ASSUME NEW u \in Threads, pc'[u] \in Holding
      PROVE  /\ buf'[u] \in 1..Len(content')
             /\ \A i \in 1..Len(freeList') : freeList'[i] # buf'[u]
             /\ pc'[u] # "format" => content'[buf'[u]] = Line(u)'
  <2>1. /\ buf[u] \in 1..Len(content) /\ buf[u] # buf[t]
        /\ \A i \in 1..m : freeList[i] # buf[u]
        /\ pc[u] # "format" => content[buf[u]] = Line(u)
    BY <1>1, <1>7, <1>8 DEF BufferInv, m
  <2>. QED  BY <1>1, <1>2, <1>3, <1>7, <1>8, <2>1
<1>9. \A u, v \in Threads : pc'[u] \in Holding /\ pc'[v] \in Holding /\ u # v => buf'[u] # buf'[v]
  BY <1>7 DEF BufferInv
<1>10. buf' \in [Threads -> Nat]
  BY <1>1
<1>. QED  BY <1>1, <1>2, <1>6, <1>8, <1>9, <1>10 DEF BufferInv

-----------------------------------------------------------------------------
(* The files. *)

FileType ==
  [made : BOOLEAN, open : BOOLEAN, err : {FALSE}, stamp : Nat, pending : Seq(LineNames), nbytes : Nat]

\* A log that has a file is open, and the file is its latest.
DiskOk(k) ==
  /\ file[k].open = file[k].made
  /\ ~file[k].made => file[k].pending = << >> /\ \A d \in 0..MaxTime : <<k, d>> \notin DOMAIN disk
  /\ file[k].made =>
       /\ file[k].stamp \in 0..now /\ <<k, file[k].stamp>> \in DOMAIN disk
       /\ \A d \in 0..MaxTime : <<k, d>> \in DOMAIN disk => d <= file[k].stamp

Disks ==
  /\ now \in 0..MaxTime
  /\ file \in [Logs -> FileType]
  /\ DOMAIN disk \subseteq Logs \X (0..MaxTime)
  /\ \A f \in DOMAIN disk : disk[f] \in Seq(LineNames)
  /\ \A k \in Logs : DiskOk(k)

\* All that a log has got: on disk and in its writer.
Kept(k) == OnDisk(k) \o file[k].pending

PartOf(d, k, i) == IF <<k, i - 1>> \in DOMAIN d THEN d[<<k, i - 1>>] ELSE << >>
Parts(d, k) == [i \in 1..(MaxTime + 1) |-> PartOf(d, k, i)]

LEMMA OnDiskIs ==
  ASSUME NEW k
  PROVE  OnDisk(k) = FlattenSeq(Parts(disk, k)) /\ OnDisk(k)' = FlattenSeq(Parts(disk', k))
BY DEF OnDisk, Parts, PartOf

LEMMA PartsTyped ==
  ASSUME NEW d, \A f \in DOMAIN d : d[f] \in Seq(LineNames), NEW k
  PROVE  Parts(d, k) \in [1..(MaxTime + 1) -> Seq(LineNames)]
<1>1. \A i \in 1..(MaxTime + 1) : PartOf(d, k, i) \in Seq(LineNames)
  BY DEF PartOf
<1>. QED  BY <1>1 DEF Parts

LEMMA OnDiskTyped ==
  ASSUME Disks, NEW k \in Logs
  PROVE  OnDisk(k) \in Seq(LineNames) /\ file[k].pending \in Seq(LineNames) /\ Kept(k) \in Seq(LineNames)
<1>1. Parts(disk, k) \in [1..(MaxTime + 1) -> Seq(LineNames)]
  BY PartsTyped DEF Disks
<1>2. MaxTime + 1 \in Nat
  BY TimeAssumption
<1>3. OnDisk(k) \in Seq(LineNames)
  BY <1>1, <1>2, FlattenType, OnDiskIs
<1>4. file[k].pending \in Seq(LineNames)
  BY DEF Disks, FileType
<1>. QED  BY <1>3, <1>4 DEF Kept

LEMMA SameParts ==
  ASSUME NEW k, \A i \in 1..(MaxTime + 1) : PartOf(disk', k, i) = PartOf(disk, k, i)
  PROVE  OnDisk(k)' = OnDisk(k)
<1>1. Parts(disk', k) = Parts(disk, k)
  BY DEF Parts
<1>. QED  BY <1>1, OnDiskIs

\* What is added to the latest file of a log is added to the log.
LEMMA DiskGrows ==
  ASSUME Disks, NEW k \in Logs, file[k].made, NEW p \in Seq(LineNames),
         \A f \in DOMAIN disk' : disk'[f] \in Seq(LineNames),
         \A i \in 1..(MaxTime + 1) :
           PartOf(disk', k, i) = IF i = file[k].stamp + 1 THEN PartOf(disk, k, i) \o p ELSE PartOf(disk, k, i)
  PROVE  OnDisk(k)' = OnDisk(k) \o p
<1> DEFINE n == MaxTime + 1
           at_ == file[k].stamp + 1
           old == Parts(disk, k)
           new == Parts(disk', k)
<1>1. n \in Nat /\ MaxTime \in Nat
  BY TimeAssumption
<1>2. file[k].stamp \in 0..now /\ now \in 0..MaxTime
  BY DEF Disks, DiskOk
<1>3. at_ \in 1..n
  <2> DEFINE s == file[k].stamp
  <2>1. s \in 0..now /\ now \in 0..MaxTime
    BY <1>2
  <2>. HIDE DEF s
  <2>2. s + 1 \in 1..(MaxTime + 1)
    BY ONLY <1>1, <2>1
  <2>. QED  BY ONLY <2>2 DEF s, at_, n
<1>4. old \in [1..n -> Seq(LineNames)] /\ new \in [1..n -> Seq(LineNames)]
  BY PartsTyped DEF Disks
<1>5. \A i \in 1..n : old[i] = PartOf(disk, k, i) /\ new[i] = PartOf(disk', k, i)
  BY DEF Parts
<1>6. new[at_] = old[at_] \o p
  BY <1>3, <1>5
<1>7. \A j \in 1..n : j # at_ => new[j] = old[j]
  BY <1>5
<1>8. ASSUME NEW j \in 1..n, j > at_ PROVE old[j] = << >>
  <2> DEFINE s == file[k].stamp
  <2>1. s \in 0..now /\ now \in 0..MaxTime /\ at_ = s + 1
    BY <1>2
  <2>. HIDE DEF s, at_
  <2>2. j - 1 \in 0..MaxTime /\ ~(j - 1 <= s)
    BY ONLY <1>1, <1>8, <2>1 DEF n
  <2>3. <<k, j - 1>> \notin DOMAIN disk
    BY <2>2 DEF Disks, DiskOk, s
  <2>. QED  BY <1>5, <2>3 DEF PartOf
<1>. HIDE DEF at_, old, new, n
<1>9. \A j \in 1..n : j > at_ => old[j] = << >>
  BY <1>8
<1>10. FlattenSeq(new) = FlattenSeq(old) \o p
  <2>1. Grows(old, new, n, at_, p, LineNames)
    BY <1>3, <1>4, <1>6, <1>7, <1>9 DEF Grows
  <2>. QED  BY ONLY <1>1, <2>1, FlattenGrows
<1>. QED  BY <1>10, OnDiskIs DEF old, new

\* A log has a new file record, and maybe one more file.
LEMMA DisksAfter ==
  ASSUME Disks, UNCHANGED now, NEW k \in Logs, NEW r \in FileType, file' = [file EXCEPT ![k] = r],
         r.made, r.open, r.stamp \in 0..now, file[k].made => r.stamp >= file[k].stamp,
         DOMAIN disk' = DOMAIN disk \cup {<<k, r.stamp>>},
         \A f \in DOMAIN disk' : disk'[f] \in Seq(LineNames)
  PROVE  Disks'
<1>1. /\ now \in 0..MaxTime /\ MaxTime \in Nat /\ file \in [Logs -> FileType]
      /\ DOMAIN disk \subseteq Logs \X (0..MaxTime)
  BY TimeAssumption DEF Disks
<1>2. r.stamp \in 0..MaxTime
  BY <1>1
<1>3. DOMAIN disk' \subseteq Logs \X (0..MaxTime)
  BY <1>1, <1>2
<1>4. file' \in [Logs -> FileType] /\ file'[k] = r /\ \A j \in Logs : j # k => file'[j] = file[j]
  BY <1>1
<1>5. ASSUME NEW j \in Logs PROVE DiskOk(j)'
  <2>1. DiskOk(j)
    BY DEF Disks
  <2>2. CASE j # k
    <3>1. \A d : <<j, d>> \in DOMAIN disk' <=> <<j, d>> \in DOMAIN disk
      BY <2>2
    <3>2. file'[j] = file[j]
      BY <1>4, <2>2
    <3>. QED  BY <2>1, <3>1, <3>2 DEF DiskOk
  <2>3. CASE j = k
    <3>1. ASSUME NEW d \in 0..MaxTime, <<k, d>> \in DOMAIN disk' PROVE d <= r.stamp
      <4>1. CASE d = r.stamp
        BY <1>1, <4>1
      <4>2. CASE d # r.stamp
        <5>1. <<k, d>> \in DOMAIN disk
          BY <3>1, <4>2
        <5>2. file[k].made /\ d <= file[k].stamp /\ file[k].stamp \in 0..now
          BY <2>1, <2>3, <5>1 DEF DiskOk
        <5> DEFINE a == file[k].stamp
                   b == r.stamp
        <5>3. d \in 0..MaxTime /\ d <= a /\ a \in 0..now /\ b \in 0..MaxTime /\ b >= a
          BY <1>2, <5>2
        <5>. HIDE DEF a, b
        <5>4. d <= b
          BY ONLY <1>1, <5>3
        <5>. QED  BY ONLY <5>4 DEF b
      <4>. QED  BY <4>1, <4>2
    <3>2. file'[j] = r /\ <<k, r.stamp>> \in DOMAIN disk'
      BY <1>4, <2>3
    <3>3. r.open = r.made
      BY DEF FileType
    <3>. QED  BY <2>3, <3>1, <3>2, <3>3 DEF DiskOk
  <2>. QED  BY <2>2, <2>3
<1>. QED  BY <1>1, <1>3, <1>4, <1>5 DEF Disks

\* Flush of one log, as its writer does it when it is full or rotated.
LEMMA FlushedIs ==
  ASSUME Disks, NEW k \in Logs, file[k].made, NEW d, d = Flushed(disk, k)
  PROVE  /\ DOMAIN d = DOMAIN disk
         /\ \A f \in DOMAIN d : d[f] \in Seq(LineNames)
         /\ \A j, i : PartOf(d, j, i) = IF j = k /\ i - 1 = file[k].stamp
                                        THEN PartOf(disk, j, i) \o file[k].pending ELSE PartOf(disk, j, i)
<1> DEFINE s == file[k].stamp
           p == file[k].pending
<1>1. /\ file[k].open /\ <<k, s>> \in DOMAIN disk /\ p \in Seq(LineNames)
      /\ \A f \in DOMAIN disk : disk[f] \in Seq(LineNames)
  BY DEF Disks, DiskOk, FileType
<1>2. d = [disk EXCEPT ![<<k, s>>] = @ \o p]
  BY <1>1 DEF Flushed
<1>. HIDE DEF s, p
<1>3. DOMAIN d = DOMAIN disk
  BY <1>2
<1>4. d[<<k, s>>] = disk[<<k, s>>] \o p /\ \A f \in DOMAIN disk : f # <<k, s>> => d[f] = disk[f]
  BY <1>1, <1>2
<1>5. disk[<<k, s>>] \o p \in Seq(LineNames)
  BY <1>1
<1>6. \A f \in DOMAIN d : d[f] \in Seq(LineNames)
  BY <1>1, <1>3, <1>4, <1>5
<1>7. ASSUME NEW j, NEW i
      PROVE  PartOf(d, j, i) = IF j = k /\ i - 1 = s THEN PartOf(disk, j, i) \o p ELSE PartOf(disk, j, i)
  <2>1. CASE j = k /\ i - 1 = s
    BY <1>1, <1>3, <1>4, <2>1 DEF PartOf
  <2>2. CASE ~(j = k /\ i - 1 = s)
    <3>1. <<j, i - 1>> # <<k, s>>
      BY <2>2
    <3>. QED  BY <1>3, <1>4, <2>2, <3>1 DEF PartOf
  <2>. QED  BY <2>1, <2>2
<1>. QED  BY <1>3, <1>6, <1>7 DEF s, p

Typed(d) == \A f \in DOMAIN d : d[f] \in Seq(LineNames)

\* A file that is created, or opened again, adds nothing.
LEMMA WithFileIs ==
  ASSUME NEW d, Typed(d), NEW k
  PROVE  /\ DOMAIN WithFile(d, k) = DOMAIN d \cup {<<k, now>>} /\ Typed(WithFile(d, k))
         /\ \A j, i : PartOf(WithFile(d, k), j, i) = PartOf(d, j, i)
BY DEF WithFile, PartOf, Typed

\* What the writer of a log held is on disk, in the log's latest file.
LEMMA Pushed ==
  ASSUME Disks, NEW k \in Logs, file[k].made,
         disk' = Flushed(disk, k) \/ disk' = WithFile(Flushed(disk, k), k)
  PROVE  /\ OnDisk(k)' = OnDisk(k) \o file[k].pending
         /\ \A j \in Logs : j # k => OnDisk(j)' = OnDisk(j)
         /\ \A f \in DOMAIN disk' : disk'[f] \in Seq(LineNames)
         /\ DOMAIN disk' = IF disk' = Flushed(disk, k) THEN DOMAIN disk ELSE DOMAIN disk \cup {<<k, now>>}
<1> DEFINE d == Flushed(disk, k)
           s == file[k].stamp
           p == file[k].pending
<1>1. /\ DOMAIN d = DOMAIN disk /\ \A f \in DOMAIN d : d[f] \in Seq(LineNames)
      /\ \A j, i : PartOf(d, j, i) = IF j = k /\ i - 1 = s THEN PartOf(disk, j, i) \o p ELSE PartOf(disk, j, i)
  BY FlushedIs
<1>. HIDE DEF d
<1>2. /\ DOMAIN disk' = IF disk' = d THEN DOMAIN disk ELSE DOMAIN disk \cup {<<k, now>>}
      /\ \A f \in DOMAIN disk' : disk'[f] \in Seq(LineNames)
      /\ \A j, i : PartOf(disk', j, i) = PartOf(d, j, i)
  <2>1. CASE disk' = d
    BY <1>1, <2>1
  <2>2. CASE disk' # d
    <3>1. disk' = WithFile(d, k)
      BY <2>2 DEF d
    <3>2. Typed(d)
      BY <1>1 DEF Typed
    <3>3. /\ DOMAIN disk' = DOMAIN d \cup {<<k, now>>} /\ Typed(disk')
          /\ \A j, i : PartOf(disk', j, i) = PartOf(d, j, i)
      <4>1. /\ DOMAIN WithFile(d, k) = DOMAIN d \cup {<<k, now>>} /\ Typed(WithFile(d, k))
            /\ \A j, i : PartOf(WithFile(d, k), j, i) = PartOf(d, j, i)
        BY <3>2, WithFileIs
      <4>. QED  BY <3>1, <4>1
    <3>. QED  BY <1>1, <2>2, <3>3 DEF Typed
  <2>. QED  BY <2>1, <2>2
<1>3. p \in Seq(LineNames) /\ s \in Nat
  BY DEF Disks, FileType
<1>4. \A i \in 1..(MaxTime + 1) :
        PartOf(disk', k, i) = IF i = s + 1 THEN PartOf(disk, k, i) \o p ELSE PartOf(disk, k, i)
  <2>. HIDE DEF s, p
  <2>1. \A i \in 1..(MaxTime + 1) : i - 1 = s <=> i = s + 1
    BY <1>3, TimeAssumption
  <2>. QED  BY <1>1, <1>2, <2>1
<1>5. OnDisk(k)' = OnDisk(k) \o p
  BY <1>2, <1>3, <1>4, DiskGrows
<1>6. \A j \in Logs : j # k => OnDisk(j)' = OnDisk(j)
  <2> SUFFICES ASSUME NEW j \in Logs, j # k PROVE OnDisk(j)' = OnDisk(j)
    OBVIOUS
  <2>1. \A i \in 1..(MaxTime + 1) : PartOf(disk', j, i) = PartOf(disk, j, i)
    BY <1>1, <1>2
  <2>. QED  BY <2>1, SameParts
<1>. QED  BY <1>2, <1>5, <1>6 DEF d

\* What a log's writer is made of, while the disk does not fail.
LEMMA FileFields ==
  ASSUME NEW f \in FileType
  PROVE  /\ f.made \in BOOLEAN /\ f.open \in BOOLEAN /\ f.err = FALSE /\ f.stamp \in Nat
         /\ f.pending \in Seq(LineNames) /\ f.nbytes \in Nat
         /\ f = [made |-> f.made, open |-> f.open, err |-> FALSE, stamp |-> f.stamp, pending |-> f.pending, nbytes |-> f.nbytes]
<1>1. /\ f.made \in BOOLEAN /\ f.open \in BOOLEAN /\ f.err \in {FALSE} /\ f.stamp \in Nat
      /\ f.pending \in Seq(LineNames) /\ f.nbytes \in Nat
  BY DEF FileType
<1>2. f = [made |-> f.made, open |-> f.open, err |-> f.err, stamp |-> f.stamp, pending |-> f.pending, nbytes |-> f.nbytes]
  BY DEF FileType
<1>. QED  BY <1>1, <1>2

\* A line that goes into a writer.
LEMMA AppendedIs ==
  ASSUME NEW f \in FileType, NEW line \in LineNames
  PROVE  LET r == Appended(f, line)
         IN  /\ r \in FileType /\ r.stamp = f.stamp /\ r.pending = Append(f.pending, line)
             /\ (f.made => r.made) /\ (f.open => r.open)
<1> DEFINE p == Append(f.pending, line)
           n == f.nbytes + 1
           r == Appended(f, line)
<1>1. /\ f = [made |-> f.made, open |-> f.open, err |-> FALSE, stamp |-> f.stamp, pending |-> f.pending, nbytes |-> f.nbytes]
      /\ f.made \in BOOLEAN /\ f.open \in BOOLEAN /\ f.err = FALSE /\ f.stamp \in Nat
      /\ p \in Seq(LineNames) /\ n \in Nat
  <2>1. p \in Seq(LineNames) /\ n \in Nat
    <3>1. f.pending \in Seq(LineNames) /\ f.nbytes \in Nat
      BY FileFields
    <3>. QED  BY <3>1
  <2>. HIDE DEF p, n
  <2>. QED  BY <2>1, FileFields
<1>. HIDE DEF p, n
<1>2. r = [[f EXCEPT !.pending = p] EXCEPT !.nbytes = n]
  BY DEF Appended, p, n
<1>3. r = [made |-> f.made, open |-> f.open, err |-> FALSE, stamp |-> f.stamp, pending |-> p, nbytes |-> n]
  BY <1>1, <1>2
<1>. HIDE DEF r
<1>4. r \in FileType /\ r.stamp = f.stamp /\ r.pending = p /\ (f.made => r.made) /\ (f.open => r.open)
  BY <1>1, <1>3 DEF FileType
<1>. QED  BY <1>4 DEF r, p

LEMMA EmptiedIs ==
  ASSUME NEW f \in FileType
  PROVE  LET r == [f EXCEPT !.pending = << >>]
         IN  /\ r \in FileType /\ r.stamp = f.stamp /\ r.pending = << >>
             /\ (f.made => r.made) /\ (f.open => r.open)
<1> DEFINE r == [f EXCEPT !.pending = << >>]
<1>1. /\ f = [made |-> f.made, open |-> f.open, err |-> FALSE, stamp |-> f.stamp, pending |-> f.pending, nbytes |-> f.nbytes]
      /\ f.made \in BOOLEAN /\ f.open \in BOOLEAN /\ f.err = FALSE /\ f.stamp \in Nat /\ f.nbytes \in Nat
  BY FileFields
<1>2. r = [made |-> f.made, open |-> f.open, err |-> FALSE, stamp |-> f.stamp, pending |-> << >>, nbytes |-> f.nbytes]
  <2>1. /\ r.made = f.made /\ r.open = f.open /\ r.err = f.err /\ r.stamp = f.stamp
        /\ r.pending = << >> /\ r.nbytes = f.nbytes
    BY <1>1
  <2>2. r = [made |-> r.made, open |-> r.open, err |-> r.err, stamp |-> r.stamp, pending |-> r.pending, nbytes |-> r.nbytes]
    BY <1>1
  <2>. HIDE DEF r
  <2>. QED  BY <1>1, <2>1, <2>2
<1>. HIDE DEF r
<1>3. << >> \in Seq(LineNames)
  OBVIOUS
<1>4. r \in FileType /\ r.stamp = f.stamp /\ r.pending = << >> /\ (f.made => r.made) /\ (f.open => r.open)
  BY <1>1, <1>2, <1>3 DEF FileType
<1>. QED  BY <1>4 DEF r

\* The same when the writer was flushed before.
LEMMA RefilledIs ==
  ASSUME NEW f \in FileType, NEW line \in LineNames
  PROVE  LET r == Appended([f EXCEPT !.pending = << >>], line)
         IN  /\ r \in FileType /\ r.stamp = f.stamp /\ r.pending = << line >>
             /\ (f.made => r.made) /\ (f.open => r.open)
<1> DEFINE e == [f EXCEPT !.pending = << >>]
<1>1. /\ e \in FileType /\ e.stamp = f.stamp /\ e.pending = << >>
      /\ (f.made => e.made) /\ (f.open => e.open)
  BY EmptiedIs
<1>. HIDE DEF e
<1>2. LET r == Appended(e, line)
      IN  /\ r \in FileType /\ r.stamp = e.stamp /\ r.pending = Append(e.pending, line)
          /\ (e.made => r.made) /\ (e.open => r.open)
  BY <1>1, AppendedIs
<1>3. Append(<< >>, line) = << line >>
  OBVIOUS
<1> DEFINE r == Appended(e, line)
<1>4. /\ r \in FileType /\ r.stamp = f.stamp /\ r.pending = << line >>
      /\ (f.made => r.made) /\ (f.open => r.open)
  <2>1. /\ r \in FileType /\ r.stamp = e.stamp /\ r.pending = Append(e.pending, line)
        /\ (e.made => r.made) /\ (e.open => r.open)
    BY <1>2
  <2>. HIDE DEF r
  <2>. QED  BY <1>1, <1>3, <2>1
<1>. QED  BY <1>4 DEF r, e

\* Nor does the flush before a rotation.
LEMMA RotationFlushes ==
  ASSUME Disks, ~setup.faults, NEW k \in Logs, NEW flush \in FlushOf(k)
  PROVE  ~file[k].err /\ flush.disk = Flushed(disk, k)
<1>1. ~file[k].err
  BY DEF Disks, FileType
<1>. QED  BY <1>1 DEF FlushOf

\* A write adds its line to a log that has a file, and nothing to another.
LEMMA WriteKeeps ==
  ASSUME Disks, ~setup.faults, UNCHANGED now, NEW k \in Logs, NEW line \in LineNames, WriteTo(k, line)
  PROVE  /\ Disks'
         /\ \A j \in Logs : /\ file'[j].made = file[j].made
                            /\ Kept(j)' = IF j = k /\ file[k].made THEN Append(Kept(j), line) ELSE Kept(j)
<1>1. /\ file \in [Logs -> FileType] /\ now \in Nat /\ DiskOk(k)
      /\ \A f \in DOMAIN disk : disk[f] \in Seq(LineNames)
  BY TimeAssumption DEF Disks
<1>2. CASE ~file[k].made
  <2>1. UNCHANGED <<file, disk, now>>
    BY <1>2 DEF WriteTo
  <2>. QED  BY <1>2, <2>1 DEF Disks, DiskOk, Kept, OnDisk
<1>3. CASE file[k].made
  <2> DEFINE p == file[k].pending
             more == Append(p, line)
             old == OnDisk(k)
  <2>1. /\ p \in Seq(LineNames) /\ old \in Seq(LineNames) /\ more \in Seq(LineNames)
        /\ << line >> \in Seq(LineNames)
        /\ \A j \in Logs : file[j] \in FileType
        /\ <<k, file[k].stamp>> \in DOMAIN disk /\ file[k].stamp \in 0..now /\ file[k].open
    BY <1>1, <1>3, OnDiskTyped DEF DiskOk
  <2>2. (old \o p) \o << line >> = Append(old \o p, line) /\ old \o more = Append(old \o p, line)
    <3>. HIDE DEF p, old
    <3>. QED  BY <2>1
  <2>3. CASE file' = [file EXCEPT ![k] = Appended(@, line)] /\ UNCHANGED disk
    <3> DEFINE r == Appended(file[k], line)
    <3>1. r \in FileType /\ r.made /\ r.open /\ r.stamp = file[k].stamp /\ r.pending = more
      BY <1>3, <2>1, AppendedIs
    <3>2. file' = [file EXCEPT ![k] = r]
      BY <2>3
    <3>3. DOMAIN disk' = DOMAIN disk \cup {<<k, r.stamp>>}
      BY <2>1, <2>3, <3>1
    <3>. HIDE DEF r, more
    <3>4. Disks'
      <4>1. r.stamp \in 0..now /\ r.stamp >= file[k].stamp
        BY <1>1, <2>1, <3>1
      <4>. QED  BY <1>1, <2>3, <3>1, <3>2, <3>3, <4>1, DisksAfter
    <3>5. file'[k] = r /\ \A j \in Logs : j # k => file'[j] = file[j]
      BY <1>1, <3>2
    <3>6. \A j \in Logs : OnDisk(j)' = OnDisk(j)
      BY <2>3 DEF OnDisk
    <3>7. Kept(k)' = old \o more
      BY <3>1, <3>5, <3>6 DEF Kept
    <3>8. \A j \in Logs : j # k => Kept(j)' = Kept(j)
      BY <3>5, <3>6 DEF Kept
    <3>9. \A j \in Logs : file'[j].made = file[j].made
      BY <1>3, <2>1, <3>1, <3>5 DEF FileType
    <3>10. Kept(k)' = Append(Kept(k), line)
      BY <2>2, <3>7 DEF Kept
    <3>. QED  BY <1>3, <3>4, <3>8, <3>9, <3>10
  <2>4. CASE /\ disk' = Flushed(disk, k)
             /\ file' = [file EXCEPT ![k] = Appended([@ EXCEPT !.pending = << >>], line)]
    <3> DEFINE r == Appended([file[k] EXCEPT !.pending = << >>], line)
    <3>1. r \in FileType /\ r.made /\ r.open /\ r.stamp = file[k].stamp /\ r.pending = << line >>
      <4>1. file[k] \in FileType
        BY <2>1
      <4>. QED  BY <1>3, <2>1, <4>1, RefilledIs
    <3>2. file' = [file EXCEPT ![k] = r]
      BY <2>4
    <3>. HIDE DEF r, more
    <3>3. /\ OnDisk(k)' = old \o p /\ \A j \in Logs : j # k => OnDisk(j)' = OnDisk(j)
          /\ \A f \in DOMAIN disk' : disk'[f] \in Seq(LineNames)
          /\ DOMAIN disk' = DOMAIN disk
      BY <1>3, <2>4, Pushed
    <3>4. Disks'
      <4>1. r.stamp \in 0..now /\ r.stamp >= file[k].stamp /\ DOMAIN disk' = DOMAIN disk \cup {<<k, r.stamp>>}
        <5>1. r.stamp = file[k].stamp /\ file[k].stamp \in Nat /\ <<k, r.stamp>> \in DOMAIN disk
          BY <2>1, <3>1, <1>1
        <5>2. DOMAIN disk' = DOMAIN disk \cup {<<k, r.stamp>>}
          BY <3>3, <5>1
        <5>3. r.stamp \in 0..now /\ r.stamp >= file[k].stamp
          <6> DEFINE a == file[k].stamp
          <6>1. r.stamp = a /\ a \in Nat /\ a \in 0..now
            BY <2>1, <5>1
          <6>. HIDE DEF a
          <6>2. r.stamp \in 0..now /\ r.stamp >= a
            BY ONLY <6>1
          <6>. QED  BY ONLY <6>2 DEF a
        <5>. QED  BY <5>2, <5>3
      <4>. QED  BY <3>1, <3>2, <3>3, <4>1, DisksAfter
    <3>5. file'[k] = r /\ \A j \in Logs : j # k => file'[j] = file[j]
      BY <1>1, <3>2
    <3>7. Kept(k)' = (old \o p) \o << line >>
      BY <3>1, <3>3, <3>5 DEF Kept
    <3>8. \A j \in Logs : j # k => Kept(j)' = Kept(j)
      BY <3>3, <3>5 DEF Kept
    <3>9. \A j \in Logs : file'[j].made = file[j].made
      BY <1>3, <2>1, <3>1, <3>5 DEF FileType
    <3>10. Kept(k)' = Append(Kept(k), line)
      BY <2>2, <3>7 DEF Kept
    <3>. QED  BY <1>3, <3>4, <3>8, <3>9, <3>10
  <2>5. CASE /\ disk' = WithFile(Flushed(disk, k), k)
             /\ file' = [file EXCEPT ![k] = Appended(Opened(k), line)]
    <3> DEFINE r == Appended(Opened(k), line)
    <3>1. r \in FileType /\ r.made /\ r.open /\ r.stamp = now /\ r.pending = << line >>
      <4>1. /\ Opened(k) \in FileType /\ Opened(k).made /\ Opened(k).open /\ Opened(k).stamp = now
            /\ Opened(k).pending = << >>
        BY <1>1 DEF Opened, FileType
      <4>. QED  BY <4>1, AppendedIs
    <3>2. file' = [file EXCEPT ![k] = r]
      BY <2>5
    <3>. HIDE DEF r, more
    <3>3. /\ OnDisk(k)' = old \o p /\ \A j \in Logs : j # k => OnDisk(j)' = OnDisk(j)
          /\ \A f \in DOMAIN disk' : disk'[f] \in Seq(LineNames)
      BY <1>3, <2>5, Pushed
    <3>4. DOMAIN disk' = DOMAIN disk \cup {<<k, now>>}
      <4>1. DOMAIN Flushed(disk, k) = DOMAIN disk /\ Typed(Flushed(disk, k))
        BY <1>3, FlushedIs DEF Typed
      <4>. QED  BY <2>5, <4>1, WithFileIs
    <3>5. Disks'
      <4>1. r.stamp \in 0..now /\ r.stamp >= file[k].stamp
        BY <1>1, <2>1, <3>1
      <4>. QED  BY <3>1, <3>2, <3>3, <3>4, <4>1, DisksAfter
    <3>6. file'[k] = r /\ \A j \in Logs : j # k => file'[j] = file[j]
      BY <1>1, <3>2
    <3>7. Kept(k)' = (old \o p) \o << line >>
      BY <3>1, <3>3, <3>6 DEF Kept
    <3>8. \A j \in Logs : j # k => Kept(j)' = Kept(j)
      BY <3>3, <3>6 DEF Kept
    <3>9. \A j \in Logs : file'[j].made = file[j].made
      BY <1>3, <2>1, <3>1, <3>6 DEF FileType
    <3>10. Kept(k)' = Append(Kept(k), line)
      BY <2>2, <3>7 DEF Kept
    <3>. QED  BY <1>3, <3>5, <3>8, <3>9, <3>10
  <2>6. ~file[k].err
    BY DEF Disks, FileType
  <2>7. (\E flush \in FlushOf(k) : disk' = WithFile(flush.disk, k)) => disk' = WithFile(Flushed(disk, k), k)
    BY RotationFlushes
  <2>. QED  BY <1>3, <2>3, <2>4, <2>5, <2>6, <2>7 DEF WriteTo
<1>. QED  BY <1>2, <1>3

\* While the disk does not fail, no flush of all logs does.
LEMMA FlushSucceeds ==
  ASSUME Disks, ~setup.faults, FlushAll(disk, file)
  PROVE  disk' = AllFlushed(disk, file, {}) /\ file' = AfterFlush(file, {})
<1>1. ASSUME NEW k \in Logs PROVE ~file[k].err /\ ~(~file[k].open /\ file[k].pending # << >>)
  <2>1. file[k] \in FileType /\ DiskOk(k)
    BY DEF Disks
  <2>. QED  BY <2>1 DEF FileType, DiskOk
<1>2. { k \in Logs : file[k].err \/ (~file[k].open /\ file[k].pending # << >>) } = {}
  BY <1>1
<1>3. { k \in Logs : setup.faults /\ file[k].pending # << >> } = {}
  OBVIOUS
<1>4. \A bad \in FlushFailures(file) : bad = {}
  BY <1>2, <1>3 DEF FlushFailures
<1>. QED  BY <1>4 DEF FlushAll

\* Flushing moves what the writers hold to disk.
LEMMA FlushKeeps ==
  ASSUME Disks, ~setup.faults, FlushAll(disk, file), UNCHANGED now
  PROVE  /\ Disks'
         /\ \A k \in Logs : file'[k].made = file[k].made /\ Kept(k)' = Kept(k)
<1>1. /\ file \in [Logs -> FileType] /\ \A f \in DOMAIN disk : disk[f] \in Seq(LineNames)
      /\ DOMAIN disk \subseteq Logs \X (0..MaxTime) /\ now \in 0..MaxTime
      /\ \A k \in Logs : DiskOk(k) /\ file[k] \in FileType
  BY DEF Disks
<1>2. /\ DOMAIN disk' = DOMAIN disk
      /\ \A f \in DOMAIN disk :
           disk'[f] = disk[f] \o (IF file[f[1]].open /\ file[f[1]].stamp = f[2] THEN file[f[1]].pending ELSE << >>)
  BY FlushSucceeds DEF AllFlushed
<1>3. \A f \in DOMAIN disk' : disk'[f] \in Seq(LineNames)
  <2> SUFFICES ASSUME NEW f \in DOMAIN disk PROVE disk'[f] \in Seq(LineNames)
    BY <1>2
  <2> DEFINE p == IF file[f[1]].open /\ file[f[1]].stamp = f[2] THEN file[f[1]].pending ELSE << >>
  <2>1. f[1] \in Logs
    BY <1>1
  <2>2. p \in Seq(LineNames)
    <3>1. \A k \in Logs : file[k].pending \in Seq(LineNames)
      BY <1>1, FileFields
    <3>2. << >> \in Seq(LineNames)
      OBVIOUS
    <3>. QED  BY <2>1, <3>1, <3>2
  <2>3. disk'[f] = disk[f] \o p /\ disk[f] \in Seq(LineNames)
    BY <1>1, <1>2
  <2>. HIDE DEF p
  <2>. QED  BY <2>2, <2>3
<1>4. ASSUME NEW k \in Logs
      PROVE  /\ file'[k] \in FileType /\ file'[k].stamp = file[k].stamp
             /\ file'[k].made = file[k].made /\ file'[k].open = file[k].open /\ file'[k].pending = << >>
  <2> DEFINE r == [file[k] EXCEPT !.pending = << >>]
  <2>1. file'[k] = IF file[k].open THEN r ELSE file[k]
    BY FlushSucceeds DEF AfterFlush
  <2>2. r \in FileType /\ r.stamp = file[k].stamp /\ r.pending = << >> /\ (file[k].made => r.made) /\ (file[k].open => r.open)
    BY <1>1, EmptiedIs
  <2>. HIDE DEF r
  <2>3. file[k] \in FileType /\ file[k].open = file[k].made /\ (~file[k].made => file[k].pending = << >>)
    BY <1>1 DEF DiskOk
  <2>. QED  BY <2>1, <2>2, <2>3 DEF FileType
<1>5. file' \in [Logs -> FileType]
  BY <1>4, FlushSucceeds DEF AfterFlush
<1>6. ASSUME NEW k \in Logs PROVE DiskOk(k)'
  BY <1>1, <1>2, <1>4 DEF DiskOk
<1>7. ASSUME NEW k \in Logs PROVE Kept(k)' = Kept(k)
  <2> DEFINE p == file[k].pending
             s == file[k].stamp
  <2>1. p \in Seq(LineNames) /\ OnDisk(k) \in Seq(LineNames) /\ s \in Nat
    BY <1>1, OnDiskTyped DEF FileType
  <2>2. CASE file[k].made
    <3>1. file[k].open /\ <<k, s>> \in DOMAIN disk
      BY <1>1, <2>2 DEF DiskOk
    <3>2. \A i \in 1..(MaxTime + 1) : i - 1 = s <=> i = s + 1
      <4>. HIDE DEF s
      <4>. QED  BY <2>1, TimeAssumption
    <3>. HIDE DEF p, s
    <3>3. ASSUME NEW i \in 1..(MaxTime + 1)
          PROVE  PartOf(disk', k, i) = IF i = s + 1 THEN PartOf(disk, k, i) \o p ELSE PartOf(disk, k, i)
      <4> DEFINE f == <<k, i - 1>>
      <4>1. CASE f \in DOMAIN disk
        <5>1. disk'[f] = disk[f] \o (IF i - 1 = s THEN p ELSE << >>)
          BY <1>2, <3>1, <4>1 DEF p, s
        <5>2. disk[f] \o << >> = disk[f]
          BY <1>1, <4>1
        <5>. QED  BY <1>2, <3>2, <4>1, <5>1, <5>2 DEF PartOf
      <4>2. CASE f \notin DOMAIN disk
        <5>1. i - 1 # s
          BY <3>1, <4>2
        <5>. QED  BY <1>2, <3>2, <4>2, <5>1 DEF PartOf
      <4>. QED  BY <4>1, <4>2
    <3>4. OnDisk(k)' = OnDisk(k) \o p
      BY <1>3, <2>1, <2>2, <3>3, DiskGrows DEF s
    <3>5. (OnDisk(k) \o p) \o << >> = OnDisk(k) \o p
      BY <2>1
    <3>. QED  BY <1>4, <3>4, <3>5 DEF Kept, p
  <2>3. CASE ~file[k].made
    <3>1. ~file[k].open /\ p = << >> /\ \A d \in 0..MaxTime : <<k, d>> \notin DOMAIN disk
      BY <1>1, <2>3 DEF DiskOk
    <3>2. \A i \in 1..(MaxTime + 1) : i - 1 \in 0..MaxTime
      BY TimeAssumption
    <3>3. \A i \in 1..(MaxTime + 1) : PartOf(disk', k, i) = PartOf(disk, k, i)
      BY <1>2, <3>1, <3>2 DEF PartOf
    <3>4. OnDisk(k)' = OnDisk(k)
      BY <3>3, SameParts
    <3>. QED  BY <1>4, <3>1, <3>4 DEF Kept
  <2>. QED  BY <2>2, <2>3
<1>. QED  BY <1>1, <1>2, <1>3, <1>4, <1>5, <1>6, <1>7 DEF Disks

\* A first file adds nothing to its log.
LEMMA CreateKeeps ==
  ASSUME Disks, UNCHANGED now, NEW k \in Logs, ~file[k].made,
         disk' = WithFile(disk, k), file' = [file EXCEPT ![k] = Opened(k)]
  PROVE  /\ Disks'
         /\ \A j \in Logs : (file'[j].made <=> (j = k \/ file[j].made)) /\ Kept(j)' = Kept(j)
<1>1. /\ file \in [Logs -> FileType] /\ now \in Nat /\ Typed(disk) /\ DiskOk(k)
  BY TimeAssumption DEF Disks, Typed
<1>2. /\ Opened(k) \in FileType /\ Opened(k).made /\ Opened(k).open /\ Opened(k).stamp = now
      /\ Opened(k).pending = << >>
  <2>1. << >> \in Seq(LineNames)
    OBVIOUS
  <2>. QED  BY <1>1, <2>1 DEF Opened, FileType
<1>3. /\ DOMAIN disk' = DOMAIN disk \cup {<<k, now>>} /\ Typed(disk')
      /\ \A j, i : PartOf(disk', j, i) = PartOf(disk, j, i)
  <2>1. /\ DOMAIN WithFile(disk, k) = DOMAIN disk \cup {<<k, now>>} /\ Typed(WithFile(disk, k))
        /\ \A j, i : PartOf(WithFile(disk, k), j, i) = PartOf(disk, j, i)
    BY <1>1, WithFileIs
  <2>. QED  BY <2>1
<1>4. Disks'
  <2>1. Opened(k).stamp \in 0..now
    BY <1>1, <1>2
  <2>2. \A f \in DOMAIN disk' : disk'[f] \in Seq(LineNames)
    BY <1>3 DEF Typed
  <2>. QED  BY <1>2, <1>3, <2>1, <2>2, DisksAfter
<1>5. \A j \in Logs : OnDisk(j)' = OnDisk(j)
  BY <1>3, SameParts
<1>6. file'[k] = Opened(k) /\ \A j \in Logs : j # k => file'[j] = file[j]
  BY <1>1
<1>7. file[k].pending = << >>
  BY <1>1 DEF DiskOk
<1>8. \A j \in Logs : Kept(j)' = Kept(j)
  BY <1>2, <1>5, <1>6, <1>7 DEF Kept
<1>9. \A j \in Logs : file'[j].made <=> (j = k \/ file[j].made)
  BY <1>2, <1>6
<1>. QED  BY <1>4, <1>8, <1>9

-----------------------------------------------------------------------------
(* The lines of a log. *)

LEMMA AppendParts ==
  ASSUME NEW S, NEW s \in Seq(S), NEW x \in S
  PROVE  /\ Append(s, x) \in [1..(Len(s) + 1) -> S] /\ Append(s, x)[Len(s) + 1] = x
         /\ \A i \in 1..Len(s) : Append(s, x)[i] = s[i]
<1> DEFINE t == Append(s, x)
<1>1. t \in Seq(S) /\ Len(t) = Len(s) + 1
  OBVIOUS
<1>2. t[Len(s) + 1] = x
  OBVIOUS
<1>3. \A i \in 1..Len(s) : t[i] = s[i]
  OBVIOUS
<1>. HIDE DEF t
<1>4. t \in [1..Len(t) -> S]
  BY <1>1
<1>. QED  BY <1>1, <1>2, <1>3, <1>4 DEF t

LEMMA Upto ==
  ASSUME NEW n \in Nat
  PROVE  n + 1 \in 1..(n + 1) /\ \A i \in 1..n : i \in 1..(n + 1)
OBVIOUS

LEMMA LinesSnoc ==
  ASSUME NEW s \in Seq(LineNames), NEW line \in LineNames
  PROVE  /\ Lines(s) \in Seq(LineNames)
         /\ Lines(Append(s, line)) = IF line[2] # 0 THEN Append(Lines(s), line) ELSE Lines(s)
<1> DEFINE n == Len(s)
           one(x) == IF x[2] # 0 THEN << x >> ELSE << >>
           old == [i \in DOMAIN s |-> one(s[i])]
           s2 == Append(s, line)
           new == [i \in DOMAIN s2 |-> one(s2[i])]
<1>1. n \in Nat /\ s \in [1..n -> LineNames]
  OBVIOUS
<1>2. /\ s2 \in [1..(n + 1) -> LineNames] /\ s2[n + 1] = line /\ \A i \in 1..n : s2[i] = s[i]
      /\ n + 1 \in 1..(n + 1) /\ \A i \in 1..n : i \in 1..(n + 1)
  BY <1>1, AppendParts, Upto
<1>3. \A x \in LineNames : one(x) \in Seq(LineNames)
  OBVIOUS
<1>. HIDE DEF s2, n, one
<1>4. old \in [1..n -> Seq(LineNames)] /\ new \in [1..(n + 1) -> Seq(LineNames)]
  BY <1>1, <1>2, <1>3
<1>5. \A i \in 1..n : new[i] = old[i]
  BY <1>1, <1>2
<1>6. new[n + 1] = one(line)
  BY <1>2
<1>7. Lines(s) = FlattenSeq(old) /\ Lines(s2) = FlattenSeq(new)
  BY DEF Lines, one
<1>. HIDE DEF old, new
<1>8. FlattenSeq(old) \in Seq(LineNames) /\ FlattenSeq(new) = FlattenSeq(old) \o new[n + 1]
  BY <1>1, <1>4, <1>5, FlattenSnoc
<1>9. Lines(s) \in Seq(LineNames) /\ Lines(s2) = Lines(s) \o one(line)
  BY <1>6, <1>7, <1>8
<1>10. Lines(s) \o << line >> = Append(Lines(s), line) /\ Lines(s) \o << >> = Lines(s)
  BY <1>9
<1>. QED  BY <1>9, <1>10 DEF one, s2

LEMMA ExpectedSnoc ==
  ASSUME out \in Seq(LineNames), NEW line \in LineNames, out' = Append(out, line), UNCHANGED script, NEW k
  PROVE  /\ Expected(k) \in Seq(LineNames)
         /\ Expected(k)' = IF GoesTo(line, k) THEN Append(Expected(k), line) ELSE Expected(k)
<1> DEFINE n == Len(out)
           one(x) == IF GoesTo(x, k) THEN << x >> ELSE << >>
           old == [i \in DOMAIN out |-> one(out[i])]
           new == [i \in DOMAIN out' |-> one(out'[i])]
<1>1. n \in Nat /\ out \in [1..n -> LineNames]
  OBVIOUS
<1>2. /\ out' \in [1..(n + 1) -> LineNames] /\ out'[n + 1] = line /\ \A i \in 1..n : out'[i] = out[i]
      /\ n + 1 \in 1..(n + 1) /\ \A i \in 1..n : i \in 1..(n + 1)
  BY <1>1, AppendParts, Upto
<1>3. \A x \in LineNames : one(x) \in Seq(LineNames)
  OBVIOUS
<1>4. \A x : GoesTo(x, k)' <=> GoesTo(x, k)
  BY DEF GoesTo, CallOf
<1>7. Expected(k) = FlattenSeq(old) /\ Expected(k)' = FlattenSeq(new)
  BY <1>4 DEF Expected
<1>. HIDE DEF n, one
<1>5. old \in [1..n -> Seq(LineNames)] /\ new \in [1..(n + 1) -> Seq(LineNames)]
  BY <1>1, <1>2, <1>3
<1>6. new[n + 1] = one(line) /\ \A i \in 1..n : new[i] = old[i]
  BY <1>1, <1>2
<1>. HIDE DEF old, new
<1>8. FlattenSeq(old) \in Seq(LineNames) /\ FlattenSeq(new) = FlattenSeq(old) \o new[n + 1]
  BY <1>1, <1>5, <1>6, FlattenSnoc
<1>9. Expected(k) \in Seq(LineNames) /\ Expected(k)' = Expected(k) \o one(line)
  BY <1>6, <1>7, <1>8
<1>10. Expected(k) \o << line >> = Append(Expected(k), line) /\ Expected(k) \o << >> = Expected(k)
  BY <1>9
<1>. QED  BY <1>9, <1>10 DEF one

-----------------------------------------------------------------------------
(* The goroutine in output, and the logs it has still to visit. *)

Wanted(t) == ToSet(Targets(SevOf(Call(t)), Call(t).name))
Busy == {"create", "write"}
Distinct(s) == \A i, j \in 1..Len(s) : i # j => s[i] # s[j]

\* It visits the logs of the line it output last, one after the other: first
\* those that have no file, then all.
Visiting ==
  /\ left \in Seq(Logs)
  /\ out \in Seq(LineNames)
  /\ \A t \in Threads : pc[t] \in Busy =>
       /\ Distinct(left) /\ ToSet(left) \subseteq Wanted(t)
       /\ out # << >> /\ out[Len(out)] = Line(t)
  /\ \A t \in Threads : pc[t] = "create" => \A k \in Wanted(t) : file[k].made <=> k \notin ToSet(left)
  /\ \A t \in Threads : pc[t] = "write" => \A k \in Wanted(t) : file[k].made

\* A severity that has a file has one for each severity below it, or will when
\* the files that are being created are.
Downward ==
  \A i, j \in Severity : i < j /\ file[j].made =>
    file[i].made \/ \E t \in Threads : pc[t] = "create" /\ i \in ToSet(left)

\* Log k is to get the line that was output last.
Owes(k) ==
  \E t \in Threads : \/ pc[t] = "create" /\ k \in Wanted(t)
                     \/ pc[t] = "write" /\ k \in ToSet(left)

Exact ==
  \A k \in Logs :
    Expected(k) = IF Owes(k) THEN Append(Lines(Kept(k)), out[Len(out)]) ELSE Lines(Kept(k))

Filed == Disks /\ Visiting /\ Downward /\ Exact

LEMMA Alone ==
  ASSUME MutexInv, NEW t \in Threads, pc[t] \in Locked, NEW u \in Threads, pc[u] \in Locked
  PROVE  u = t
BY DEF MutexInv

LEMMA Nobody ==
  ASSUME MutexInv, mu = "free", NEW u \in Threads
  PROVE  pc[u] \notin Locked
BY ThreadsAssumption DEF MutexInv

\* The logs of a line, from its severity down, or one.
LEMMA TargetsOk ==
  ASSUME NEW sev \in Severity, NEW name \in Names \cup {NoName}, NEW T, T = Targets(sev, name)
  PROVE  /\ T \in Seq(Logs) /\ Distinct(T)
         /\ \A i, j \in 1..Len(T) : j <= i => T[i] = T[j] \/ (T[i] \in Severity /\ T[j] \in Severity /\ T[i] < T[j])
         /\ \A i, j \in Severity : i < j /\ j \in ToSet(T) => i \in ToSet(T)
<1>1. sev \in Nat /\ sev \in 0..Fatal
  BY DEF Severity, Fatal
<1>2. CASE name = NoName
  <2>1. T = [i \in 1..(sev + 1) |-> sev + 1 - i]
    BY <1>2 DEF Targets, From
  <2>2. \A i \in 1..(sev + 1) : sev + 1 - i \in Severity
    BY <1>1 DEF Severity, Fatal
  <2>3. sev + 1 \in Nat
    BY <1>1
  <2>4. T \in Seq(Logs) /\ Len(T) = sev + 1 /\ \A i \in 1..(sev + 1) : T[i] = sev + 1 - i
    BY <2>1, <2>2, <2>3 DEF Logs
  <2>5. Distinct(T)
    BY <1>1, <2>4 DEF Distinct
  <2>6. \A i, j \in 1..Len(T) : j <= i => T[i] = T[j] \/ (T[i] \in Severity /\ T[j] \in Severity /\ T[i] < T[j])
    BY <1>1, <2>2, <2>4
  <2>7. ASSUME NEW i \in Severity, NEW j \in Severity, i < j, j \in ToSet(T) PROVE i \in ToSet(T)
    <3>1. PICK n \in 1..(sev + 1) : j = sev + 1 - n
      BY <2>4, <2>7 DEF ToSet
    <3>2. sev + 1 - i \in 1..(sev + 1) /\ sev + 1 - (sev + 1 - i) = i
      BY <1>1, <2>7, <3>1 DEF Severity, Fatal
    <3>3. T[sev + 1 - i] = i /\ sev + 1 - i \in DOMAIN T
      BY <2>1, <3>2
    <3>. QED  BY <3>3 DEF ToSet
  <2>. QED  BY <2>4, <2>5, <2>6, <2>7
<1>3. CASE name # NoName
  <2>1. T = << name >> /\ name \in Names
    BY <1>3 DEF Targets
  <2>2. T \in Seq(Logs) /\ Len(T) = 1 /\ T[1] = name
    BY <2>1 DEF Logs
  <2>3. ToSet(T) = {name}
    BY <2>1 DEF ToSet
  <2>. QED  BY <2>1, <2>2, <2>3, NamesAssumption DEF Distinct
<1>. QED  BY <1>2, <1>3

LEMMA WantedIs ==
  ASSUME PlaceInv, PrintInv, NEW t \in Threads, pc[t] \in Holding
  PROVE  LET T == Targets(SevOf(Call(t)), Call(t).name)
         IN  /\ SevOf(Call(t)) \in Severity /\ Call(t).name \in Names \cup {NoName}
             /\ T \in Seq(Logs) /\ Distinct(T) /\ ToSet(T) = Wanted(t) /\ Wanted(t) \subseteq Logs
             /\ \A i, j \in 1..Len(T) : j <= i => T[i] = T[j] \/ (T[i] \in Severity /\ T[j] \in Severity /\ T[i] < T[j])
             /\ \A i, j \in Severity : i < j /\ j \in Wanted(t) => i \in Wanted(t)
             /\ \A k : GoesTo(Line(t), k) <=> k \in Wanted(t)
<1> DEFINE T == Targets(SevOf(Call(t)), Call(t).name)
<1>1. at[t] + 1 \in 1..Len(script[t]) /\ Call(t).op \in {"V", "print", "exit"} /\ script \in Scripts
  BY DEF PlaceInv, PrintInv, Printing
<1>2. SevOf(Call(t)) \in Severity /\ Call(t).name \in Names \cup {NoName}
  BY <1>1, PrintsAssumption DEF Call
<1>3. /\ T \in Seq(Logs) /\ Distinct(T)
      /\ \A i, j \in 1..Len(T) : j <= i => T[i] = T[j] \/ (T[i] \in Severity /\ T[j] \in Severity /\ T[i] < T[j])
      /\ \A i, j \in Severity : i < j /\ j \in ToSet(T) => i \in ToSet(T)
  BY <1>2, TargetsOk
<1>4. CallOf(Line(t)) = Call(t)
  BY DEF CallOf, Line, Call
<1>5. \A k : GoesTo(Line(t), k) <=> k \in Wanted(t)
  BY <1>4 DEF GoesTo, Wanted, ToSet
<1>6. ToSet(T) \subseteq Logs
  BY <1>3 DEF ToSet
<1>. QED  BY <1>2, <1>3, <1>5, <1>6 DEF Wanted

\* A step after which the same logs have files, with the same lines in them,
\* and a goroutine in output is where it was.
LEMMA FiledStays ==
  ASSUME Filed, Disks', UNCHANGED <<script, out>>, left' \in Seq(Logs),
         \A k \in Logs : (file'[k].made <=> file[k].made) /\ Lines(Kept(k)') = Lines(Kept(k)),
         \A t \in Threads : pc[t] \in Busy \/ pc'[t] \in Busy => Stays(t) /\ left' = left,
         \A t \in Threads : pc[t] \in Busy => Wanted(t) \subseteq Logs
  PROVE  Filed'
<1>1. \A t \in Threads : pc[t] \in Busy \/ pc'[t] \in Busy =>
        /\ pc'[t] = pc[t] /\ left' = left /\ Wanted(t)' = Wanted(t) /\ Line(t)' = Line(t)
  BY DEF Stays, Wanted, Line, Call
<1>2. /\ left \in Seq(Logs) /\ out \in Seq(LineNames) /\ Severity \subseteq Logs
      /\ \A t \in Threads : pc[t] \in Busy =>
           /\ Distinct(left) /\ ToSet(left) \subseteq Wanted(t)
           /\ out # << >> /\ out[Len(out)] = Line(t)
      /\ \A t \in Threads : pc[t] = "create" => \A k \in Wanted(t) : file[k].made <=> k \notin ToSet(left)
      /\ \A t \in Threads : pc[t] = "write" => \A k \in Wanted(t) : file[k].made
  BY DEF Filed, Visiting, Logs
<1>3. "create" \in Busy /\ "write" \in Busy
  BY DEF Busy
<1>4. \A t \in Threads : pc'[t] \in Busy =>
        /\ Distinct(left') /\ ToSet(left') \subseteq Wanted(t)' /\ out' # << >> /\ out'[Len(out')] = Line(t)'
  BY <1>1, <1>2
<1>5. \A t \in Threads : pc'[t] = "create" => \A k \in Wanted(t)' : file'[k].made <=> k \notin ToSet(left')
  BY <1>1, <1>2, <1>3
<1>6. \A t \in Threads : pc'[t] = "write" => \A k \in Wanted(t)' : file'[k].made
  BY <1>1, <1>2, <1>3
<1>7. Visiting'
  BY <1>2, <1>4, <1>5, <1>6 DEF Visiting
<1>8. Downward'
  BY <1>1, <1>2, <1>3 DEF Filed, Downward
<1>9. \A k : Owes(k)' <=> Owes(k)
  BY <1>1, <1>3 DEF Owes
<1>10. \A k : Expected(k)' = Expected(k)
  BY DEF Expected, GoesTo, CallOf
<1>11. Exact'
  <2> SUFFICES ASSUME NEW k \in Logs
               PROVE  Expected(k)' = IF Owes(k)' THEN Append(Lines(Kept(k)'), out'[Len(out')]) ELSE Lines(Kept(k)')
    BY DEF Exact, Lines
  <2>1. Lines(Kept(k)') = Lines(Kept(k))
    OBVIOUS
  <2>2. Expected(k) = IF Owes(k) THEN Append(Lines(Kept(k)), out[Len(out)]) ELSE Lines(Kept(k))
    BY DEF Filed, Exact
  <2>. QED  BY <1>9, <1>10, <2>1, <2>2
<1>. QED  BY <1>7, <1>8, <1>11 DEF Filed

-----------------------------------------------------------------------------
(* The steps of output. *)

LEMMA HeadAndTail ==
  ASSUME NEW S, NEW s \in Seq(S), s # << >>, Distinct(s)
  PROVE  /\ Head(s) \in S /\ Head(s) \in ToSet(s)
         /\ Tail(s) \in Seq(S) /\ Distinct(Tail(s)) /\ ToSet(Tail(s)) = ToSet(s) \ {Head(s)}
<1> DEFINE n == Len(s)
           u == Tail(s)
<1>1. n \in Nat /\ n > 0 /\ DOMAIN s = 1..n /\ Head(s) = s[1] /\ 1 \in 1..n /\ \A i \in 1..n : s[i] \in S
  OBVIOUS
<1>2. u \in Seq(S) /\ Len(u) = n - 1 /\ DOMAIN u = 1..(n - 1) /\ \A i \in 1..(n - 1) : u[i] = s[i + 1]
  BY <1>1
<1>3. \A i, j \in 1..n : i # j => s[i] # s[j]
  BY DEF Distinct
<1>. HIDE DEF n, u
<1>4. \A i \in 1..(n - 1) : i + 1 \in 1..n /\ i + 1 # 1
  BY <1>1
<1>5. \A i, j \in 1..(n - 1) : i # j => i + 1 # j + 1
  BY <1>1
<1>6. \A i, j \in 1..(n - 1) : i # j => u[i] # u[j]
  BY <1>2, <1>3, <1>4, <1>5
<1>7. \A i \in 1..n : i = 1 \/ (i - 1 \in 1..(n - 1) /\ (i - 1) + 1 = i)
  BY <1>1
<1>8. ToSet(u) = ToSet(s) \ {s[1]}
  <2>1. ASSUME NEW x \in ToSet(u) PROVE x \in ToSet(s) /\ x # s[1]
    <3>1. PICK i \in 1..(n - 1) : x = u[i]
      BY <1>2 DEF ToSet
    <3>. QED  BY <1>1, <1>2, <1>3, <1>4, <3>1 DEF ToSet
  <2>2. ASSUME NEW x \in ToSet(s), x # s[1] PROVE x \in ToSet(u)
    <3>1. PICK i \in 1..n : x = s[i]
      BY <1>1 DEF ToSet
    <3>2. i - 1 \in 1..(n - 1) /\ u[i - 1] = x
      BY <1>2, <1>7, <2>2, <3>1
    <3>. QED  BY <1>2, <3>2 DEF ToSet
  <2>. QED  BY <2>1, <2>2
<1>. QED  BY <1>1, <1>2, <1>6, <1>8 DEF Distinct, u, ToSet

\* createFiles makes the files that are not there: they are the first ones of
\* the line's logs.
LEMMA ToCreateIs ==
  ASSUME PlaceInv, PrintInv, NEW t \in Threads, pc[t] \in Holding,
         \A i, j \in Severity : i < j /\ file[j].made => file[i].made
  PROVE  /\ ToCreate(t) \in Seq(Logs) /\ Distinct(ToCreate(t))
         /\ ToSet(ToCreate(t)) = { k \in Wanted(t) : ~file[k].made }
<1> DEFINE T == Targets(SevOf(Call(t)), Call(t).name)
           n == Len(T)
           there == { i \in DOMAIN T : file[T[i]].made }
<1>1. /\ T \in Seq(Logs) /\ Distinct(T) /\ ToSet(T) = Wanted(t)
      /\ \A i, j \in 1..n : j <= i => T[i] = T[j] \/ (T[i] \in Severity /\ T[j] \in Severity /\ T[i] < T[j])
  BY WantedIs
<1>2. ToCreate(t) = IF there = {} THEN T
                    ELSE SubSeq(T, 1, (CHOOSE i \in there : \A j \in there : i <= j) - 1)
  BY DEF ToCreate
<1>. HIDE DEF T
<1>3. n \in Nat /\ DOMAIN T = 1..n
  BY <1>1
<1>4. CASE there = {}
  <2>1. \A k \in ToSet(T) : ~file[k].made
    BY <1>4 DEF ToSet
  <2>. QED  BY <1>1, <1>2, <1>4, <2>1
<1>5. CASE there # {}
  <2> DEFINE m == CHOOSE i \in there : \A j \in there : i <= j
             u == SubSeq(T, 1, m - 1)
  <2>1. there \subseteq Nat /\ there \subseteq 1..n
    BY <1>3
  <2>2. \E i \in there : \A j \in there : i <= j
    <3>. HIDE DEF there
    <3>. QED  BY <1>5, <2>1, Least
  <2>3. m \in there /\ \A j \in there : m <= j
    BY <2>2
  <2>4. ToCreate(t) = u
    BY <1>2, <1>5
  <2>5. m \in 1..n /\ file[T[m]].made
    BY <1>3, <2>3
  <2>6. \A i \in 1..n : i < m => ~file[T[i]].made
    BY <1>3, <2>1, <2>3, <2>5
  <2>. HIDE DEF m, there
  <2>7. \A i \in 1..n : m <= i => file[T[i]].made
    BY <1>1, <2>5
  <2>8. u \in Seq(Logs) /\ Len(u) = m - 1 /\ DOMAIN u = 1..(m - 1) /\ \A i \in 1..(m - 1) : u[i] = T[i] /\ i \in 1..n /\ i < m
    BY <1>1, <1>3, <2>5
  <2>9. \A i \in 1..n : i < m <=> i \in 1..(m - 1)
    BY <1>3, <2>5
  <2>. HIDE DEF u, n
  <2>10. Distinct(u)
    BY <1>1, <2>8 DEF Distinct, n
  <2>11. ToSet(u) = { k \in ToSet(T) : ~file[k].made }
    <3>1. ASSUME NEW k \in ToSet(u) PROVE k \in ToSet(T) /\ ~file[k].made
      BY <1>3, <2>6, <2>8, <3>1 DEF ToSet
    <3>2. ASSUME NEW k \in ToSet(T), ~file[k].made PROVE k \in ToSet(u)
      <4>1. PICK i \in 1..n : T[i] = k
        BY <1>3 DEF ToSet
      <4>2. i < m
        BY <1>3, <2>5, <2>7, <3>2, <4>1
      <4>. QED  BY <2>8, <2>9, <4>1, <4>2 DEF ToSet
    <3>. QED  BY <3>1, <3>2
  <2>. QED  BY <1>1, <2>4, <2>8, <2>10, <2>11
<1>. QED  BY <1>4, <1>5

LEMMA LineOk ==
  ASSUME PlaceInv, BufferInv, NEW t \in Threads, pc[t] \in Holding \ {"format"}
  PROVE  content[buf[t]] = Line(t) /\ Line(t) \in LineNames /\ Line(t)[2] # 0
<1>1. at[t] \in Nat
  BY DEF PlaceInv
<1>2. Line(t) \in LineNames /\ Line(t)[2] # 0
  BY <1>1 DEF Line, LineNames
<1>. QED  BY <1>2 DEF BufferInv

\* With the logs' files as they were, they are as they should be.
LEMMA DisksStay ==
  ASSUME Disks, UNCHANGED <<file, disk, now>>
  PROVE  Disks' /\ \A k : Kept(k)' = Kept(k)
BY DEF Disks, DiskOk, Kept, OnDisk

LEMMA OutputKeeps ==
  ASSUME PlaceInv, MutexInv, PlaceInv', MutexInv', PrintInv, BufferInv, Filed,
         setup.toFiles, NEW t \in Threads, Output(t)
  PROVE  Filed'
<1> DEFINE line == Line(t)
<1>1. /\ pc[t] = "output" /\ mu = "free" /\ left' = ToCreate(t)
      /\ pc' = [pc EXCEPT ![t] = "create"] /\ out' = Append(out, content[buf[t]])
      /\ UNCHANGED <<script, at, file, disk, now>> /\ pc[t] \in Holding \ {"format"}
  BY DEF Output, Goto, Holding
<1>2. content[buf[t]] = line /\ line \in LineNames /\ out' = Append(out, line)
  BY <1>1, LineOk
<1>3. \A u \in Threads : pc[u] \notin Busy
  BY <1>1, Nobody DEF Locked, Busy
<1>4. pc'[t] = "create" /\ \A u \in Threads : pc'[u] \in Busy => u = t
  BY <1>1, <1>3 DEF PlaceInv
<1>5. \A i, j \in Severity : i < j /\ file[j].made => file[i].made
  BY <1>3 DEF Filed, Downward, Busy
<1>6. /\ left' \in Seq(Logs) /\ Distinct(left')
      /\ ToSet(left') = { k \in Wanted(t) : ~file[k].made }
  BY <1>1, <1>5, ToCreateIs
<1>7. Wanted(t)' = Wanted(t) /\ Line(t)' = line
  BY <1>1 DEF Wanted, Line, Call
<1>8. out' \in Seq(LineNames) /\ out' # << >> /\ out'[Len(out')] = line
  <2>1. out \in Seq(LineNames)
    BY DEF Filed, Visiting
  <2>. HIDE DEF line
  <2>. QED  BY <1>2, <2>1
<1>9. Visiting'
  BY <1>1, <1>4, <1>6, <1>7, <1>8 DEF Visiting, Busy
<1>10. Downward'
  BY <1>1, <1>5 DEF Downward
<1>11. \A k : Owes(k)' <=> k \in Wanted(t)
  BY <1>4, <1>7 DEF Owes, Busy
<1>12. \A k \in Logs : ~Owes(k) /\ Expected(k) = Lines(Kept(k))
  BY <1>3 DEF Filed, Exact, Owes, Busy
<1>13. Disks' /\ \A k : Kept(k)' = Kept(k)
  BY <1>1, DisksStay DEF Filed
<1>14. Exact'
  <2> SUFFICES ASSUME NEW k \in Logs
               PROVE  Expected(k)' = IF Owes(k)' THEN Append(Lines(Kept(k)'), out'[Len(out')]) ELSE Lines(Kept(k)')
    BY DEF Exact, Lines
  <2>1. Expected(k)' = IF GoesTo(line, k) THEN Append(Expected(k), line) ELSE Expected(k)
    BY <1>1, <1>2, ExpectedSnoc DEF Filed, Visiting
  <2>2. GoesTo(line, k) <=> k \in Wanted(t)
    BY <1>1, WantedIs
  <2>3. Lines(Kept(k)') = Lines(Kept(k))
    BY <1>13
  <2>. HIDE DEF line
  <2>. QED  BY <1>8, <1>11, <1>12, <2>1, <2>2, <2>3
<1>. QED  BY <1>9, <1>10, <1>13, <1>14 DEF Filed

\* A file is created; the lines of all logs stay.
LEMMA CreateFileKeeps ==
  ASSUME PlaceInv, MutexInv, PrintInv, Filed, ~setup.faults, NEW t \in Threads, CreateFile(t)
  PROVE  Filed'
<1> DEFINE h == Head(left)
<1>1. /\ pc[t] = "create" /\ left # << >> /\ disk' = WithFile(disk, h)
      /\ file' = [file EXCEPT ![h] = Opened(h)] /\ left' = Tail(left)
      /\ UNCHANGED <<script, pc, at, now, out>> /\ pc[t] \in Holding
  BY DEF CreateFile, frameVars, Holding
<1>2. /\ left \in Seq(Logs) /\ Distinct(left) /\ ToSet(left) \subseteq Wanted(t)
      /\ out \in Seq(LineNames) /\ out # << >> /\ out[Len(out)] = Line(t)
      /\ \A k \in Wanted(t) : file[k].made <=> k \notin ToSet(left)
  BY <1>1 DEF Filed, Visiting, Busy
<1>3. /\ h \in Logs /\ h \in ToSet(left) /\ left' \in Seq(Logs) /\ Distinct(left')
      /\ ToSet(left') = ToSet(left) \ {h}
  BY <1>1, <1>2, HeadAndTail
<1>. HIDE DEF h
<1>4. Disks' /\ \A j \in Logs : (file'[j].made <=> (j = h \/ file[j].made)) /\ Kept(j)' = Kept(j)
  BY <1>1, <1>2, <1>3, CreateKeeps DEF Filed
<1>5. \A u \in Threads : pc[u] \in Busy => u = t
  BY <1>1, Alone DEF Busy, Locked
<1>6. \A u : Wanted(u)' = Wanted(u) /\ Line(u)' = Line(u)
  BY <1>1 DEF Wanted, Line, Call
<1>7. /\ Wanted(t) \subseteq Logs
      /\ \A i, j \in Severity : i < j /\ j \in Wanted(t) => i \in Wanted(t)
  BY <1>1, WantedIs
<1>8. Visiting'
  <2>1. \A u \in Threads : pc'[u] \in Busy =>
          /\ Distinct(left') /\ ToSet(left') \subseteq Wanted(u)' /\ out' # << >> /\ out'[Len(out')] = Line(u)'
    BY <1>1, <1>2, <1>3, <1>5, <1>6
  <2>2. \A u \in Threads : pc'[u] = "create" => \A k \in Wanted(u)' : file'[k].made <=> k \notin ToSet(left')
    BY <1>1, <1>2, <1>3, <1>4, <1>5, <1>6, <1>7 DEF Busy
  <2>3. \A u \in Threads : pc'[u] # "write"
    BY <1>1, <1>5 DEF Busy
  <2>. QED  BY <1>1, <1>2, <1>3, <2>1, <2>2, <2>3 DEF Visiting
<1>9. Downward'
  <2> SUFFICES ASSUME NEW i \in Severity, NEW j \in Severity, i < j, file'[j].made
               PROVE  file'[i].made \/ i \in ToSet(left')
    BY <1>1 DEF Downward
  <2>0. i \in Logs /\ j \in Logs
    BY DEF Logs
  <2>1. CASE j = h
    <3>1. i \in Wanted(t)
      BY <1>2, <1>3, <1>7, <2>1
    <3>. QED  BY <1>2, <1>3, <1>4, <2>0, <3>1
  <2>2. CASE j # h
    <3>1. file[i].made \/ i \in ToSet(left)
      BY <1>4, <2>0, <2>2 DEF Filed, Downward
    <3>. QED  BY <1>3, <1>4, <2>0, <3>1
  <2>. QED  BY <2>1, <2>2
<1>10. \A k : Owes(k)' <=> Owes(k)
  <2>1. \A u \in Threads : pc[u] # "write"
    BY <1>1, <1>5 DEF Busy
  <2>. QED  BY <1>1, <1>6, <2>1 DEF Owes
<1>11. Exact'
  <2> SUFFICES ASSUME NEW k \in Logs
               PROVE  Expected(k)' = IF Owes(k)' THEN Append(Lines(Kept(k)'), out'[Len(out')]) ELSE Lines(Kept(k)')
    BY DEF Exact, Lines
  <2>1. Expected(k)' = Expected(k)
    BY <1>1 DEF Expected, GoesTo, CallOf
  <2>2. Lines(Kept(k)') = Lines(Kept(k))
    BY <1>4
  <2>3. Expected(k) = IF Owes(k) THEN Append(Lines(Kept(k)), out[Len(out)]) ELSE Lines(Kept(k))
    BY DEF Filed, Exact
  <2>. QED  BY <1>1, <1>10, <2>1, <2>2, <2>3
<1>. QED  BY <1>4, <1>8, <1>9, <1>11 DEF Filed

\* All files of the line are there: its goroutine begins to write.
LEMMA CreatedKeeps ==
  ASSUME PlaceInv, MutexInv, PrintInv, Filed, NEW t \in Threads, Created(t)
  PROVE  Filed'
<1>1. /\ pc[t] = "create" /\ left = << >> /\ left' = Targets(SevOf(Call(t)), Call(t).name)
      /\ pc' = [pc EXCEPT ![t] = "write"]
      /\ UNCHANGED <<script, at, file, disk, now, out>> /\ pc[t] \in Holding
  BY DEF Created, Goto, Holding
<1>2. /\ out \in Seq(LineNames) /\ out # << >> /\ out[Len(out)] = Line(t)
      /\ \A k \in Wanted(t) : file[k].made <=> k \notin ToSet(left)
  BY <1>1 DEF Filed, Visiting, Busy
<1>3. ToSet(left) = {}
  BY <1>1 DEF ToSet
<1>4. left' \in Seq(Logs) /\ Distinct(left') /\ ToSet(left') = Wanted(t)
  BY <1>1, WantedIs
<1>5. \A u \in Threads : pc[u] \in Busy => u = t
  BY <1>1, Alone DEF Busy, Locked
<1>6. pc'[t] = "write" /\ \A u \in Threads : pc'[u] \in Busy => u = t
  BY <1>1, <1>5 DEF PlaceInv
<1>7. \A u : Wanted(u)' = Wanted(u) /\ Line(u)' = Line(u)
  BY <1>1 DEF Wanted, Line, Call
<1>8. Visiting'
  BY <1>1, <1>2, <1>3, <1>4, <1>6, <1>7 DEF Visiting, Busy
<1>9. Downward'
  BY <1>1, <1>3 DEF Filed, Downward
<1>10. \A k : Owes(k)' <=> k \in Wanted(t)
  BY <1>4, <1>6 DEF Owes, Busy
<1>11. \A k : Owes(k) <=> k \in Wanted(t)
  BY <1>1, <1>5 DEF Owes, Busy
<1>12. Disks' /\ \A k : Kept(k)' = Kept(k)
  BY <1>1, DisksStay DEF Filed
<1>13. \A k : Expected(k)' = Expected(k)
  BY <1>1 DEF Expected, GoesTo, CallOf
<1>14. Exact'
  BY <1>1, <1>10, <1>11, <1>12, <1>13 DEF Filed, Exact, Lines
<1>. QED  BY <1>8, <1>9, <1>12, <1>14 DEF Filed

\* The line goes to one more log.
LEMMA LineWritten ==
  ASSUME PlaceInv, MutexInv, PrintInv, BufferInv, Filed, ~setup.faults, NEW t \in Threads, Write(t)
  PROVE  Filed'
<1> DEFINE h == Head(left)
           line == Line(t)
<1>1. /\ pc[t] = "write" /\ left # << >> /\ WriteTo(h, content[buf[t]]) /\ left' = Tail(left)
      /\ UNCHANGED <<script, pc, at, now, out>> /\ pc[t] \in Holding \ {"format"}
  BY DEF Write, frameVars, Holding
<1>2. /\ left \in Seq(Logs) /\ Distinct(left) /\ ToSet(left) \subseteq Wanted(t)
      /\ out \in Seq(LineNames) /\ out # << >> /\ out[Len(out)] = line
      /\ \A k \in Wanted(t) : file[k].made
  BY <1>1 DEF Filed, Visiting, Busy
<1>3. /\ h \in Logs /\ h \in ToSet(left) /\ left' \in Seq(Logs) /\ Distinct(left')
      /\ ToSet(left') = ToSet(left) \ {h}
  BY <1>1, <1>2, HeadAndTail
<1>4. content[buf[t]] = line /\ line \in LineNames /\ line[2] # 0
  BY <1>1, LineOk
<1>. HIDE DEF h, line
<1>5. /\ Disks'
      /\ \A j \in Logs : /\ file'[j].made = file[j].made
                         /\ Kept(j)' = IF j = h /\ file[h].made THEN Append(Kept(j), line) ELSE Kept(j)
  BY <1>1, <1>3, <1>4, WriteKeeps DEF Filed
<1>6. file[h].made
  BY <1>2, <1>3
<1>7. \A u \in Threads : pc[u] \in Busy => u = t
  BY <1>1, Alone DEF Busy, Locked
<1>8. \A u : Wanted(u)' = Wanted(u) /\ Line(u)' = Line(u)
  BY <1>1 DEF Wanted, Line, Call
<1>9. Wanted(t) \subseteq Logs
  BY <1>1, WantedIs
<1>10. Visiting'
  <2>1. \A u \in Threads : pc'[u] \in Busy =>
          /\ Distinct(left') /\ ToSet(left') \subseteq Wanted(u)' /\ out' # << >> /\ out'[Len(out')] = Line(u)'
    BY <1>1, <1>2, <1>3, <1>7, <1>8 DEF line
  <2>2. \A u \in Threads : pc'[u] = "write" => \A k \in Wanted(u)' : file'[k].made
    BY <1>1, <1>2, <1>5, <1>7, <1>8, <1>9 DEF Busy
  <2>3. \A u \in Threads : pc'[u] # "create"
    BY <1>1, <1>7 DEF Busy
  <2>. QED  BY <1>1, <1>2, <1>3, <2>1, <2>2, <2>3 DEF Visiting
<1>11. \A u \in Threads : pc[u] # "create"
  BY <1>1, <1>7 DEF Busy
<1>12. Downward'
  BY <1>1, <1>5, <1>11 DEF Filed, Downward, Logs
<1>13. \A k : (Owes(k) <=> k \in ToSet(left)) /\ (Owes(k)' <=> k \in ToSet(left) \ {h})
  BY <1>1, <1>3, <1>7, <1>11 DEF Owes, Busy
<1>14. Exact'
  <2> SUFFICES ASSUME NEW k \in Logs
               PROVE  Expected(k)' = IF Owes(k)' THEN Append(Lines(Kept(k)'), out'[Len(out')]) ELSE Lines(Kept(k)')
    BY DEF Exact, Lines
  <2>1. Expected(k)' = Expected(k)
    BY <1>1 DEF Expected, GoesTo, CallOf
  <2>2. Expected(k) = IF Owes(k) THEN Append(Lines(Kept(k)), line) ELSE Lines(Kept(k))
    BY <1>2 DEF Filed, Exact
  <2>3. CASE k = h
    <3>1. Kept(k)' = Append(Kept(k), line)
      BY <1>5, <1>6, <2>3
    <3>2. Lines(Append(Kept(k), line)) = Append(Lines(Kept(k)), line)
      BY <1>4, LinesSnoc, OnDiskTyped DEF Filed
    <3>3. Lines(Kept(k)') = Append(Lines(Kept(k)), line)
      BY <3>1, <3>2
    <3>. QED  BY <1>3, <1>13, <2>1, <2>2, <2>3, <3>3
  <2>4. CASE k # h
    <3>1. Lines(Kept(k)') = Lines(Kept(k))
      BY <1>5, <2>4
    <3>. QED  BY <1>1, <1>2, <1>13, <2>1, <2>2, <2>4, <3>1
  <2>. QED  BY <2>3, <2>4
<1>. QED  BY <1>5, <1>10, <1>12, <1>14 DEF Filed

\* The line is in all of its logs.
LEMMA WrittenKeeps ==
  ASSUME PlaceInv, MutexInv, Filed, NEW t \in Threads, Written(t)
  PROVE  Filed'
<1>1. /\ pc[t] = "write" /\ left = << >> /\ pc' = [pc EXCEPT ![t] = "written"]
      /\ UNCHANGED <<script, at, file, disk, now, out, left>>
  BY DEF Written, Goto, fileVars
<1>2. \A u \in Threads : pc[u] \in Busy => u = t
  BY <1>1, Alone DEF Busy, Locked
<1>3. \A u \in Threads : pc[u] # "create" /\ pc'[u] \notin Busy
  BY <1>1, <1>2 DEF PlaceInv, Busy
<1>4. ToSet(left) = {}
  BY <1>1 DEF ToSet
<1>5. Visiting' /\ Downward'
  BY <1>1, <1>3 DEF Filed, Visiting, Downward, Busy
<1>6. \A k : ~Owes(k) /\ ~Owes(k)'
  BY <1>1, <1>2, <1>3, <1>4 DEF Owes, Busy
<1>7. Disks' /\ \A k : Kept(k)' = Kept(k)
  BY <1>1, DisksStay DEF Filed
<1>8. \A k : Expected(k)' = Expected(k)
  BY <1>1 DEF Expected, GoesTo, CallOf
<1>9. Exact'
  BY <1>6, <1>7, <1>8 DEF Filed, Exact, Lines
<1>. QED  BY <1>5, <1>7, <1>9 DEF Filed

\* Who is in output has a line.
LEMMA BusyWants ==
  ASSUME PlaceInv, PrintInv
  PROVE  \A t \in Threads : pc[t] \in Busy => Wanted(t) \subseteq Logs
<1> SUFFICES ASSUME NEW t \in Threads, pc[t] \in Busy PROVE Wanted(t) \subseteq Logs
  OBVIOUS
<1>1. pc[t] \in Holding
  BY DEF Busy, Holding
<1>. QED  BY <1>1, WantedIs

\* The stacks of all goroutines are no line.
LEMMA DumpKeeps ==
  ASSUME PlaceInv, MutexInv, PrintInv, Filed, ~setup.faults, NEW t \in Threads, Dump(t)
  PROVE  Filed'
<1> DEFINE h == Head(left)
           line == Stacks(t)
<1>1. /\ pc[t] = "dump" /\ left # << >> /\ WriteTo(h, line) /\ left' = Tail(left)
      /\ UNCHANGED <<script, pc, at, now, out>>
  BY DEF Dump, frameVars
<1>2. left \in Seq(Logs)
  BY DEF Filed, Visiting
<1>3. h \in Logs /\ left' \in Seq(Logs)
  BY <1>1, <1>2
<1>4. line \in LineNames /\ line[2] = 0
  BY DEF Stacks, LineNames
<1>. HIDE DEF h, line
<1>5. /\ Disks'
      /\ \A j \in Logs : /\ file'[j].made = file[j].made
                         /\ Kept(j)' = IF j = h /\ file[h].made THEN Append(Kept(j), line) ELSE Kept(j)
  BY <1>1, <1>3, <1>4, WriteKeeps DEF Filed
<1>6. \A j \in Logs : Lines(Kept(j)') = Lines(Kept(j))
  <2> SUFFICES ASSUME NEW j \in Logs PROVE Lines(Kept(j)') = Lines(Kept(j))
    OBVIOUS
  <2>1. Lines(Append(Kept(j), line)) = Lines(Kept(j))
    BY <1>4, LinesSnoc, OnDiskTyped DEF Filed
  <2>2. Kept(j)' = Append(Kept(j), line) \/ Kept(j)' = Kept(j)
    BY <1>5
  <2>. QED  BY <2>1, <2>2
<1>7. \A u \in Threads : pc[u] \notin Busy
  BY <1>1, Alone DEF Busy, Locked
<1>. QED  BY <1>1, <1>3, <1>5, <1>6, <1>7, FiledStays

\* A flush takes nothing from a log and adds nothing to it.
LEMMA FlushStays ==
  ASSUME PlaceInv, PrintInv, Filed, ~setup.faults, FlushAll(disk, file), UNCHANGED <<script, now, left, out>>,
         \A t \in Threads : pc[t] \in Busy \/ pc'[t] \in Busy => Stays(t)
  PROVE  Filed'
<1>1. Disks' /\ \A k \in Logs : file'[k].made = file[k].made /\ Kept(k)' = Kept(k)
  BY FlushKeeps DEF Filed
<1>2. left' \in Seq(Logs)
  BY DEF Filed, Visiting
<1>3. \A k \in Logs : (file'[k].made <=> file[k].made) /\ Lines(Kept(k)') = Lines(Kept(k))
  BY <1>1
<1>. QED  BY <1>1, <1>2, <1>3, BusyWants, FiledStays

\* Nor does a step that leaves the files alone.
LEMMA FilesStay ==
  ASSUME PlaceInv, PrintInv, Filed, UNCHANGED <<script, now, file, disk, out>>, left' \in Seq(Logs),
         \A t \in Threads : pc[t] \in Busy \/ pc'[t] \in Busy => Stays(t) /\ left' = left
  PROVE  Filed'
<1>1. Disks' /\ \A k : Kept(k)' = Kept(k)
  BY DisksStay DEF Filed
<1>2. \A k \in Logs : (file'[k].made <=> file[k].made) /\ Lines(Kept(k)') = Lines(Kept(k))
  BY <1>1
<1>. QED  BY <1>1, <1>2, BusyWants, FiledStays

LEMMA TickKeeps ==
  ASSUME PlaceInv, PrintInv, Filed, Tick
  PROVE  Filed'
<1>1. now \in 0..MaxTime /\ now' = now + 1 /\ now' \in 0..MaxTime
  BY TimeAssumption DEF Tick, Filed, Disks
<1>2. UNCHANGED <<script, pc, at, left, file, disk, out>>
  BY DEF Tick, frameVars
<1>3. \A s \in 0..now : s \in 0..now'
  BY <1>1
<1>4. Disks'
  BY <1>1, <1>2, <1>3 DEF Filed, Disks, DiskOk
<1>5. \A k : Kept(k)' = Kept(k)
  BY <1>2 DEF Kept, OnDisk
<1>6. \A k \in Logs : (file'[k].made <=> file[k].made) /\ Lines(Kept(k)') = Lines(Kept(k))
  BY <1>2, <1>5
<1>7. left' \in Seq(Logs) /\ \A t \in Threads : Stays(t) /\ left' = left
  BY <1>2 DEF Filed, Visiting, Stays
<1>. QED  BY <1>2, <1>4, <1>6, <1>7, BusyWants, FiledStays

-----------------------------------------------------------------------------
(* All steps. *)

\* A step of a goroutine that is in V or sets a flag.
LEMMA LevelLabels ==
  ASSUME PlaceInv, NEW t \in Threads, LevelNext(t)
  PROVE  \E l \in Changing \cup InV \cup {"ready", "decided"} :
           /\ Goto(t, l) /\ UNCHANGED script /\ pc[t] \in Changing \cup InV \cup {"ready"}
           /\ at' = at \/ (at' = [at EXCEPT ![t] = @ + 1] /\ l = "ready")
           /\ l \in Printing => \/ pc[t] \in Printing
                                \/ at[t] + 1 \in 1..Len(script[t]) /\ Call(t).op \in {"V", "print", "exit"}
<1> USE DEF Goto, Changing, InV, Printing, Holding
<1>1. CASE LevelSet(t)
  BY <1>1 DEF LevelSet, Calls
<1>2. CASE ModuleSet(t)
  BY <1>2 DEF ModuleSet, Calls
<1>3. CASE VerbosityOff(t)
  <2>1. Goto(t, "length off") /\ UNCHANGED <<script, at>> /\ pc[t] \in Changing
    BY <1>3 DEF VerbosityOff
  <2>2. "length off" \in Changing /\ "length off" \notin Printing
    OBVIOUS
  <2>. HIDE DEF Goto, Changing, InV, Printing, Holding
  <2>. QED  BY <2>1, <2>2
<1>4. CASE FilterOff(t)
  <2>1. Goto(t, "filter") /\ UNCHANGED <<script, at>> /\ pc[t] \in Changing
    BY <1>4 DEF FilterOff
  <2>2. "filter" \in Changing /\ "filter" \notin Printing
    OBVIOUS
  <2>. HIDE DEF Goto, Changing, InV, Printing, Holding
  <2>. QED  BY <2>1, <2>2
<1>5. CASE SetFilter(t)
  BY <1>5 DEF SetFilter
<1>6. CASE VerbosityOn(t)
  BY <1>6 DEF VerbosityOn, Finish
<1>7. CASE SetVerbosity(t)
  BY <1>7 DEF SetVerbosity, Finish, Calls
<1>8. CASE VFast(t)
  <2>1. at[t] + 1 \in 1..Len(script[t]) /\ pc[t] = "ready" /\ Call(t).op \in {"V"}
    BY <1>8, CallsOk DEF VFast
  <2>. QED  BY <1>8, <2>1 DEF VFast, Decide
<1>9. CASE VLength(t)
  BY <1>9 DEF VLength, Decide
<1>10. CASE VSlow(t)
  BY <1>10 DEF VSlow, Decide
<1>. QED  BY <1>1, <1>2, <1>3, <1>4, <1>5, <1>6, <1>7, <1>8, <1>9, <1>10 DEF LevelNext

\* PrintInv and BufferInv after a step that gets no buffer and formats nothing.
Undisturbed == UNCHANGED <<buf, content, freeList>>

LEMMA MoveBuffers ==
  ASSUME PlaceInv, PrintInv, BufferInv, NEW t \in Threads, NEW l, Goto(t, l), UNCHANGED script, Undisturbed,
         at' = at \/ (at' = [at EXCEPT ![t] = @ + 1] /\ l \notin Printing),
         l \in Printing => \/ pc[t] \in Printing
                           \/ at[t] + 1 \in 1..Len(script[t]) /\ Call(t).op \in {"V", "print", "exit"},
         l \in Holding => pc[t] \in Holding \ {"format"}
  PROVE  PrintInv' /\ BufferInv'
<1>1. PrintInv'
  BY PrintMove
<1>2. \A u \in Threads : pc'[u] \in Holding =>
        /\ pc[u] \in Holding /\ at'[u] = at[u]
        /\ pc'[u] # "format" => pc[u] # "format"
  BY DEF Goto, PlaceInv, Printing
<1>3. BufferInv'
  BY <1>2, BuffersStay DEF Undisturbed
<1>. QED  BY <1>1, <1>3

LEMMA RestBuffers ==
  ASSUME PrintInv, BufferInv, UNCHANGED <<script, pc, at>>, Undisturbed
  PROVE  PrintInv' /\ BufferInv'
<1>1. BufferInv'
  BY BuffersStay DEF Undisturbed
<1>. QED  BY <1>1, PrintStay

\* getBuffer, of a goroutine whose call prints.
LEMMA GetBufferKeeps ==
  ASSUME PlaceInv, PrintInv, BufferInv, NEW t \in Threads, GetBuffer(t), UNCHANGED <<script, at>>,
         pc[t] \in {"ready", "decided"},
         pc[t] = "ready" => at[t] + 1 \in 1..Len(script[t]) /\ Call(t).op \in {"V", "print", "exit"}
  PROVE  PrintInv' /\ BufferInv'
<1>1. pc[t] \notin Holding /\ Goto(t, "format")
  BY DEF Holding, GetBuffer
<1>2. BufferInv'
  BY <1>1, BufferTaken
<1>3. PrintInv'
  BY <1>1, PrintMove DEF Printing
<1>. QED  BY <1>2, <1>3

LEMMA StepBuffers ==
  ASSUME PlaceInv, PrintInv, BufferInv, NEW t \in Threads, Step(t)
  PROVE  PrintInv' /\ BufferInv'
<1>1. CASE LevelNext(t) /\ UNCHANGED fileVars
  <2>1. PICK l \in Changing \cup InV \cup {"ready", "decided"} :
           /\ Goto(t, l) /\ UNCHANGED script /\ pc[t] \in Changing \cup InV \cup {"ready"}
           /\ at' = at \/ (at' = [at EXCEPT ![t] = @ + 1] /\ l = "ready")
           /\ l \in Printing => \/ pc[t] \in Printing
                                \/ at[t] + 1 \in 1..Len(script[t]) /\ Call(t).op \in {"V", "print", "exit"}
    BY <1>1, LevelLabels
  <2>2. l \notin Holding /\ "ready" \notin Printing
    BY DEF Changing, InV, Holding, Printing
  <2>3. Undisturbed
    BY <1>1 DEF fileVars, Undisturbed
  <2>. QED  BY <2>1, <2>2, <2>3, MoveBuffers
<1>2. CASE PrintLine(t) \/ NamedLine(t)
  <2>1. Calls(t, {"print"}) /\ GetBuffer(t) /\ UNCHANGED <<script, at>>
    BY <1>2 DEF PrintLine, NamedLine
  <2>2. at[t] + 1 \in 1..Len(script[t]) /\ pc[t] = "ready" /\ Call(t).op \in {"print"}
    BY <2>1, CallsOk
  <2>. QED  BY <2>1, <2>2, GetBufferKeeps
<1>3. CASE ExitLine(t)
  <2>1. Calls(t, {"exit"}) /\ GetBuffer(t) /\ UNCHANGED <<script, at>>
    BY <1>3 DEF ExitLine
  <2>2. at[t] + 1 \in 1..Len(script[t]) /\ pc[t] = "ready" /\ Call(t).op \in {"exit"}
    BY <2>1, CallsOk
  <2>. QED  BY <2>1, <2>2, GetBufferKeeps
<1>4. CASE Guarded(t)
  <2>1. CASE verdict[t]
    BY <1>4, <2>1, GetBufferKeeps DEF Guarded
  <2>2. CASE ~verdict[t]
    <3>1. /\ Goto(t, "ready") /\ UNCHANGED script /\ Undisturbed
          /\ at' = [at EXCEPT ![t] = @ + 1]
      BY <1>4, <2>2 DEF Guarded, Finish, fileVars, Undisturbed
    <3>2. "ready" \notin Printing /\ "ready" \notin Holding
      BY DEF Printing, Holding, InV
    <3>. QED  BY <3>1, <3>2, MoveBuffers
  <2>. QED  BY <2>1, <2>2
<1>5. CASE Format(t)
  <2>1. Goto(t, "output") /\ UNCHANGED <<script, at>> /\ pc[t] \in Printing
    BY <1>5 DEF Format, Printing, Holding
  <2>2. PrintInv'
    BY <2>1, PrintMove
  <2>. QED  BY <1>5, <2>2, BufferFormatted
<1>6. CASE Leave(t)
  <2>1. Goto(t, "ready") /\ at' = [at EXCEPT ![t] = @ + 1] /\ UNCHANGED script /\ "ready" \notin Printing
    BY <1>6 DEF Leave, Finish, Printing, Holding, InV
  <2>2. PrintInv'
    BY <2>1, PrintMove
  <2>. QED  BY <1>6, <2>2, BufferPut
<1>7. CASE CreateFile(t) \/ Write(t) \/ Dump(t) \/ ExitFlushed(t) \/ ExitTimeout(t)
  BY <1>7, RestBuffers DEF CreateFile, Write, Dump, ExitFlushed, ExitTimeout, frameVars, Undisturbed
<1>8. ASSUME NEW l \in Holding, Goto(t, l), UNCHANGED <<script, at>>, Undisturbed, pc[t] \in Holding \ {"format"}
      PROVE  PrintInv' /\ BufferInv'
  <2>1. pc[t] \in Printing
    BY <1>8 DEF Printing
  <2>. QED  BY <1>8, <2>1, MoveBuffers
<1>9. CASE Output(t)
  BY <1>8, <1>9 DEF Output, Holding, Undisturbed
<1>10. CASE Created(t) \/ Written(t)
  BY <1>8, <1>10 DEF Created, Written, fileVars, Holding, Undisturbed
<1>11. CASE FatalLine(t)
  BY <1>8, <1>11 DEF FatalLine, Holding, Undisturbed
<1>12. CASE FatalUnlock(t)
  <2>1. PICK l \in {"exit 1", "exit 255"} : Goto(t, l)
    BY <1>12 DEF FatalUnlock
  <2>2. l \in Holding /\ UNCHANGED <<script, at>> /\ Undisturbed /\ pc[t] \in Holding \ {"format"}
    BY <1>12 DEF FatalUnlock, Holding, Undisturbed
  <2>. QED  BY <1>8, <2>1, <2>2
<1>13. CASE FlushLock(t)
  <2>1. Goto(t, "flush") /\ UNCHANGED <<script, at>> /\ Undisturbed
    BY <1>13 DEF FlushLock, fileVars, Undisturbed
  <2>2. "flush" \notin Printing /\ "flush" \notin Holding
    BY DEF Printing, Holding, InV
  <2>. QED  BY <2>1, <2>2, MoveBuffers
<1>14. CASE Flush(t)
  <2>1. Goto(t, "ready") /\ at' = [at EXCEPT ![t] = @ + 1] /\ UNCHANGED script /\ Undisturbed
    BY <1>14 DEF Flush, Finish, Undisturbed
  <2>2. "ready" \notin Printing /\ "ready" \notin Holding
    BY DEF Printing, Holding, InV
  <2>. QED  BY <2>1, <2>2, MoveBuffers
<1>. QED  BY <1>1, <1>2, <1>3, <1>4, <1>5, <1>6, <1>7, <1>9, <1>10, <1>11, <1>12, <1>13, <1>14 DEF Step

LEMMA NextBuffers ==
  ASSUME PlaceInv, PrintInv, BufferInv, [Next]_vars
  PROVE  PrintInv' /\ BufferInv'
<1>1. CASE UNCHANGED vars
  BY <1>1, RestBuffers DEF vars, frameVars, fileVars, Undisturbed
<1>2. CASE (\E t \in Threads : FlusherLock(t) \/ FlusherFlush(t)) \/ DaemonLock \/ DaemonFlush \/ Tick
  <2>1. UNCHANGED <<script, pc, at>> /\ Undisturbed
    BY <1>2 DEF FlusherLock, FlusherFlush, DaemonLock, DaemonFlush, Tick, frameVars, fileVars, Undisturbed
  <2>. QED  BY <2>1, RestBuffers
<1>. QED  BY <1>1, <1>2, StepBuffers DEF Next

-----------------------------------------------------------------------------
(* The logs keep their lines. *)

\* A process that writes to files, on a disk that does not fail.
Sound == setup.toFiles /\ ~setup.faults

KeptInv ==
  /\ PlaceInv /\ MutexInv
  /\ PrintInv /\ BufferInv
  /\ Sound => Filed

LEMMA SetupStays ==
  ASSUME [Next]_vars
  PROVE  setup' = setup
<1> USE DEF fileVars, GetBuffer
<1>1. ASSUME NEW t \in Threads, Step(t) PROVE setup' = setup
  <2>1. CASE PrintLine(t) \/ NamedLine(t) \/ ExitLine(t) \/ Guarded(t) \/ Format(t) \/ Output(t)
    BY <2>1 DEF PrintLine, NamedLine, ExitLine, Guarded, Format, Output
  <2>2. CASE CreateFile(t) \/ Created(t) \/ Write(t) \/ Written(t) \/ Leave(t)
    BY <2>2 DEF CreateFile, Created, Write, Written, Leave
  <2>3. CASE \/ FatalLine(t) \/ Dump(t) \/ FatalUnlock(t) \/ ExitFlushed(t) \/ ExitTimeout(t)
             \/ FlushLock(t) \/ Flush(t)
    BY <2>3 DEF FatalLine, Dump, FatalUnlock, ExitFlushed, ExitTimeout, FlushLock, Flush
  <2>. QED  BY <1>1, <2>1, <2>2, <2>3 DEF Step
<1>. QED  BY <1>1 DEF Next, vars, FlusherLock, FlusherFlush, DaemonLock, DaemonFlush, Tick

LEMMA MoveStays ==
  ASSUME PlaceInv, NEW t \in Threads, NEW l, l \notin Busy, pc[t] \notin Busy, Goto(t, l),
         at' = at \/ at' = [at EXCEPT ![t] = @ + 1]
  PROVE  \A u \in Threads : pc[u] \in Busy \/ pc'[u] \in Busy => Stays(u)
BY DEF PlaceInv, Goto, Stays

LEMMA StepFiled ==
  ASSUME PlaceInv, MutexInv, PlaceInv', MutexInv', PrintInv, BufferInv, Sound, Filed,
         NEW t \in Threads, Step(t)
  PROVE  Filed'
<1>0. left \in Seq(Logs)
  BY DEF Filed, Visiting
<1>1. ASSUME NEW l, l \notin Busy, pc[t] \notin Busy, Goto(t, l),
             at' = at \/ at' = [at EXCEPT ![t] = @ + 1],
             UNCHANGED <<script, now, file, disk, out, left>>
      PROVE  Filed'
  <2>1. \A u \in Threads : pc[u] \in Busy \/ pc'[u] \in Busy => Stays(u)
    BY <1>1, MoveStays
  <2>. QED  BY <1>0, <1>1, <2>1, FilesStay
<1>2. CASE LevelNext(t) /\ UNCHANGED fileVars
  <2>1. PICK l \in Changing \cup InV \cup {"ready", "decided"} :
           /\ Goto(t, l) /\ UNCHANGED script /\ pc[t] \in Changing \cup InV \cup {"ready"}
           /\ at' = at \/ (at' = [at EXCEPT ![t] = @ + 1] /\ l = "ready")
    BY <1>2, LevelLabels
  <2>2. l \notin Busy /\ pc[t] \notin Busy
    BY <2>1 DEF Changing, InV, Busy
  <2>. QED  BY <1>1, <1>2, <2>1, <2>2 DEF fileVars
<1>3. CASE PrintLine(t) \/ NamedLine(t) \/ ExitLine(t)
  BY <1>1, <1>3 DEF PrintLine, NamedLine, ExitLine, Calls, GetBuffer, Busy
<1>4. CASE Guarded(t)
  BY <1>1, <1>4 DEF Guarded, GetBuffer, Finish, Busy, fileVars
<1>5. CASE Format(t)
  BY <1>1, <1>5 DEF Format, Busy
<1>6. CASE Output(t)
  BY <1>6, OutputKeeps DEF Sound
<1>7. CASE CreateFile(t)
  BY <1>7, CreateFileKeeps DEF Sound
<1>8. CASE Created(t)
  BY <1>8, CreatedKeeps
<1>9. CASE Write(t)
  BY <1>9, LineWritten DEF Sound
<1>10. CASE Written(t)
  BY <1>10, WrittenKeeps
<1>11. CASE Leave(t)
  BY <1>1, <1>11 DEF Leave, Finish, Busy
<1>12. CASE FatalLine(t)
  <2>1. pc[t] = "written" /\ UNCHANGED <<script, at, now, file, disk, out>>
    BY <1>12 DEF FatalLine
  <2>2. PICK l \in {"unlock", "dump"} : Goto(t, l)
    BY <1>12 DEF FatalLine
  <2>3. \A u \in Threads : pc[u] \notin Busy
    BY <2>1, Alone DEF Locked, Busy
  <2>4. \A u \in Threads : pc'[u] \notin Busy
    BY <2>2, <2>3 DEF Goto, PlaceInv, Busy
  <2>5. left' \in Seq(Logs)
    <3>0. pc[t] \in Holding /\ Fatal \in Severity
      BY <2>1 DEF Holding, Fatal, Severity
    <3>1. Call(t).name \in Names \cup {NoName}
      BY <3>0, WantedIs
    <3>2. Targets(Fatal, Call(t).name) \in Seq(Logs)
      BY <3>0, <3>1, TargetsOk
    <3>. QED  BY <1>0, <1>12, <3>2 DEF FatalLine
  <2>. QED  BY <2>1, <2>3, <2>4, <2>5, FilesStay
<1>13. CASE Dump(t)
  BY <1>13, DumpKeeps DEF Sound
<1>14. CASE FatalUnlock(t)
  <2>1. PICK l \in {"exit 1", "exit 255"} : Goto(t, l)
    BY <1>14 DEF FatalUnlock
  <2>2. l \notin Busy /\ pc[t] \notin Busy /\ at' = at /\ UNCHANGED <<script, now, file, disk, out, left>>
    BY <1>14 DEF FatalUnlock, Busy
  <2>. QED  BY <1>1, <2>1, <2>2
<1>15. CASE ExitFlushed(t) \/ ExitTimeout(t)
  <2>1. UNCHANGED <<script, pc, at, now, file, disk, out, left>>
    BY <1>15 DEF ExitFlushed, ExitTimeout, frameVars
  <2>2. \A u \in Threads : Stays(u)
    BY <2>1 DEF Stays
  <2>. QED  BY <1>0, <2>1, <2>2, FilesStay
<1>16. CASE FlushLock(t)
  BY <1>1, <1>16 DEF FlushLock, Calls, Busy, fileVars
<1>17. CASE Flush(t)
  <2>1. /\ pc[t] = "flush" /\ Goto(t, "ready") /\ at' = [at EXCEPT ![t] = @ + 1]
        /\ FlushAll(disk, file) /\ UNCHANGED <<script, now, left, out>>
    BY <1>17 DEF Flush, Finish
  <2>2. "ready" \notin Busy /\ pc[t] \notin Busy
    BY <2>1 DEF Busy
  <2>3. \A u \in Threads : pc[u] \in Busy \/ pc'[u] \in Busy => Stays(u)
    BY <2>1, <2>2, MoveStays
  <2>. QED  BY <2>1, <2>3, FlushStays DEF Sound
<1>. QED  BY <1>2, <1>3, <1>4, <1>5, <1>6, <1>7, <1>8, <1>9, <1>10, <1>11, <1>12, <1>13, <1>14, <1>15,
             <1>16, <1>17 DEF Step

LEMMA NextFiled ==
  ASSUME PlaceInv, MutexInv, PlaceInv', MutexInv', PrintInv, BufferInv, Sound, Filed, [Next]_vars
  PROVE  Filed'
<1>0. left \in Seq(Logs)
  BY DEF Filed, Visiting
<1>1. ASSUME UNCHANGED <<script, pc, at, now, file, disk, out, left>> PROVE Filed'
  <2>1. \A u \in Threads : Stays(u)
    BY <1>1 DEF Stays
  <2>. QED  BY <1>0, <1>1, <2>1, FilesStay
<1>2. CASE UNCHANGED vars
  BY <1>1, <1>2 DEF vars, frameVars, fileVars
<1>3. CASE (\E t \in Threads : FlusherLock(t)) \/ DaemonLock
  BY <1>1, <1>3 DEF FlusherLock, DaemonLock, fileVars
<1>4. CASE (\E t \in Threads : FlusherFlush(t)) \/ DaemonFlush
  <2>1. FlushAll(disk, file) /\ UNCHANGED <<script, pc, at, now, left, out>>
    BY <1>4 DEF FlusherFlush, DaemonFlush
  <2>2. \A u \in Threads : Stays(u)
    BY <2>1 DEF Stays
  <2>. QED  BY <2>1, <2>2, FlushStays DEF Sound
<1>5. CASE Tick
  BY <1>5, TickKeeps
<1>. QED  BY <1>2, <1>3, <1>4, <1>5, StepFiled DEF Next

\* No sequence but the empty one has no elements.
LEMMA NoParts ==
  ASSUME NEW n \in Nat, NEW seqs, seqs = [i \in 1..n |-> << >>]
  PROVE  FlattenSeq(seqs) = << >>
<1>1. << >> \in Seq({})
  OBVIOUS
<1>2. seqs \in [1..n -> Seq({})]
  BY <1>1
<1>3. FlattenSeq(seqs) \in Seq({})
  BY <1>2, FlattenType
<1>. QED  BY <1>3

LEMMA InitKept == Init => KeptInv
<1> SUFFICES ASSUME Init PROVE KeptInv
  OBVIOUS
<1>1. PlaceInv /\ MutexInv
  BY DEF Init, LevelInit, PlaceInv, MutexInv, Labels, Locked, Changing
<1>2. pc = [t \in Threads |-> "ready"]
  BY DEF Init, LevelInit
<1>3. PrintInv
  BY <1>2 DEF PrintInv, Printing, Holding, InV
<1>4. BufferInv
  <2>1. \A t \in Threads : pc[t] \notin Holding
    BY <1>2 DEF Holding
  <2>2. buf = [t \in Threads |-> 0] /\ content = << >> /\ freeList = << >>
    BY DEF Init
  <2>3. /\ buf \in [Threads -> Nat] /\ content \in Seq({<< >>} \cup LineNames)
        /\ freeList \in Seq(1..Len(content)) /\ Len(freeList) = 0
    BY <2>2
  <2>. QED  BY <2>1, <2>3 DEF BufferInv
<1>5. /\ now = 0 /\ left = << >> /\ file = [k \in Logs |-> Unopened] /\ disk = << >> /\ out = << >>
  BY DEF Init
<1>6. DOMAIN disk = {} /\ DOMAIN out = {}
  BY <1>5
<1>7. Disks
  <2>1. /\ Unopened \in FileType /\ Unopened.made = FALSE /\ Unopened.open = FALSE
        /\ Unopened.pending = << >>
    <3>1. << >> \in Seq(LineNames)
      OBVIOUS
    <3>. QED  BY <3>1 DEF Unopened, FileType
  <2>2. now \in 0..MaxTime /\ file \in [Logs -> FileType]
    BY <1>5, <2>1, TimeAssumption
  <2>3. \A k \in Logs : DiskOk(k)
    BY <1>5, <1>6, <2>1 DEF DiskOk
  <2>. QED  BY <1>6, <2>2, <2>3 DEF Disks
<1>8. \A t \in Threads : pc[t] \notin Busy /\ pc[t] # "create" /\ pc[t] # "write"
  BY <1>2 DEF Busy
<1>9. Visiting
  BY <1>5, <1>8 DEF Visiting
<1>10. Downward
  BY <1>5 DEF Downward, Unopened, Logs
<1>11. ASSUME NEW k \in Logs PROVE Expected(k) = << >> /\ Lines(Kept(k)) = << >>
  <2> DEFINE none == [i \in 1..0 |-> << >>]
  <2>1. FlattenSeq(none) = << >>
    BY NoParts
  <2>2. Expected(k) = << >>
    <3>1. [i \in DOMAIN out |-> IF GoesTo(out[i], k) THEN << out[i] >> ELSE << >>] = none
      BY <1>6
    <3>. QED  BY <2>1, <3>1 DEF Expected
  <2>3. OnDisk(k) = << >>
    <3>1. Parts(disk, k) = [i \in 1..(MaxTime + 1) |-> << >>]
      BY <1>6 DEF Parts, PartOf
    <3>2. MaxTime + 1 \in Nat
      BY TimeAssumption
    <3>. QED  BY <3>1, <3>2, NoParts, OnDiskIs
  <2>4. Kept(k) = << >>
    BY <1>5, <2>3 DEF Kept, Unopened
  <2>5. Lines(<< >>) = << >>
    <3> DEFINE s == << >>
    <3>1. DOMAIN s = {}
      OBVIOUS
    <3>. HIDE DEF s
    <3>2. [i \in DOMAIN s |-> IF s[i][2] # 0 THEN << s[i] >> ELSE << >>] = none
      BY <3>1
    <3>3. Lines(s) = << >>
      BY <2>1, <3>2 DEF Lines
    <3>. QED  BY <3>3 DEF s
  <2>. QED  BY <2>2, <2>4, <2>5
<1>12. Exact
  <2>1. \A k : ~Owes(k)
    BY <1>8 DEF Owes
  <2>. QED  BY <1>11, <2>1 DEF Exact
<1>. QED  BY <1>1, <1>3, <1>4, <1>7, <1>9, <1>10, <1>12 DEF KeptInv, Filed

LEMMA NextKept ==
  ASSUME KeptInv, [Next]_vars
  PROVE  KeptInv'
<1>1. PlaceInv' /\ MutexInv'
  BY NextPlaces DEF KeptInv
<1>2. PrintInv' /\ BufferInv'
  BY NextBuffers DEF KeptInv
<1>3. Sound' => Filed'
  <2>1. Sound' => Sound
    BY SetupStays DEF Sound
  <2>. QED  BY <1>1, <2>1, NextFiled DEF KeptInv
<1>. QED  BY <1>1, <1>2, <1>3 DEF KeptInv

\* Between two calls of output, on a disk that does not fail, every log is
\* exactly its lines in the order they were output, for any goroutines, calls,
\* names, sizes and times: rotations lose none, flushes double none, and no
\* goroutine writes what is in another's buffer.
THEOREM LinesAreKept == Spec => []LinesKept
<1>1. Init => KeptInv
  BY InitKept
<1>2. KeptInv /\ [Next]_vars => KeptInv'
  BY NextKept
<1>3. KeptInv => LinesKept
  <2> SUFFICES ASSUME KeptInv, setup.toFiles, mu \notin Threads, ~setup.faults, NEW k \in Logs
               PROVE  Lines(OnDisk(k) \o file[k].pending) = Expected(k)
    BY DEF LinesKept
  <2>1. Filed
    BY DEF KeptInv, Sound
  <2>2. ~Owes(k)
    BY DEF KeptInv, MutexInv, Locked, Owes
  <2>. QED  BY <2>1, <2>2 DEF Filed, Exact, Kept
<1>. QED  BY <1>1, <1>2, <1>3, PTL DEF Spec
=============================================================================
