--------------------------- MODULE PatternVM_proof ---------------------------
(***************************************************************************)
(* Soundness of the pattern verifier, for every op list, pool and path.    *)
(* The argument: the note the verifier leaves before each op describes the *)
(* matcher's state when it reaches that op, so the tests made once while   *)
(* verifying stand for the tests the matcher never makes.                  *)
(*                                                                         *)
(* Then the machine against the templates, for every well-formed template. *)
(* The argument: the ops of the atoms are laid out one atom after the      *)
(* other, and whenever the machine is in front of an atom, the atoms       *)
(* before it have matched, the variables that ended before it are bound,   *)
(* and the top of the stack holds the atoms of the open one, cell by cell. *)
(***************************************************************************)
EXTENDS PatternTemplates, SequenceTheorems, WellFoundedInduction, TLAPS

NoteNow == [depth |-> depth, tail |-> tailLen, deep |-> pushMSeen, caps |-> Len(vars)]

\* What the verifier has established of op o when it went from note a to note b.
Verified(o, a, b) ==
  \/ /\ o.code \in {"OpPush", "OpLitPush"}
     /\ o.code = "OpLitPush" => InPool(o.operand)
     /\ b.depth = a.depth + 1 /\ b.tail = (IF a.deep THEN a.tail + 1 ELSE a.tail)
     /\ b.deep = a.deep /\ b.caps = a.caps
  \/ /\ o.code = "OpPushM" /\ ~a.deep
     /\ b.depth = a.depth + 1 /\ b.tail = a.tail /\ b.deep = TRUE /\ b.caps = a.caps
  \/ /\ o.code = "OpConcatN" /\ o.operand \in 1..a.depth
     /\ b.depth = a.depth - o.operand + 1 /\ b.tail = a.tail
     /\ b.deep = a.deep /\ b.caps = a.caps
  \/ /\ o.code = "OpCapture" /\ a.depth > 0 /\ o.operand = a.caps
     /\ b.depth = a.depth - 1 /\ b.tail = a.tail
     /\ b.deep = a.deep /\ b.caps = a.caps + 1

VerifierInv ==
  /\ Len(note) = Len(prog) + 1
  /\ note[1] = [depth |-> 0, tail |-> 0, deep |-> FALSE, caps |-> 0]
  /\ note[Len(note)] = NoteNow
  /\ \A k \in 1..Len(prog) : Verified(prog[k], note[k], note[k + 1])
  /\ \A k \in 1..Len(note) :
       /\ note[k].depth <= maxstack
       /\ note[k].tail <= tailLen
       /\ note[k].caps <= Len(vars)
       /\ note[k].deep \/ note[k].tail = 0
  /\ \A k \in 1..Len(prog) : \A m \in (k + 1)..Len(note) :
       prog[k].code = "OpPushM" => note[m].deep

RunInv ==
  /\ phase \in {"compile", "ready"} => stack = << >>
  /\ Len(stack) <= maxstack
  /\ phase = "run" =>
       /\ ip \in 1..(Len(prog) + 1)
       /\ Len(stack) = note[ip].depth
       /\ \A k \in 1..Len(stack) : stack[k] # {}
       /\ pos <= Len(components)
       /\ note[ip].deep => pos + tailLen = Len(components) + note[ip].tail
       /\ Len(captured) = Len(vars)
       /\ \A k \in 1..note[ip].caps : captured[k] # {}

IInv == TypeOK /\ VerifierInv /\ RunInv /\ AllVarsBound

-----------------------------------------------------------------------------
\* The initial note describes an empty program.
LEMMA InitInv == Init => IInv
<1> SUFFICES ASSUME Init PROVE IInv
  OBVIOUS
<1> DEFINE z == [depth |-> 0, tail |-> 0, deep |-> FALSE, caps |-> 0]
<1>1. /\ note = << z >> /\ z \in Note /\ prog = << >> /\ vars = << >>
      /\ depth = 0 /\ maxstack = 0 /\ tailLen = 0 /\ pushMSeen = FALSE
  BY DEF Init, Note
<1>2. TypeOK
  <2>1. ops \in Seq(Op) /\ verb \in Comp /\ i \in 1..(Len(ops) + 1)
    BY ProgramsAssumption, InputAssumption DEF Init
  <2>2. /\ phase \in Phases /\ wellFormed \in BOOLEAN /\ prog \in Seq(Op) /\ vars \in Seq(Comp)
        /\ components \in Seq(Comp) /\ ip \in Nat \ {0} /\ pos \in Nat
        /\ stack \in Seq(SUBSET Piece) /\ captured \in Seq(SUBSET Piece)
    BY DEF Init, Phases
  <2>3. note \in Seq(Note)
    BY <1>1
  <2>. QED  BY <1>1, <2>1, <2>2, <2>3 DEF TypeOK
<1>3. VerifierInv
  <2>1. Len(note) = 1 /\ note[1] = z /\ Len(prog) = 0 /\ Len(vars) = 0
    BY <1>1
  <2>2. \A k \in 1..Len(note) : k = 1
    BY <2>1
  <2>3. z.depth = 0 /\ z.tail = 0 /\ z.caps = 0 /\ Len(note) = Len(prog) + 1
    BY <2>1
  <2>5. note[Len(note)] = NoteNow
    <3>1. NoteNow = z
      BY <1>1, <2>1 DEF NoteNow
    <3>. QED  BY <3>1, <2>1
  <2>4. \A k \in 1..Len(note) : /\ note[k].depth <= maxstack /\ note[k].tail <= tailLen
                                /\ note[k].caps <= Len(vars) /\ (note[k].deep \/ note[k].tail = 0)
    BY <1>1, <2>1, <2>2, <2>3
  <2>. QED  BY <1>1, <2>1, <2>3, <2>4, <2>5 DEF VerifierInv
<1>4. RunInv /\ AllVarsBound
  BY DEF Init, RunInv, AllVarsBound
<1>. QED  BY <1>2, <1>3, <1>4 DEF IInv

\* Keeping a verified op extends the program and its notes by one.
LEMMA KeepInv ==
  ASSUME IInv, phase = "compile", i <= Len(ops),
         NEW op \in Op, NEW d \in Nat, NEW t \in Nat, NEW p \in BOOLEAN, NEW vs \in Seq(Comp),
         Keep(op, d, t, p, vs),
         Verified(op, NoteNow, [depth |-> d, tail |-> t, deep |-> p, caps |-> Len(vs)])
  PROVE  IInv'
<1> DEFINE b == [depth |-> d, tail |-> t, deep |-> p, caps |-> Len(vs)]
<1>0. /\ t >= tailLen /\ Len(vs) >= Len(vars) /\ (p \/ t = 0) /\ (pushMSeen => p)
      /\ (op.code = "OpPushM" => p)
  <2>1. Len(note) \in 1..Len(note) /\ note[Len(note)] = NoteNow
    BY DEF IInv, VerifierInv, TypeOK
  <2>2. NoteNow.deep \/ NoteNow.tail = 0
    BY <2>1 DEF IInv, VerifierInv
  <2>. QED  BY <2>2 DEF IInv, TypeOK, NoteNow, Verified
<1>1. /\ prog' = Append(prog, op) /\ note' = Append(note, b)
      /\ prog \in Seq(Op) /\ note \in Seq(Note) /\ b \in Note
      /\ maxstack' \in Nat /\ maxstack <= maxstack' /\ d <= maxstack'
  BY DEF Keep, IInv, TypeOK, Note
<1>2. /\ Len(prog') = Len(prog) + 1 /\ Len(note') = Len(note) + 1
      /\ \A k \in 1..Len(prog) : prog'[k] = prog[k]
      /\ \A k \in 1..Len(note) : note'[k] = note[k]
      /\ prog'[Len(prog) + 1] = op /\ note'[Len(note) + 1] = b
  BY <1>1
<1>3. TypeOK'
  BY <1>1 DEF Keep, IInv, TypeOK, Note, runVars
<1>4. VerifierInv'
  <2>1. Len(note') = Len(prog') + 1 /\ note'[1] = note[1] /\ note'[Len(note')] = NoteNow'
    BY <1>1, <1>2 DEF IInv, VerifierInv, NoteNow, Keep
  <2>5. /\ Len(prog) \in Nat /\ Len(note) = Len(prog) + 1 /\ maxstack \in Nat
        /\ tailLen \in Nat /\ tailLen' = t /\ vars' = vs /\ Len(vars) \in Nat /\ Len(vs) \in Nat
    BY DEF IInv, TypeOK, VerifierInv, Keep
  <2>2. \A k \in 1..Len(prog') : Verified(prog'[k], note'[k], note'[k + 1])
    <3> SUFFICES ASSUME NEW k \in 1..Len(prog') PROVE Verified(prog'[k], note'[k], note'[k + 1])
      OBVIOUS
    <3>1. CASE k <= Len(prog)
      BY <3>1, <1>1, <1>2 DEF IInv, VerifierInv
    <3>2. CASE k = Len(prog) + 1
      BY <3>2, <1>1, <1>2 DEF IInv, VerifierInv
    <3>. QED  BY <2>5, <3>1, <3>2, <1>1, <1>2
  <2>3. \A k \in 1..Len(note') :
          /\ note'[k].depth <= maxstack'
          /\ note'[k].tail <= tailLen'
          /\ note'[k].caps <= Len(vars')
          /\ note'[k].deep \/ note'[k].tail = 0
    <3> SUFFICES ASSUME NEW k \in 1..Len(note')
                 PROVE  /\ note'[k].depth <= maxstack'
                        /\ note'[k].tail <= tailLen'
                        /\ note'[k].caps <= Len(vars')
                        /\ note'[k].deep \/ note'[k].tail = 0
      OBVIOUS
    <3>1. CASE k <= Len(note)
      <4>1. k \in 1..Len(note) /\ note'[k] = note[k] /\ note[k] \in Note
        BY <3>1, <1>1, <1>2
      <4>2. /\ note[k].depth <= maxstack /\ note[k].tail <= tailLen
            /\ note[k].caps <= Len(vars) /\ (note[k].deep \/ note[k].tail = 0)
        BY <4>1 DEF IInv, VerifierInv
      <4>3. note[k].depth \in Nat /\ note[k].tail \in Nat /\ note[k].caps \in Nat
        BY <4>1 DEF Note
      <4>4. maxstack \in Nat /\ maxstack' \in Nat /\ maxstack <= maxstack'
        BY <1>1, <2>5
      <4>5. note[k].depth <= maxstack'
        BY <4>2, <4>3, <4>4
      <4>6. note[k].tail <= t /\ note[k].caps <= Len(vs)
        <5>1. tailLen <= t /\ Len(vars) <= Len(vs) /\ tailLen \in Nat /\ Len(vars) \in Nat /\ Len(vs) \in Nat
          BY <1>0, <2>5
        <5>. QED  BY <4>2, <4>3, <5>1
      <4>. QED  BY <1>0, <2>5, <4>1, <4>2, <4>5, <4>6
    <3>2. CASE k = Len(note) + 1
      BY <1>0, <3>2, <1>1, <1>2 DEF Keep
    <3>. QED  BY <2>5, <3>1, <3>2, <1>1, <1>2
  <2>4. \A k \in 1..Len(prog') : \A m \in (k + 1)..Len(note') :
          prog'[k].code = "OpPushM" => note'[m].deep
    <3> SUFFICES ASSUME NEW k \in 1..Len(prog'), NEW m \in (k + 1)..Len(note'),
                        prog'[k].code = "OpPushM"
                 PROVE  note'[m].deep
      OBVIOUS
    <3>1. CASE m <= Len(note)
      <4>1. k \in 1..Len(prog) /\ m \in (k + 1)..Len(note) /\ note'[m] = note[m] /\ prog'[k] = prog[k]
        BY <2>5, <3>1, <1>2
      <4>. QED  BY <4>1 DEF IInv, VerifierInv
    <3>2. CASE m = Len(note) + 1 /\ k <= Len(prog)
      <4>1. k \in 1..Len(prog) /\ Len(note) \in (k + 1)..Len(note) /\ prog[k].code = "OpPushM"
        BY <2>5, <3>2, <1>2
      <4>2. note[Len(note)].deep
        BY <4>1 DEF IInv, VerifierInv
      <4>. QED  BY <1>0, <4>2, <3>2, <1>2 DEF IInv, VerifierInv, NoteNow
    <3>3. CASE m = Len(note) + 1 /\ k = Len(prog) + 1
      BY <1>0, <3>3, <1>2
    <3>. QED  BY <3>1, <3>2, <3>3, <1>1, <1>2
  <2>. QED  BY <2>1, <2>2, <2>3, <2>4 DEF VerifierInv, IInv
<1>5. RunInv' /\ AllVarsBound'
  BY <1>1 DEF Keep, runVars, IInv, RunInv, AllVarsBound, TypeOK
<1>. QED  BY <1>3, <1>4, <1>5 DEF IInv

\* Every action of NewPattern preserves the invariant.
LEMMA CompileInv == IInv /\ Compile => IInv'
<1> SUFFICES ASSUME IInv, Compile PROVE IInv'
  OBVIOUS
<1>0. /\ depth \in Nat /\ tailLen \in Nat /\ pushMSeen \in BOOLEAN /\ vars \in Seq(Comp)
      /\ ops \in Seq(Op) /\ i \in 1..(Len(ops) + 1) /\ Len(vars) \in Nat
      /\ (pushMSeen \/ tailLen = 0)
  <2>1. Len(note) \in 1..Len(note) /\ note[Len(note)] = NoteNow
    BY DEF IInv, VerifierInv, TypeOK
  <2>2. NoteNow.deep \/ NoteNow.tail = 0
    BY <2>1 DEF IInv, VerifierInv
  <2>. QED  BY <2>2 DEF IInv, TypeOK, NoteNow
<1>1. ASSUME i <= Len(ops) PROVE ops[i] \in Op /\ ops[i].operand \in Int
  <2>1. i \in 1..Len(ops)
    BY <1>0, <1>1
  <2>2. ops[i] \in Op
    BY <1>0, <2>1
  <2>. QED  BY <2>2 DEF Op
<1>2. CASE CompileNop
  <2>1. TypeOK'
    <3>1. /\ i' = i + 1 /\ i <= Len(ops) /\ ops' = ops
          /\ UNCHANGED <<phase, wellFormed, verb, prog, depth, maxstack, tailLen, pushMSeen, vars, note>>
          /\ UNCHANGED <<components, ip, pos, stack, captured>>
      BY <1>2 DEF CompileNop, Compiling, runVars
    <3>2. TypeOK
      BY DEF IInv
    <3>3. i' \in 1..(Len(ops') + 1)
      BY <1>0, <3>1
    <3>. QED  BY <3>1, <3>2, <3>3 DEF TypeOK
  <2>2. VerifierInv' /\ RunInv' /\ AllVarsBound'
    BY <1>2 DEF CompileNop, Compiling, IInv, VerifierInv, NoteNow, RunInv, AllVarsBound, runVars
  <2>. QED  BY <2>1, <2>2 DEF IInv
<1>3. CASE CompilePush
  <2>1. phase = "compile" /\ i <= Len(ops) /\ ops[i].code = "OpPush"
    BY <1>3 DEF CompilePush, Compiling
  <2>2. Verified(ops[i], NoteNow, [depth |-> depth + 1, tail |-> TailAfterPush,
                                   deep |-> pushMSeen, caps |-> Len(vars)])
    BY <1>0, <2>1 DEF Verified, NoteNow, TailAfterPush
  <2>3. TailAfterPush \in Nat
    BY <1>0 DEF TailAfterPush
  <2>. QED  BY <1>0, <1>1, <1>3, <2>1, <2>2, <2>3, KeepInv DEF CompilePush
<1>4. CASE CompilePushM
  <2>1. phase = "compile" /\ i <= Len(ops) /\ ops[i].code = "OpPushM" /\ ~pushMSeen
    BY <1>4 DEF CompilePushM, Compiling
  <2>2. Verified(ops[i], NoteNow, [depth |-> depth + 1, tail |-> tailLen,
                                   deep |-> TRUE, caps |-> Len(vars)])
    BY <1>0, <2>1 DEF Verified, NoteNow
  <2>3. Keep(ops[i], depth + 1, tailLen, TRUE, vars)
    BY <1>4 DEF CompilePushM
  <2>4. ops[i] \in Op /\ depth + 1 \in Nat /\ TRUE \in BOOLEAN
    BY <1>0, <1>1, <2>1
  <2>. HIDE DEF IInv
  <2>. QED  BY <1>0, <2>1, <2>2, <2>3, <2>4, KeepInv
<1>5. CASE CompileLitPush
  <2>1. /\ phase = "compile" /\ i <= Len(ops) /\ ops[i].code = "OpLitPush"
        /\ InPool(ops[i].operand)
    BY <1>5 DEF CompileLitPush, Compiling
  <2>2. Verified(ops[i], NoteNow, [depth |-> depth + 1, tail |-> TailAfterPush,
                                   deep |-> pushMSeen, caps |-> Len(vars)])
    BY <1>0, <2>1 DEF Verified, NoteNow, TailAfterPush
  <2>3. TailAfterPush \in Nat
    BY <1>0 DEF TailAfterPush
  <2>. QED  BY <1>0, <1>1, <1>5, <2>1, <2>2, <2>3, KeepInv DEF CompileLitPush
<1>6. CASE CompileConcatN
  <2>1. /\ phase = "compile" /\ i <= Len(ops) /\ ops[i].code = "OpConcatN"
        /\ ops[i].operand \in 1..depth
    BY <1>0, <1>1, <1>6 DEF CompileConcatN, Compiling
  <2>2. Verified(ops[i], NoteNow, [depth |-> depth - ops[i].operand + 1, tail |-> tailLen,
                                   deep |-> pushMSeen, caps |-> Len(vars)])
    BY <1>0, <2>1 DEF Verified, NoteNow
  <2>3. depth - ops[i].operand + 1 \in Nat
    BY <1>0, <2>1
  <2>. QED  BY <1>0, <1>1, <1>6, <2>1, <2>2, <2>3, KeepInv DEF CompileConcatN
<1>7. CASE CompileCapture
  <2> DEFINE op == [code |-> "OpCapture", operand |-> Len(vars)]
             name == Pool[ops[i].operand + 1]
  <2>1. phase = "compile" /\ i <= Len(ops) /\ depth > 0 /\ InPool(ops[i].operand)
    BY <1>0, <1>7 DEF CompileCapture, Compiling
  <2>2. name \in Comp
    BY <1>1, <2>1, PoolAssumption DEF InPool
  <2>3. Append(vars, name) \in Seq(Comp) /\ Len(Append(vars, name)) = Len(vars) + 1
    BY <1>0, <2>2
  <2>4. op \in Op
    BY <1>0 DEF Op, OpCodes
  <2>5. Verified(op, NoteNow, [depth |-> depth - 1, tail |-> tailLen,
                               deep |-> pushMSeen, caps |-> Len(Append(vars, name))])
    BY <1>0, <2>1, <2>3 DEF Verified, NoteNow
  <2>6. Keep(op, depth - 1, tailLen, pushMSeen, Append(vars, name))
    BY <1>7 DEF CompileCapture
  <2>7. depth - 1 \in Nat
    BY <1>0, <2>1
  <2>. HIDE DEF op, name
  <2>. QED  BY <1>0, <2>1, <2>3, <2>4, <2>5, <2>6, <2>7, KeepInv
<1>8. CASE CompileReject \/ CompileDone
  <2>1. UNCHANGED <<compileVars, runVars>> /\ phase' \in {"rejected", "ready"} /\ phase = "compile"
    BY <1>8 DEF CompileReject, CompileDone, Compiling
  <2>. QED  BY <2>1 DEF IInv, TypeOK, Phases, VerifierInv, NoteNow, RunInv, AllVarsBound,
                        compileVars, runVars
<1>. QED  BY <1>2, <1>3, <1>4, <1>5, <1>6, <1>7, <1>8 DEF Compile

-----------------------------------------------------------------------------
(* The matcher. *)

\* One completed op of MatchAndEscape.
LEMMA ProceedInv ==
  ASSUME IInv, phase = "run", ip \in 1..Len(prog),
         NEW s \in Seq(SUBSET Piece), NEW q \in Nat, NEW c \in Seq(SUBSET Piece),
         Proceed(s, q, c),
         Len(s) = note[ip + 1].depth, \A k \in 1..Len(s) : s[k] # {},
         q <= Len(components),
         note[ip + 1].deep => q + tailLen = Len(components) + note[ip + 1].tail,
         Len(c) = Len(vars), \A k \in 1..note[ip + 1].caps : c[k] # {}
  PROVE  IInv'
<1>1. TypeOK'
  BY DEF Proceed, IInv, TypeOK, compileVars
<1>2. VerifierInv'
  BY DEF Proceed, IInv, VerifierInv, NoteNow, compileVars
<1>3. ip + 1 \in 1..Len(note) /\ note[ip + 1].depth <= maxstack /\ Len(note) = Len(prog) + 1
  <2>1. Len(prog) \in Nat /\ Len(note) = Len(prog) + 1
    BY DEF IInv, TypeOK, VerifierInv
  <2>2. ip + 1 \in 1..Len(note)
    BY <2>1
  <2>. QED  BY <2>1, <2>2 DEF IInv, VerifierInv
<1>4. RunInv' /\ AllVarsBound'
  BY <1>3 DEF Proceed, RunInv, AllVarsBound, compileVars
<1>. QED  BY <1>1, <1>2, <1>4 DEF IInv

\* A call that returns leaves everything but its result as it was.
LEMMA ReturnInv ==
  ASSUME IInv, phase = "run", NEW r \in {"nomatch", "malformed", "matched"}, Return(r),
         r = "matched" => \A k \in 1..Len(vars) : captured[k] # {}
  PROVE  IInv'
BY DEF Return, IInv, TypeOK, Phases, VerifierInv, NoteNow, RunInv, AllVarsBound,
       compileVars, runVars

\* What the notes say of the op about to run.
LEMMA OpFacts ==
  ASSUME IInv, phase = "run", ip <= Len(prog)
  PROVE  /\ ip \in 1..Len(prog) /\ ip + 1 \in 1..Len(note)
         /\ prog[ip] \in Op /\ note[ip] \in Note /\ note[ip + 1] \in Note
         /\ Verified(prog[ip], note[ip], note[ip + 1])
         /\ note[ip + 1].tail <= tailLen
         /\ note[ip].deep \/ note[ip].tail = 0
         /\ note[ip + 1].caps <= Len(vars)
         /\ Len(stack) = note[ip].depth
<1>1. /\ ip \in 1..(Len(prog) + 1) /\ Len(prog) \in Nat /\ Len(note) = Len(prog) + 1
      /\ prog \in Seq(Op) /\ note \in Seq(Note)
  BY DEF IInv, TypeOK, VerifierInv, RunInv
<1>2. ip \in 1..Len(prog) /\ ip \in 1..Len(note) /\ ip + 1 \in 1..Len(note)
  BY <1>1
<1>3. prog[ip] \in Op /\ note[ip] \in Note /\ note[ip + 1] \in Note
  BY <1>1, <1>2
<1>4. Verified(prog[ip], note[ip], note[ip + 1])
  BY <1>2 DEF IInv, VerifierInv
<1>5. /\ note[ip + 1].tail <= tailLen /\ (note[ip].deep \/ note[ip].tail = 0)
      /\ note[ip + 1].caps <= Len(vars)
  BY <1>2 DEF IInv, VerifierInv
<1>6. Len(stack) = note[ip].depth
  BY DEF IInv, RunInv
<1>. QED  BY <1>2, <1>3, <1>4, <1>5, <1>6

\* What a verified push and a verified capture do to the notes.
LEMMA VerifiedCases ==
  ASSUME NEW o, NEW a, NEW b, Verified(o, a, b)
  PROVE  /\ o.code \in {"OpPush", "OpLitPush"} =>
              b.tail = (IF a.deep THEN a.tail + 1 ELSE a.tail)
         /\ o.code = "OpCapture" =>
              /\ a.depth > 0 /\ o.operand = a.caps /\ b.depth = a.depth - 1
              /\ b.caps = a.caps + 1 /\ b.deep = a.deep /\ b.tail = a.tail
BY DEF Verified

\* The accesses MatchAndEscape makes without a test are in range.
LEMMA IInvStackSafe == IInv => StackSafe
<1> SUFFICES ASSUME IInv, phase = "run", ip <= Len(prog)
             PROVE  /\ prog[ip].code = "OpConcatN" => prog[ip].operand \in 1..Len(stack)
                    /\ prog[ip].code = "OpCapture" => /\ Len(stack) >= 1
                                                     /\ prog[ip].operand + 1 \in DOMAIN captured
                    /\ prog[ip].code = "OpLitPush" => prog[ip].operand + 1 \in DOMAIN Pool
  BY DEF StackSafe
<1>1. /\ prog[ip] \in Op /\ note[ip] \in Note /\ note[ip + 1] \in Note
      /\ Verified(prog[ip], note[ip], note[ip + 1])
      /\ Len(stack) = note[ip].depth /\ note[ip + 1].caps <= Len(vars)
  BY OpFacts
<1>2. Len(captured) = Len(vars) /\ DOMAIN captured = 1..Len(captured) /\ Len(vars) \in Nat
  BY DEF IInv, TypeOK, RunInv
<1>3. DOMAIN Pool = 1..Len(Pool) /\ Len(Pool) \in Nat
  BY PoolAssumption
<1>4. /\ prog[ip].operand \in Int /\ note[ip].depth \in Nat
      /\ note[ip].caps \in Nat /\ note[ip + 1].caps \in Nat
  BY <1>1 DEF Op, Note
<1>5. prog[ip].code = "OpConcatN" => prog[ip].operand \in 1..Len(stack)
  BY <1>1 DEF Verified
<1>6. prog[ip].code = "OpCapture" => Len(stack) >= 1 /\ prog[ip].operand + 1 \in DOMAIN captured
  BY <1>1, <1>2, <1>4 DEF Verified
<1>7. prog[ip].code = "OpLitPush" => prog[ip].operand + 1 \in DOMAIN Pool
  BY <1>1, <1>3, <1>4 DEF Verified, InPool
<1>. QED  BY <1>5, <1>6, <1>7

\* Unescaping a well-escaped component gives a component.
LEMMA UnescapeType ==
  ASSUME NEW c \in Comp, NEW table \in [Tok -> Tok \cup {Malformed}], WellEscaped(c, table)
  PROVE  Unescape(c, table) \in Comp
<1>1. \A t \in 1..Len(c) : c[t] \in Tok /\ table[c[t]] \in Tok
  BY DEF Comp, WellEscaped
<1>2. Len(c) \in Nat
  BY DEF Comp
<1>. QED  BY <1>1, <1>2 DEF Unescape, Comp

\* Every step of MatchAndEscape preserves the invariant.
LEMMA MatchInv == IInv /\ Run => IInv'
<1> SUFFICES ASSUME IInv, Run PROVE IInv'
  OBVIOUS
<1>0. /\ ip \in Nat \ {0} /\ pos \in Nat /\ Len(components) \in Nat /\ Len(stack) \in Nat
      /\ components \in Seq(Comp) /\ stack \in Seq(SUBSET Piece) /\ captured \in Seq(SUBSET Piece)
      /\ prog \in Seq(Op) /\ tailLen \in Nat /\ Len(prog) \in Nat /\ Len(vars) \in Nat
  BY DEF IInv, TypeOK
<1>a. phase = "run" => /\ ip \in 1..(Len(prog) + 1)
                       /\ \A k \in 1..Len(stack) : stack[k] # {}
                       /\ pos <= Len(components)
                       /\ note[ip].deep => pos + tailLen = Len(components) + note[ip].tail
                       /\ Len(captured) = Len(vars)
                       /\ \A k \in 1..note[ip].caps : captured[k] # {}
  BY DEF IInv, RunInv
<1>b. \A x \in SUBSET Piece : x # {} =>
        /\ Append(stack, x) \in Seq(SUBSET Piece)
        /\ Len(Append(stack, x)) = Len(stack) + 1
        /\ phase = "run" => \A k \in 1..Len(Append(stack, x)) : Append(stack, x)[k] # {}
  <2> SUFFICES ASSUME NEW x \in SUBSET Piece, x # {}
               PROVE  /\ Append(stack, x) \in Seq(SUBSET Piece)
                      /\ Len(Append(stack, x)) = Len(stack) + 1
                      /\ phase = "run" => \A k \in 1..Len(Append(stack, x)) : Append(stack, x)[k] # {}
    OBVIOUS
  <2>1. /\ Append(stack, x) \in Seq(SUBSET Piece)
        /\ Len(Append(stack, x)) = Len(stack) + 1
        /\ \A k \in 1..Len(stack) : Append(stack, x)[k] = stack[k]
        /\ Append(stack, x)[Len(stack) + 1] = x
    BY <1>0
  <2>2. Len(stack) \in Nat /\ \A k \in 1..(Len(stack) + 1) : k = Len(stack) + 1 \/ k \in 1..Len(stack)
    BY <1>0
  <2>. QED  BY <1>a, <2>1, <2>2
<1>1. CASE RunOut
  BY <1>1, ReturnInv DEF RunOut, Running
<1>2. CASE RunPush
  <2> DEFINE c == components[pos + 1]
             x == { PieceOf(pos, Unescape(c, UnescapeOne)) }
  <2>1. phase = "run" /\ ip <= Len(prog) /\ prog[ip].code = "OpPush" /\ pos < Len(components)
    BY <1>2 DEF RunPush, Running
  <2>2. CASE ~WellEscaped(c, UnescapeOne)
    BY <1>2, <2>1, <2>2, ReturnInv DEF RunPush
  <2>3. CASE WellEscaped(c, UnescapeOne)
    <3>1. Proceed(Append(stack, x), pos + 1, captured)
      BY <1>2, <2>3 DEF RunPush
    <3>2. c \in Comp
      BY <1>0, <2>1
    <3>3. x \in SUBSET Piece /\ x # {}
      BY <1>0, <2>3, <3>2, UnescapeType, UnescapeAssumption DEF PieceOf, Piece
    <3>4. /\ ip \in 1..Len(prog) /\ note[ip + 1].depth = Len(stack) + 1
          /\ note[ip + 1].caps = note[ip].caps /\ note[ip + 1].deep = note[ip].deep
          /\ note[ip].deep \in BOOLEAN
          /\ note[ip].deep => note[ip + 1].tail = note[ip].tail + 1
          /\ note[ip].tail \in Nat /\ note[ip + 1].tail \in Nat
      BY <2>1, OpFacts DEF Verified, Note
    <3>5. /\ Append(stack, x) \in Seq(SUBSET Piece) /\ Len(Append(stack, x)) = note[ip + 1].depth
          /\ \A k \in 1..Len(Append(stack, x)) : Append(stack, x)[k] # {}
      BY <1>b, <2>1, <3>3, <3>4
    <3>6. /\ pos + 1 \in Nat /\ pos + 1 <= Len(components)
          /\ note[ip + 1].deep => pos + 1 + tailLen = Len(components) + note[ip + 1].tail
      <4>1. note[ip].deep => pos + tailLen = Len(components) + note[ip].tail
        BY <1>a, <2>1
      <4>2. note[ip + 1].deep => note[ip].deep
        BY <3>4
      <4>3. ASSUME note[ip].deep
            PROVE  pos + 1 + tailLen = Len(components) + note[ip + 1].tail
        <5>1. /\ pos + tailLen = Len(components) + note[ip].tail
              /\ note[ip + 1].tail = note[ip].tail + 1
          BY <3>4, <4>1, <4>3
        <5>2. note[ip].tail \in Nat
          BY <3>4
        <5>3. pos \in Nat /\ tailLen \in Nat /\ Len(components) \in Nat
          BY <1>0
        <5>. QED  BY <5>1, <5>2, <5>3
      <4>4. pos + 1 \in Nat /\ pos + 1 <= Len(components)
        BY <1>0, <2>1
      <4>. QED  BY <4>2, <4>3, <4>4
    <3>7. Len(captured) = Len(vars) /\ \A k \in 1..note[ip + 1].caps : captured[k] # {}
      BY <1>a, <2>1, <3>4
    <3>. HIDE DEF x
    <3>. QED  BY <1>0, <2>1, <3>1, <3>4, <3>5, <3>6, <3>7, ProceedInv
  <2>. QED  BY <2>2, <2>3
<1>3. CASE RunLitPush
  <2> DEFINE c == components[pos + 1]
             x == { PieceOf(pos, c) }
  <2>1. phase = "run" /\ ip <= Len(prog) /\ prog[ip].code = "OpLitPush" /\ pos < Len(components)
    BY <1>3 DEF RunLitPush, Running
  <2>2. CASE c # Pool[prog[ip].operand + 1]
    BY <1>3, <2>1, <2>2, ReturnInv DEF RunLitPush
  <2>3. CASE c = Pool[prog[ip].operand + 1]
    <3>1. Proceed(Append(stack, x), pos + 1, captured)
      BY <1>3, <2>3 DEF RunLitPush
    <3>2. c \in Comp
      BY <1>0, <2>1
    <3>3. x \in SUBSET Piece /\ x # {}
      BY <1>0, <3>2 DEF PieceOf, Piece
    <3>4. /\ ip \in 1..Len(prog) /\ note[ip + 1].depth = Len(stack) + 1
          /\ note[ip + 1].caps = note[ip].caps /\ note[ip + 1].deep = note[ip].deep
          /\ note[ip].deep \in BOOLEAN
          /\ note[ip].deep => note[ip + 1].tail = note[ip].tail + 1
          /\ note[ip].tail \in Nat /\ note[ip + 1].tail \in Nat
      BY <2>1, OpFacts DEF Verified, Note
    <3>5. /\ Append(stack, x) \in Seq(SUBSET Piece) /\ Len(Append(stack, x)) = note[ip + 1].depth
          /\ \A k \in 1..Len(Append(stack, x)) : Append(stack, x)[k] # {}
      BY <1>b, <2>1, <3>3, <3>4
    <3>6. /\ pos + 1 \in Nat /\ pos + 1 <= Len(components)
          /\ note[ip + 1].deep => pos + 1 + tailLen = Len(components) + note[ip + 1].tail
      <4>1. note[ip].deep => pos + tailLen = Len(components) + note[ip].tail
        BY <1>a, <2>1
      <4>2. note[ip + 1].deep => note[ip].deep
        BY <3>4
      <4>3. ASSUME note[ip].deep
            PROVE  pos + 1 + tailLen = Len(components) + note[ip + 1].tail
        <5>1. /\ pos + tailLen = Len(components) + note[ip].tail
              /\ note[ip + 1].tail = note[ip].tail + 1
          BY <3>4, <4>1, <4>3
        <5>2. note[ip].tail \in Nat
          BY <3>4
        <5>3. pos \in Nat /\ tailLen \in Nat /\ Len(components) \in Nat
          BY <1>0
        <5>. QED  BY <5>1, <5>2, <5>3
      <4>4. pos + 1 \in Nat /\ pos + 1 <= Len(components)
        BY <1>0, <2>1
      <4>. QED  BY <4>2, <4>3, <4>4
    <3>7. Len(captured) = Len(vars) /\ \A k \in 1..note[ip + 1].caps : captured[k] # {}
      BY <1>a, <2>1, <3>4
    <3>. HIDE DEF x
    <3>. QED  BY <1>0, <2>1, <3>1, <3>4, <3>5, <3>6, <3>7, ProceedInv
  <2>. QED  BY <2>2, <2>3
<1>4. CASE RunPushM
  <2> DEFINE end == Len(components) - tailLen
             x == DeepPieces(end)
  <2>1. phase = "run" /\ ip <= Len(prog) /\ prog[ip].code = "OpPushM"
    BY <1>4 DEF RunPushM, Running
  <2>2. CASE Return("nomatch") \/ Return("malformed")
    BY <2>1, <2>2, ReturnInv
  <2>3. CASE /\ end >= pos
             /\ \A k \in pos..(end - 1) : WellEscaped(components[k + 1], UnescapeMulti)
             /\ Proceed(Append(stack, x), end, captured)
    <3>1. \A k \in pos..(end - 1) : PieceOf(k, Unescape(components[k + 1], UnescapeMulti)) \in Piece
      <4> SUFFICES ASSUME NEW k \in pos..(end - 1)
                   PROVE  PieceOf(k, Unescape(components[k + 1], UnescapeMulti)) \in Piece
        OBVIOUS
      <4>1. k \in Nat /\ components[k + 1] \in Comp
        BY <1>0
      <4>2. Unescape(components[k + 1], UnescapeMulti) \in Comp
        BY <2>3, <4>1, UnescapeType, UnescapeAssumption
      <4>. QED  BY <1>0, <4>1, <4>2 DEF PieceOf, Piece
    <3>2. PieceOf(pos, EmptyComp) \in Piece
      BY <1>0, TokAssumption DEF PieceOf, Piece, EmptyComp, Comp
    <3>3. x \in SUBSET Piece
      BY <3>1, <3>2 DEF DeepPieces
    <3>4. x # {}
      <4>1. CASE end = pos
        BY <4>1 DEF DeepPieces
      <4>2. CASE end # pos
        <5>1. pos \in pos..(end - 1)
          BY <1>0, <2>3, <4>2
        <5>. QED  BY <4>2, <5>1 DEF DeepPieces
      <4>. QED  BY <4>1, <4>2
    <3>5. /\ ip \in 1..Len(prog) /\ note[ip + 1].depth = Len(stack) + 1
          /\ note[ip + 1].caps = note[ip].caps /\ note[ip + 1].tail = 0
      BY <2>1, OpFacts DEF Verified, Note
    <3>6. end \in Nat /\ end <= Len(components)
      BY <1>0, <2>3
    <3>7. /\ Append(stack, x) \in Seq(SUBSET Piece) /\ Len(Append(stack, x)) = note[ip + 1].depth
          /\ \A k \in 1..Len(Append(stack, x)) : Append(stack, x)[k] # {}
      BY <1>b, <2>1, <3>3, <3>4, <3>5
    <3>8. end + tailLen = Len(components) + note[ip + 1].tail
      BY <1>0, <3>5
    <3>9. Len(captured) = Len(vars) /\ \A k \in 1..note[ip + 1].caps : captured[k] # {}
      BY <1>a, <2>1, <3>5
    <3>. HIDE DEF x, end
    <3>. QED  BY <1>0, <2>1, <2>3, <3>5, <3>6, <3>7, <3>8, <3>9, ProceedInv
  <2>. QED  BY <1>4, <2>2, <2>3 DEF RunPushM
<1>5. CASE RunConcatN
  <2> DEFINE n == prog[ip].operand
             l == Len(stack) - n
             x == UNION { stack[k] : k \in (l + 1)..Len(stack) }
             s == Append(SubSeq(stack, 1, l), x)
  <2>1. phase = "run" /\ ip <= Len(prog) /\ prog[ip].code = "OpConcatN" /\ Proceed(s, pos, captured)
    BY <1>5 DEF RunConcatN, Running
  <2>2. /\ ip \in 1..Len(prog) /\ n \in 1..Len(stack)
        /\ note[ip + 1].depth = Len(stack) - n + 1 /\ note[ip + 1].caps = note[ip].caps
        /\ note[ip + 1].deep = note[ip].deep /\ note[ip + 1].tail = note[ip].tail
    BY <2>1, OpFacts DEF Verified, Note
  <2>3. l \in 0..(Len(stack) - 1) /\ l \in Nat
    BY <1>0, <2>2
  <2>4. x \in SUBSET Piece
    BY <1>0, <2>3
  <2>5. x # {}
    <3>1. Len(stack) \in (l + 1)..Len(stack) /\ stack[Len(stack)] # {}
      BY <1>0, <1>a, <2>1, <2>3
    <3>. QED  BY <3>1
  <2>6. /\ SubSeq(stack, 1, l) \in Seq(SUBSET Piece) /\ Len(SubSeq(stack, 1, l)) = l
        /\ \A k \in 1..l : SubSeq(stack, 1, l)[k] = stack[k]
    BY <1>0, <2>3
  <2>7. /\ s \in Seq(SUBSET Piece) /\ Len(s) = l + 1
        /\ \A k \in 1..Len(s) : s[k] # {}
    <3>. HIDE DEF x, l
    <3>1. s \in Seq(SUBSET Piece) /\ Len(s) = l + 1 /\ s[l + 1] = x
      BY <2>3, <2>4, <2>6
    <3>2. \A k \in 1..l : s[k] = SubSeq(stack, 1, l)[k]
      BY <2>3, <2>4, <2>6
    <3>3. \A k \in 1..l : k \in 1..Len(stack)
      BY <1>0, <2>3
    <3>4. \A k \in 1..l : s[k] # {}
      BY <1>a, <2>1, <2>6, <3>2, <3>3
    <3>. QED  BY <2>3, <2>5, <3>1, <3>4
  <2>. HIDE DEF s
  <2>. QED  BY <1>0, <1>a, <2>1, <2>2, <2>7, ProceedInv
<1>6. CASE RunCapture
  <2> DEFINE n == Len(stack)
             l == n - 1
             s == SubSeq(stack, 1, l)
             m == prog[ip].operand + 1
             c == [captured EXCEPT ![m] = stack[n]]
  <2>1. phase = "run" /\ ip <= Len(prog) /\ prog[ip].code = "OpCapture" /\ Proceed(s, pos, c)
    BY <1>6 DEF RunCapture, Running
  <2>2. /\ ip \in 1..Len(prog) /\ note[ip] \in Note /\ note[ip + 1] \in Note
        /\ Len(stack) = note[ip].depth /\ note[ip].depth > 0
        /\ note[ip + 1].depth = note[ip].depth - 1 /\ note[ip + 1].caps = note[ip].caps + 1
        /\ note[ip + 1].deep = note[ip].deep /\ note[ip + 1].tail = note[ip].tail
        /\ prog[ip].operand = note[ip].caps /\ note[ip + 1].caps <= Len(vars)
    <3>1. /\ ip \in 1..Len(prog) /\ note[ip] \in Note /\ note[ip + 1] \in Note
          /\ Len(stack) = note[ip].depth /\ note[ip + 1].caps <= Len(vars)
          /\ Verified(prog[ip], note[ip], note[ip + 1])
      BY <2>1, OpFacts
    <3>2. prog[ip].code = "OpCapture"
      BY <2>1
    <3>3. /\ note[ip].depth > 0 /\ prog[ip].operand = note[ip].caps
          /\ note[ip + 1].depth = note[ip].depth - 1 /\ note[ip + 1].caps = note[ip].caps + 1
          /\ note[ip + 1].deep = note[ip].deep /\ note[ip + 1].tail = note[ip].tail
      <4>. HIDE DEF n, l, s, m, c
      <4>. QED  BY <3>1, <3>2, VerifiedCases
    <3>. HIDE DEF n, l, s, m, c
    <3>. QED  BY <3>1, <3>3
  <2>3. note[ip].caps \in Nat /\ n \in Nat /\ n >= 1 /\ n - 1 \in Nat
    <3>1. note[ip] \in Note /\ n = note[ip].depth /\ note[ip].depth > 0
      BY <2>2
    <3>2. note[ip].caps \in Nat /\ note[ip].depth \in Nat
      BY <3>1 DEF Note
    <3>. HIDE DEF n
    <3>. QED  BY <3>1, <3>2
  <2>4. /\ s \in Seq(SUBSET Piece) /\ Len(s) = n - 1
        /\ \A k \in 1..(n - 1) : s[k] = stack[k]
    <3>1. l \in 0..(Len(stack) - 1) /\ l \in Nat /\ l = n - 1
      BY <2>3
    <3>. HIDE DEF l, n
    <3>. QED  BY <1>0, <3>1
  <2>5. \A k \in 1..Len(s) : s[k] # {}
    <3>1. \A k \in 1..Len(s) : k \in 1..Len(stack) /\ s[k] = stack[k]
      BY <2>3, <2>4
    <3>. QED  BY <1>a, <2>1, <3>1
  <2>6. stack[n] \in SUBSET Piece /\ stack[n] # {} /\ m \in 1..Len(captured)
    <3>1. n \in 1..Len(stack)
      BY <2>3
    <3>2. stack[n] \in SUBSET Piece
      BY <1>0, <3>1
    <3>4. stack[n] # {}
      BY <1>a, <2>1, <3>1
    <3>3. Len(captured) = Len(vars)
      BY <1>a, <2>1
    <3>5. m = note[ip].caps + 1 /\ note[ip].caps + 1 <= Len(vars)
      BY <2>2
    <3>. HIDE DEF m, n
    <3>. QED  BY <2>3, <3>2, <3>3, <3>4, <3>5
  <2>7. /\ c \in Seq(SUBSET Piece) /\ Len(c) = Len(captured) /\ c[m] = stack[n]
        /\ \A k \in 1..Len(captured) : k # m => c[k] = captured[k]
    <3>. HIDE DEF n, m
    <3>. QED  BY <1>0, <2>6
  <2>8. \A k \in 1..note[ip + 1].caps : c[k] # {}
    <3> SUFFICES ASSUME NEW k \in 1..note[ip + 1].caps PROVE c[k] # {}
      OBVIOUS
    <3>1. CASE k = m
      BY <2>6, <2>7, <3>1
    <3>2. CASE k # m
      <4>1. Len(captured) = Len(vars)
        BY <1>a, <2>1
      <4>2. k \in 1..note[ip].caps /\ k \in 1..Len(captured)
        BY <1>0, <2>2, <2>3, <3>2, <4>1
      <4>. QED  BY <1>a, <2>1, <2>7, <3>2, <4>2
    <3>. QED  BY <3>1, <3>2
  <2>9. /\ Len(s) = note[ip + 1].depth /\ Len(c) = Len(vars) /\ pos <= Len(components)
        /\ note[ip + 1].deep => pos + tailLen = Len(components) + note[ip + 1].tail
    BY <1>a, <2>1, <2>2, <2>4, <2>7
  <2>. HIDE DEF s, c
  <2>. QED  BY <1>0, <2>1, <2>2, <2>4, <2>5, <2>7, <2>8, <2>9, ProceedInv
<1>7. CASE RunEnd
  <2>1. phase = "run" /\ ip = Len(prog) + 1
    BY <1>0, <1>7, <1>a DEF RunEnd
  <2>2. note[ip].caps = Len(vars)
    BY <2>1 DEF IInv, VerifierInv, NoteNow
  <2>. QED  BY <1>7, <1>a, <2>1, <2>2, ReturnInv DEF RunEnd
<1>. QED  BY <1>1, <1>2, <1>3, <1>4, <1>5, <1>6, <1>7 DEF Run

\* A call starts with an empty stack and nothing captured.
LEMMA CallInv ==
  ASSUME IInv, NEW path \in Paths, NEW v \in RequestVerbs, Call(path, v)
  PROVE  IInv'
<1>1. path \in Seq(Comp) /\ v \in Seq(Tok) /\ EmptyComp \in Seq(Tok)
  BY InputAssumption, TokAssumption DEF Comp, EmptyComp
<1>2. WithVerb(path, v) \in Seq(Comp)
  <2>1. CASE path = << >>
    BY <1>1, <2>1 DEF WithVerb, Comp
  <2>2. CASE path # << >>
    <3>1. Len(path) \in 1..Len(path) /\ path[Len(path)] \in Seq(Tok)
      BY <1>1, <2>2 DEF Comp
    <3>2. path[Len(path)] \o v \in Comp
      BY <1>1, <3>1 DEF Comp
    <3>. QED  BY <1>1, <2>2, <3>1, <3>2 DEF WithVerb
  <2>. QED  BY <2>1, <2>2
<1>3. /\ components' \in Seq(Comp) /\ phase' \in {"run", "nomatch"} /\ phase = "ready"
      /\ ip' = 1 /\ pos' = 0 /\ stack' = << >> /\ captured' = [k \in 1..Len(vars) |-> {}]
      /\ UNCHANGED compileVars
  BY <1>1, <1>2 DEF Call
<1>4. /\ Len(vars) \in Nat /\ Len(note) \in Nat /\ Len(note) = Len(prog) + 1 /\ Len(prog) \in Nat
      /\ note[1] = [depth |-> 0, tail |-> 0, deep |-> FALSE, caps |-> 0] /\ maxstack \in Nat
  BY DEF IInv, TypeOK, VerifierInv
<1>5. captured' \in Seq(SUBSET Piece) /\ Len(captured') = Len(vars)
  BY <1>3, <1>4
<1>6. TypeOK'
  BY <1>3, <1>5 DEF IInv, TypeOK, Phases, compileVars
<1>7. VerifierInv'
  BY <1>3 DEF IInv, VerifierInv, NoteNow, compileVars
<1>8. RunInv' /\ AllVarsBound'
  <2>1. Len(stack') = 0 /\ Len(components') \in Nat /\ note'[1].depth = 0 /\ ~note'[1].deep
        /\ note'[1].caps = 0 /\ Len(captured') = Len(vars')
    BY <1>3, <1>4, <1>5 DEF compileVars
  <2>. QED  BY <1>3, <1>4, <2>1 DEF RunInv, AllVarsBound, compileVars
<1>. QED  BY <1>6, <1>7, <1>8 DEF IInv

-----------------------------------------------------------------------------
\* The invariant holds in every state, for every op list and every path.
THEOREM Invariance == Spec => []IInv
<1>1. IInv /\ [Next]_allVars => IInv'
  <2> SUFFICES ASSUME IInv, [Next]_allVars PROVE IInv'
    OBVIOUS
  <2>1. CASE UNCHANGED allVars
    BY <2>1 DEF allVars, compileVars, runVars, IInv, TypeOK, VerifierInv, NoteNow, RunInv, AllVarsBound
  <2>. QED  BY <2>1, CompileInv, MatchInv, CallInv DEF Next
<1>. QED  BY InitInv, <1>1, PTL DEF Spec

\* Type correctness of the verifier and of the matcher.
THEOREM TypeCorrect == Spec => []TypeOK
BY Invariance, PTL DEF IInv

\* Whatever NewPattern accepted, MatchAndEscape never underflows its stack and
\* never indexes outside the pool, the variables or the captures.
THEOREM StackSafety == Spec => []StackSafe
BY Invariance, IInvStackSafe, PTL

\* stacksize, computed once, bounds the stack of every run.
THEOREM StackBound == Spec => []StackBounded
<1>1. IInv => StackBounded
  BY DEF IInv, RunInv, StackBounded
<1>. QED  BY <1>1, Invariance, PTL

\* A matched pattern has bound every one of its variables.
THEOREM MatchBindsAll == Spec => []AllVarsBound
BY Invariance, PTL DEF IInv

\* After a deep wildcard, exactly the fixed segments behind it are left.
THEOREM TailExactness == Spec => []TailExact
<1>1. IInv => TailExact
  <2> SUFFICES ASSUME IInv, phase = "run",
                      NEW k \in 1..(ip - 1), prog[k].code = "OpPushM"
               PROVE  IF ip <= Len(prog)
                      THEN prog[ip].code \in {"OpPush", "OpLitPush"} => pos < Len(components)
                      ELSE pos = Len(components)
    BY DEF TailExact
  <2>1. /\ ip \in 1..(Len(prog) + 1) /\ Len(note) = Len(prog) + 1 /\ Len(prog) \in Nat
        /\ Len(components) \in Nat /\ pos \in Nat /\ tailLen \in Nat /\ note \in Seq(Note)
        /\ note[ip].deep => pos + tailLen = Len(components) + note[ip].tail
    BY DEF IInv, TypeOK, VerifierInv, RunInv
  <2>2. note[ip].deep
    <3>1. k \in 1..Len(prog) /\ ip \in (k + 1)..Len(note)
      BY <2>1
    <3>. QED  BY <3>1 DEF IInv, VerifierInv
  <2>3. CASE ip <= Len(prog)
    <3>1. /\ prog[ip].code \in {"OpPush", "OpLitPush"} => note[ip + 1].tail = note[ip].tail + 1
          /\ note[ip + 1].tail <= tailLen /\ note[ip].tail \in Nat
      <4>1. /\ Verified(prog[ip], note[ip], note[ip + 1]) /\ note[ip] \in Note
            /\ note[ip + 1].tail <= tailLen
        BY <2>3, OpFacts
      <4>2. note[ip].tail \in Nat
        BY <4>1 DEF Note
      <4>. QED  BY <2>2, <4>1, <4>2, VerifiedCases
    <3>2. pos + tailLen = Len(components) + note[ip].tail
      BY <2>1, <2>2
    <3>3. /\ Len(components) \in Nat /\ pos \in Nat /\ tailLen \in Nat
      BY <2>1
    <3>4. prog[ip].code \in {"OpPush", "OpLitPush"} => note[ip].tail + 1 <= tailLen
      BY <3>1
    <3>5. prog[ip].code \in {"OpPush", "OpLitPush"} => pos < Len(components)
      BY <3>1, <3>2, <3>3, <3>4
    <3>. QED  BY <2>3, <3>5
  <2>4. CASE ip = Len(prog) + 1
    <3>1. note[ip].tail = tailLen
      BY <2>1, <2>4 DEF IInv, VerifierInv, NoteNow
    <3>. QED  BY <2>1, <2>2, <2>4, <3>1
  <2>. QED  BY <2>1, <2>3, <2>4
<1>. QED  BY <1>1, Invariance, PTL

-----------------------------------------------------------------------------
(* Sequences: the least number principle, induction, and where FlattenSeq  *)
(* puts the elements of each of its sequences.                             *)

\* A set of naturals that is not empty has a least element.
LEMMA Least ==
  ASSUME NEW S, S \subseteq Nat, S # {}
  PROVE  \E n \in S : \A m \in S : n <= m
<1> DEFINE R == { ss \in Nat \X Nat : ss[1] < ss[2] }
<1>1. IsWellFoundedOn(R, Nat)
  BY NatLessThanWellFounded DEF OpToRel
<1>2. PICK n \in S : \A m \in S : ~(<<m, n>> \in R)
  BY <1>1, WFMin
<1>3. \A m, n_1 \in Nat : m < n_1 => <<m, n_1>> \in R
  OBVIOUS
<1>. HIDE DEF R
<1>4. \A m \in S : m \in Nat /\ n \in Nat /\ ~(m < n)
  BY <1>2, <1>3
<1>5. \A m \in S : n <= m
  BY <1>4
<1>. QED  BY <1>2, <1>5

\* Induction up to n, on a set: 1 is in it, and k + 1 whenever k is.
LEMMA Climb ==
  ASSUME NEW n \in Nat, NEW S, 1 \in S, \A k \in 1..(n - 1) : k \in S => k + 1 \in S
  PROVE  \A k \in 1..n : k \in S
<1> DEFINE Bad == (1..n) \ S
<1> SUFFICES ASSUME Bad # {} PROVE FALSE
  OBVIOUS
<1>1. PICK m \in Bad : \A k \in Bad : m <= k
  <2>1. Bad \subseteq Nat
    OBVIOUS
  <2> HIDE DEF Bad
  <2>. QED  BY Least, <2>1
<1>2. m # 1 /\ m - 1 \in 1..(n - 1)
  BY <1>1
<1>3. m - 1 \in S
  BY <1>1, <1>2
<1>4. (m - 1) + 1 \in S
  BY <1>2, <1>3
<1>. QED  BY <1>1, <1>4

\* What a concatenation is made of.
LEMMA ConcatParts ==
  ASSUME NEW S, NEW a \in Seq(S), NEW b \in Seq(S), NEW c, c = a \o b
  PROVE  /\ c \in Seq(S) /\ Len(c) = Len(a) + Len(b)
         /\ \A p \in 1..Len(a) : c[p] = a[p]
         /\ \A j \in 1..Len(b) : c[Len(a) + j] = b[j]
OBVIOUS

\* g[m] is the concatenation of the first m of the sequences.
Joins(g, seqs, n) == g = [m \in 1..n |-> IF m = 1 THEN seqs[m] ELSE g[m - 1] \o seqs[m]]

\* The joins of the first m sequences extend to the next one.
LEMMA JoinsExtends ==
  ASSUME NEW seqs, NEW m \in Nat, NEW g, Joins(g, seqs, m)
  PROVE  \E h : Joins(h, seqs, m + 1)
<1> DEFINE v == IF m + 1 = 1 THEN seqs[m + 1] ELSE g[m] \o seqs[m + 1]
           h == [k \in 1..(m + 1) |-> IF k = m + 1 THEN v ELSE g[k]]
<1>2. \A k \in 1..(m + 1) : h[k] = IF k = 1 THEN seqs[k] ELSE h[k - 1] \o seqs[k]
  <2> SUFFICES ASSUME NEW k \in 1..(m + 1)
               PROVE  h[k] = IF k = 1 THEN seqs[k] ELSE h[k - 1] \o seqs[k]
    OBVIOUS
  <2>1. CASE k = m + 1
    <3>1. k # 1 => h[k - 1] = g[k - 1] /\ k - 1 = m
      BY <2>1
    <3>. QED  BY <2>1, <3>1
  <2>2. CASE k # m + 1
    <3>1. k \in 1..m /\ h[k] = g[k]
      BY <2>2
    <3>2. k # 1 => h[k - 1] = g[k - 1]
      BY <3>1
    <3>3. g[k] = IF k = 1 THEN seqs[k] ELSE g[k - 1] \o seqs[k]
      BY <3>1 DEF Joins
    <3>. QED  BY <3>1, <3>2, <3>3
  <2>. QED  BY <2>1, <2>2
<1>3. h = [k \in 1..(m + 1) |-> h[k]]
  OBVIOUS
<1>4. Joins(h, seqs, m + 1)
  <2>. HIDE DEF h
  <2>. QED  BY <1>2, <1>3 DEF Joins
<1>. QED  BY <1>4

\* So they exist, however many sequences there are.
LEMMA JoinsExists ==
  ASSUME NEW seqs, NEW n \in Nat, n > 0
  PROVE  \E g : Joins(g, seqs, n)
<1> DEFINE S == { m \in Nat : \E g : Joins(g, seqs, m) }
<1>1. 1 \in S
  <2> DEFINE g == [m \in 1..1 |-> seqs[m]]
  <2>1. Joins(g, seqs, 1)
    <3>1. \A m \in 1..1 : seqs[m] = IF m = 1 THEN seqs[m] ELSE g[m - 1] \o seqs[m]
      OBVIOUS
    <3>. QED  BY <3>1 DEF Joins
  <2>. QED  BY <2>1
<1>2. \A k \in 1..(n - 1) : k \in S => k + 1 \in S
  BY JoinsExtends
<1>3. n \in S
  <2>. HIDE DEF S
  <2>. QED  BY Climb, <1>1, <1>2
<1>. QED  BY <1>3

\* Where each of the sequences that are flattened begins.
Offsets(off, seqs, n) ==
  /\ off \in [1..(n + 1) -> Nat] /\ off[1] = 0
  /\ \A k \in 1..n : off[k + 1] = off[k] + Len(seqs[k])

\* FlattenSeq lays its sequences one after the other.
LEMMA FlattenLaysOut ==
  ASSUME NEW S, NEW n \in Nat, NEW seqs \in [1..n -> Seq(S)]
  PROVE  \E off : /\ Offsets(off, seqs, n)
                  /\ T!FlattenSeq(seqs) \in Seq(S) /\ Len(T!FlattenSeq(seqs)) = off[n + 1]
                  /\ \A k \in 1..n : \A j \in 1..Len(seqs[k]) :
                       /\ off[k] + j \in 1..off[n + 1]
                       /\ T!FlattenSeq(seqs)[off[k] + j] = seqs[k][j]
<1>0. seqs \in Seq(Seq(S)) /\ Len(seqs) = n
  BY IsASeq
<1>1. CASE n = 0
  <2>1. T!FlattenSeq(seqs) = seqs /\ seqs = << >>
    BY <1>0, <1>1 DEF T!FlattenSeq
  <2>2. Offsets([k \in 1..1 |-> 0], seqs, 0)
    BY DEF Offsets
  <2>. QED  BY <1>1, <2>1, <2>2
<1>2. CASE n > 0
  <2> DEFINE g == CHOOSE f : Joins(f, seqs, n)
             off == [k \in 1..(n + 1) |-> IF k = 1 THEN 0 ELSE Len(g[k - 1])]
             Good(m) == /\ g[m] \in Seq(S) /\ off[m + 1] = off[m] + Len(seqs[m]) /\ off[m] \in Nat
                        /\ \A k \in 1..m : \A j \in 1..Len(seqs[k]) :
                             off[k] + j \in 1..off[m + 1] /\ g[m][off[k] + j] = seqs[k][j]
             G == { m \in 1..n : Good(m) }
  <2>1. Joins(g, seqs, n)
    BY JoinsExists, <1>2
  <2>2. T!FlattenSeq(seqs) = g[n]
    BY <1>0, <1>2 DEF T!FlattenSeq, Joins
  <2>3. /\ g[1] = seqs[1]
        /\ \A m \in 1..(n - 1) : g[m + 1] = g[m] \o seqs[m + 1]
    <3>. HIDE DEF g, off
    <3>1. \A m \in 1..n : g[m] = IF m = 1 THEN seqs[m] ELSE g[m - 1] \o seqs[m]
      BY <2>1 DEF Joins
    <3>2. 1 \in 1..n /\ \A m \in 1..(n - 1) : m + 1 \in 1..n /\ m + 1 # 1 /\ (m + 1) - 1 = m
      BY <1>2
    <3>. QED  BY <3>1, <3>2
  <2>4. off[1] = 0 /\ \A m \in 1..n : off[m + 1] = Len(g[m])
    OBVIOUS
  <2>. HIDE DEF g, off
  <2>5. 1 \in G
    BY <1>2, <2>3, <2>4
  <2>6. ASSUME NEW m \in 1..(n - 1), m \in G PROVE m + 1 \in G
    <3>0. Good(m) /\ m + 1 \in 1..n /\ m \in 1..n
      BY <2>6
    <3>1. /\ m + 1 \in 1..n /\ g[m] \in Seq(S) /\ seqs[m + 1] \in Seq(S)
          /\ off[m + 1] = Len(g[m]) /\ off[m + 1 + 1] = Len(g[m + 1])
      BY <2>3, <2>4, <3>0
    <3>2. /\ g[m + 1] \in Seq(S) /\ Len(g[m + 1]) = Len(g[m]) + Len(seqs[m + 1])
          /\ \A p \in 1..Len(g[m]) : g[m + 1][p] = g[m][p]
          /\ \A j \in 1..Len(seqs[m + 1]) : g[m + 1][Len(g[m]) + j] = seqs[m + 1][j]
      <4> DEFINE a == g[m]
                 b == seqs[m + 1]
                 c == g[m + 1]
      <4>1. c = a \o b
        BY <2>3
      <4>2. a \in Seq(S) /\ b \in Seq(S)
        BY <3>1
      <4>. HIDE DEF a, b, c
      <4>3. /\ c \in Seq(S) /\ Len(c) = Len(a) + Len(b)
            /\ \A p \in 1..Len(a) : c[p] = a[p]
            /\ \A j \in 1..Len(b) : c[Len(a) + j] = b[j]
        BY ONLY <4>1, <4>2, ConcatParts
      <4>. QED  BY ONLY <4>3 DEF a, b, c
    <3>3. Len(g[m]) \in Nat /\ Len(seqs[m + 1]) \in Nat
      BY <3>1
    <3>6. /\ off[m + 1 + 1] = off[m + 1] + Len(seqs[m + 1]) /\ off[m + 1] \in Nat
          /\ off[m + 1 + 1] \in Nat /\ Len(g[m]) <= off[m + 1 + 1]
      <4> DEFINE a == Len(g[m])
                 b == Len(seqs[m + 1])
                 x == off[m + 1]
                 y == off[m + 1 + 1]
      <4>1. x = a /\ y = Len(g[m + 1])
        BY <3>1
      <4>2. Len(g[m + 1]) = a + b /\ a \in Nat /\ b \in Nat
        BY <3>2, <3>3
      <4>. HIDE DEF a, b, x, y
      <4>3. y = x + b /\ x \in Nat /\ y \in Nat /\ a <= y
        BY ONLY <4>1, <4>2
      <4>. QED  BY ONLY <4>3 DEF a, b, x, y
    <3>4. ASSUME NEW k \in 1..m, NEW j \in 1..Len(seqs[k])
          PROVE  off[k] + j \in 1..off[m + 1 + 1] /\ g[m + 1][off[k] + j] = seqs[k][j]
      <4>1. off[k] + j \in 1..Len(g[m]) /\ g[m][off[k] + j] = seqs[k][j]
        BY <3>0, <3>1
      <4>2. off[k] + j \in 1..off[m + 1 + 1]
        BY ONLY <3>3, <3>6, <4>1
      <4>. QED  BY <3>2, <4>1, <4>2
    <3>5. ASSUME NEW j \in 1..Len(seqs[m + 1])
          PROVE  off[m + 1] + j \in 1..off[m + 1 + 1] /\ g[m + 1][off[m + 1] + j] = seqs[m + 1][j]
      <4>1. off[m + 1] + j \in 1..off[m + 1 + 1]
        BY ONLY <3>3, <3>6, j \in 1..Len(seqs[m + 1])
      <4>2. g[m + 1][Len(g[m]) + j] = seqs[m + 1][j]
        BY <3>2
      <4>. QED  BY <3>1, <4>1, <4>2
    <3>7. \A k \in 1..(m + 1) : \A j \in 1..Len(seqs[k]) :
            off[k] + j \in 1..off[m + 1 + 1] /\ g[m + 1][off[k] + j] = seqs[k][j]
      <4>1. \A k \in 1..(m + 1) : k \in 1..m \/ k = m + 1
        OBVIOUS
      <4>. QED  BY <3>4, <3>5, <4>1
    <3>. QED  BY <3>1, <3>2, <3>6, <3>7
  <2>7. \A m \in 1..n : m \in G
    <3>. HIDE DEF G
    <3>. QED  BY <2>5, <2>6, Climb
  <2>8. Good(n) /\ \A m \in 1..n : g[m] \in Seq(S) /\ off[m + 1] = off[m] + Len(seqs[m])
    <3>1. \A m \in 1..n : Good(m)
      <4>. HIDE DEF Good
      <4>. QED  BY <2>7
    <3>2. n \in 1..n
      BY <1>2
    <3>3. Good(n)
      <4>. HIDE DEF Good
      <4>. QED  BY <3>1, <3>2
    <3>4. ASSUME NEW m \in 1..n PROVE g[m] \in Seq(S) /\ off[m + 1] = off[m] + Len(seqs[m])
      BY <3>1
    <3>. QED  BY <3>3, <3>4
  <2>9. Offsets(off, seqs, n)
    <3>1. off \in [1..(n + 1) -> Nat]
      <4>1. off = [k \in 1..(n + 1) |-> IF k = 1 THEN 0 ELSE Len(g[k - 1])]
        BY DEF off
      <4>2. \A k \in 1..(n + 1) : k # 1 => k - 1 \in 1..n
        OBVIOUS
      <4>. QED  BY <2>8, <4>1, <4>2
    <3>. QED  BY <2>4, <2>8, <3>1 DEF Offsets
  <2>. QED  BY <2>2, <2>4, <2>8, <2>9, <1>2
<1>. QED  BY <1>1, <1>2

-----------------------------------------------------------------------------
(* Where a template's ops are. *)

Ends(t, k) == \E n \in 1..Len(t.vars) : t.vars[n].to = k

\* The op that atom k compiles to.
PushOf(t, k, o) ==
  /\ t.atoms[k].kind = "lit" => o.code = "OpLitPush" /\ Pool[o.operand + 1] = t.atoms[k].text
  /\ t.atoms[k].kind = "star" => o.code = "OpPush"
  /\ t.atoms[k].kind = "deep" => o.code = "OpPushM"

\* The ops of template t are laid out at off: a push for every atom, and a join
\* and a capture behind the last atom of a variable.
LaidOut(t, list, off) ==
  /\ off \in [1..(Len(t.atoms) + 1) -> Nat] /\ off[1] = 0 /\ Len(list) = off[Len(t.atoms) + 1]
  /\ \A k \in 1..Len(t.atoms) :
       /\ off[k] + 1 \in 1..Len(list) /\ PushOf(t, k, list[off[k] + 1])
       /\ ~Ends(t, k) => off[k + 1] = off[k] + 1
       /\ Ends(t, k) =>
            /\ off[k + 1] = off[k] + 3
            /\ off[k] + 2 \in 1..Len(list) /\ list[off[k] + 2].code = "OpConcatN"
            /\ \A n \in 1..Len(t.vars) : t.vars[n].to = k =>
                 list[off[k] + 2].operand = k - t.vars[n].from + 1
            /\ off[k] + 3 \in 1..Len(list) /\ list[off[k] + 3].code = "OpCapture"

\* The variables of a template are ordered, so each is known by where it ends.
LEMMA VarsOrdered ==
  ASSUME NEW t \in Templates
  PROVE  /\ Len(t.vars) \in Nat /\ Len(t.atoms) \in Nat
         /\ \A n \in 1..Len(t.vars) :
              /\ t.vars[n].from \in 1..t.vars[n].to /\ t.vars[n].to \in 1..Len(t.atoms)
              /\ t.vars[n].from \in Nat /\ t.vars[n].to \in Nat
         /\ \A n, m \in 1..Len(t.vars) :
              /\ n < m => t.vars[n].to < t.vars[m].from /\ t.vars[n].to < t.vars[m].to
              /\ t.vars[n].to = t.vars[m].to => n = m
<1>0. WellFormed(t)
  BY TemplatesAssumption
<1>1. Len(t.vars) \in Nat /\ Len(t.atoms) \in Nat
  BY <1>0 DEF WellFormed
<1>2. \A n \in 1..Len(t.vars) : t.vars[n].from \in Nat \ {0} /\ t.vars[n].to \in Nat
  <2>1. \A n \in 1..Len(t.vars) : t.vars[n] \in Variable
    BY <1>0 DEF WellFormed
  <2>. QED  BY <2>1 DEF Variable
<1>3. \A n \in 1..Len(t.vars) : t.vars[n].from <= t.vars[n].to /\ t.vars[n].to <= Len(t.atoms)
  BY <1>0 DEF WellFormed
<1>4. \A n \in 1..Len(t.vars) : \A m \in (n + 1)..Len(t.vars) : t.vars[n].to < t.vars[m].from
  BY <1>0 DEF WellFormed
<1>5. \A n \in 1..Len(t.vars) :
        /\ t.vars[n].from \in 1..t.vars[n].to /\ t.vars[n].to \in 1..Len(t.atoms)
        /\ t.vars[n].from \in Nat /\ t.vars[n].to \in Nat
  BY <1>1, <1>2, <1>3
<1>6. \A n, m \in 1..Len(t.vars) : n < m => t.vars[n].to < t.vars[m].from
  <2> SUFFICES ASSUME NEW n \in 1..Len(t.vars), NEW m \in 1..Len(t.vars), n < m
               PROVE  t.vars[n].to < t.vars[m].from
    OBVIOUS
  <2>1. m \in (n + 1)..Len(t.vars)
    BY <1>1
  <2>. QED  BY <1>4, <2>1
<1>7. \A n, m \in 1..Len(t.vars) : n < m => t.vars[n].to < t.vars[m].to
  BY <1>5, <1>6
<1>8. \A n, m \in 1..Len(t.vars) : t.vars[n].to = t.vars[m].to => n = m
  <2> SUFFICES ASSUME NEW n \in 1..Len(t.vars), NEW m \in 1..Len(t.vars),
                      t.vars[n].to = t.vars[m].to, n # m
               PROVE  FALSE
    OBVIOUS
  <2>1. n < m \/ m < n
    BY <1>1
  <2>. QED  BY <1>5, <1>7, <2>1
<1>. QED  BY <1>1, <1>5, <1>6, <1>7, <1>8

\* What the compiler emits for atom k.
LEMMA AtomOpsFacts ==
  ASSUME NEW t \in Templates, NEW k \in 1..Len(t.atoms)
  PROVE  /\ T!AtomOps(t, Pool, k) \in Seq(Op)
         /\ Len(T!AtomOps(t, Pool, k)) = (IF Ends(t, k) THEN 3 ELSE 1)
         /\ PushOf(t, k, T!AtomOps(t, Pool, k)[1])
         /\ Ends(t, k) =>
              /\ T!AtomOps(t, Pool, k)[2].code = "OpConcatN"
              /\ T!AtomOps(t, Pool, k)[3].code = "OpCapture"
              /\ \A n \in 1..Len(t.vars) : t.vars[n].to = k =>
                   T!AtomOps(t, Pool, k)[2].operand = k - t.vars[n].from + 1
<1>0. WellFormed(t)
  BY TemplatesAssumption
<1>1. \A text : (\E n \in 1..Len(Pool) : Pool[n] = text) =>
        T!PoolIndex(Pool, text) \in 1..Len(Pool) /\ Pool[T!PoolIndex(Pool, text)] = text
  BY DEF T!PoolIndex
<1>2. Len(Pool) \in Nat
  BY PoolAssumption
<1> DEFINE o == T!Push(t.atoms[k], Pool)
<1>3. t.atoms[k] \in Atom
  BY <1>0 DEF WellFormed
<1>4. o \in Op /\ PushOf(t, k, o)
  <2>1. CASE t.atoms[k].kind = "lit"
    <3>1. \E n \in 1..Len(Pool) : Pool[n] = t.atoms[k].text
      BY <1>0, <2>1 DEF WellFormed
    <3> DEFINE x == T!PoolIndex(Pool, t.atoms[k].text)
    <3>2. x \in 1..Len(Pool) /\ Pool[x] = t.atoms[k].text
      BY <1>1, <3>1
    <3>3. o = [code |-> "OpLitPush", operand |-> x - 1]
      BY <2>1 DEF T!Push
    <3>. HIDE DEF x, o
    <3>4. x - 1 \in Int /\ (x - 1) + 1 = x
      BY <1>2, <3>2
    <3>. QED  BY <2>1, <3>2, <3>3, <3>4 DEF Op, OpCodes, PushOf
  <2>2. CASE t.atoms[k].kind # "lit"
    BY <1>3, <2>2 DEF T!Push, Op, OpCodes, PushOf, Atom
  <2>. QED  BY <2>1, <2>2
<1>. HIDE DEF o
<1>5. CASE ~Ends(t, k)
  <2>1. T!AtomOps(t, Pool, k) = << o >>
    BY <1>5 DEF T!AtomOps, T!EndingAt, Ends, o
  <2>. QED  BY <1>4, <1>5, <2>1
<1>6. CASE Ends(t, k)
  <2> DEFINE n == T!Min(T!EndingAt(t, k))
             c == T!Capture(t.vars[n], Pool)
  <2>1. T!AtomOps(t, Pool, k) = << o >> \o c
    BY <1>6 DEF T!AtomOps, T!EndingAt, Ends, o
  <2>2. n \in 1..Len(t.vars) /\ t.vars[n].to = k
    <3>1. PICK m \in 1..Len(t.vars) : t.vars[m].to = k
      BY <1>6 DEF Ends
    <3>2. T!EndingAt(t, k) = {m}
      BY <3>1, VarsOrdered DEF T!EndingAt
    <3>3. T!Min({m}) = m
      BY <3>1, VarsOrdered DEF T!Min
    <3>. QED  BY <3>1, <3>2, <3>3
  <2> DEFINE x == T!PoolIndex(Pool, t.vars[n].name)
  <2>3. c = << [code |-> "OpConcatN", operand |-> t.vars[n].to - t.vars[n].from + 1],
               [code |-> "OpCapture", operand |-> x - 1] >>
    BY DEF T!Capture
  <2>4. x \in 1..Len(Pool)
    BY <1>0, <1>1, <2>2 DEF WellFormed
  <2>5. t.vars[n].from \in Nat /\ k \in Nat
    BY <2>2, VarsOrdered
  <2>6. \A m \in 1..Len(t.vars) : t.vars[m].to = k => m = n
    BY <2>2, VarsOrdered
  <2>. HIDE DEF n, c, x
  <2>7. c \in Seq(Op) /\ Len(c) = 2 /\ c[1].code = "OpConcatN" /\ c[2].code = "OpCapture"
        /\ c[1].operand = k - t.vars[n].from + 1
    BY <1>2, <2>2, <2>3, <2>4, <2>5 DEF Op, OpCodes
  <2>8. << o >> \o c \in Seq(Op) /\ Len(<< o >> \o c) = 3 /\ (<< o >> \o c)[1] = o
        /\ (<< o >> \o c)[2] = c[1] /\ (<< o >> \o c)[3] = c[2]
    <3> DEFINE a == << o >>
               d == a \o c
    <3>1. a \in Seq(Op) /\ Len(a) = 1 /\ a[1] = o
      BY <1>4
    <3>. HIDE DEF a
    <3>2. /\ d \in Seq(Op) /\ Len(d) = Len(a) + Len(c)
          /\ \A p \in 1..Len(a) : d[p] = a[p]
          /\ \A j \in 1..Len(c) : d[Len(a) + j] = c[j]
      <4>1. d = a \o c
        OBVIOUS
      <4>2. a \in Seq(Op) /\ c \in Seq(Op)
        BY <2>7, <3>1
      <4>. HIDE DEF d
      <4>. QED  BY ONLY <4>1, <4>2, ConcatParts
    <3>. HIDE DEF d
    <3>3. Len(d) = 3 /\ d[1] = o /\ d[1 + 1] = c[1] /\ d[1 + 2] = c[2] /\ d \in Seq(Op)
      BY ONLY <2>7, <3>1, <3>2
    <3>. QED  BY <3>3 DEF a, d
  <2>. QED  BY <1>4, <1>6, <2>1, <2>2, <2>6, <2>7, <2>8
<1>. QED  BY <1>5, <1>6

\* The compiled form of a template is laid out.
LEMMA CompileLaysOut ==
  ASSUME NEW t \in Templates
  PROVE  /\ \E off : LaidOut(t, Compiled[t], off)
         /\ Compiled[t] \in Seq(Op)
<1> DEFINE n == Len(t.atoms)
           seqs == [k \in 1..n |-> T!AtomOps(t, Pool, k)]
<1>1. n \in Nat
  BY VarsOrdered
<1>2. seqs \in [1..n -> Seq(Op)]
  BY AtomOpsFacts
<1>3. Compiled[t] = T!FlattenSeq(seqs)
  BY DEF Compiled, T!Compile
<1>4. \A k \in 1..n : seqs[k] = T!AtomOps(t, Pool, k)
  OBVIOUS
<1>. HIDE DEF n, seqs
<1>5. PICK off : /\ Offsets(off, seqs, n)
                 /\ T!FlattenSeq(seqs) \in Seq(Op) /\ Len(T!FlattenSeq(seqs)) = off[n + 1]
                 /\ \A k \in 1..n : \A j \in 1..Len(seqs[k]) :
                      /\ off[k] + j \in 1..off[n + 1]
                      /\ T!FlattenSeq(seqs)[off[k] + j] = seqs[k][j]
  BY <1>1, <1>2, FlattenLaysOut
<1>6. off \in [1..(n + 1) -> Nat] /\ off[1] = 0 /\ Len(Compiled[t]) = off[n + 1]
  BY <1>3, <1>5 DEF Offsets
<1>7. ASSUME NEW k \in 1..n
      PROVE  /\ off[k] + 1 \in 1..Len(Compiled[t]) /\ PushOf(t, k, Compiled[t][off[k] + 1])
             /\ ~Ends(t, k) => off[k + 1] = off[k] + 1
             /\ Ends(t, k) =>
                  /\ off[k + 1] = off[k] + 3
                  /\ off[k] + 2 \in 1..Len(Compiled[t]) /\ Compiled[t][off[k] + 2].code = "OpConcatN"
                  /\ \A m \in 1..Len(t.vars) : t.vars[m].to = k =>
                       Compiled[t][off[k] + 2].operand = k - t.vars[m].from + 1
                  /\ off[k] + 3 \in 1..Len(Compiled[t]) /\ Compiled[t][off[k] + 3].code = "OpCapture"
  <2>1. /\ off[k + 1] = off[k] + Len(seqs[k])
        /\ \A j \in 1..Len(seqs[k]) : off[k] + j \in 1..off[n + 1] /\ Compiled[t][off[k] + j] = seqs[k][j]
    BY <1>3, <1>5 DEF Offsets
  <2>2. /\ Len(seqs[k]) = (IF Ends(t, k) THEN 3 ELSE 1) /\ PushOf(t, k, seqs[k][1])
        /\ Ends(t, k) =>
             /\ seqs[k][2].code = "OpConcatN" /\ seqs[k][3].code = "OpCapture"
             /\ \A m \in 1..Len(t.vars) : t.vars[m].to = k =>
                  seqs[k][2].operand = k - t.vars[m].from + 1
    BY <1>4, AtomOpsFacts DEF n
  <2>3. 1 \in 1..Len(seqs[k]) /\ (Ends(t, k) => 2 \in 1..Len(seqs[k]) /\ 3 \in 1..Len(seqs[k]))
    BY <2>2
  <2>. QED  BY <1>6, <2>1, <2>2, <2>3
<1>. QED  BY <1>3, <1>5, <1>6, <1>7 DEF LaidOut, n

Off(t) == CHOOSE off : LaidOut(t, Compiled[t], off)

\* What is left of the definition in the program: every op of a compiled
\* template, in place; only the operands of captures are rewritten.
Kept ==
  /\ phase \notin {"compile", "rejected"} => i = Len(ops) + 1
  /\ Sources # {} =>
       /\ Len(prog) = i - 1
       /\ \A p \in 1..Len(prog) :
            /\ prog[p].code = ops[p].code
            /\ ops[p].code # "OpCapture" => prog[p].operand = ops[p].operand

\* Off(t) is where the ops of the template are.
LEMMA OffLaysOut ==
  ASSUME NEW t \in Templates
  PROVE  LaidOut(t, Compiled[t], Off(t)) /\ Compiled[t] \in Seq(Op)
BY CompileLaysOut DEF Off

\* Every op of a compiled template is the push, the join or the capture of an atom.
LEMMA OpsCovered ==
  ASSUME NEW t \in Templates, NEW p \in 1..Len(Compiled[t])
  PROVE  \E k \in 1..Len(t.atoms) :
           \/ p = Off(t)[k] + 1
           \/ Ends(t, k) /\ p \in {Off(t)[k] + 2, Off(t)[k] + 3}
<1> DEFINE n == Len(t.atoms)
           off == Off(t)
           S == { k \in 1..n : p <= off[k + 1] }
<1>1. /\ n \in Nat /\ off \in [1..(n + 1) -> Nat] /\ off[1] = 0 /\ Len(Compiled[t]) = off[n + 1]
      /\ \A k \in 1..n : IF Ends(t, k) THEN off[k + 1] = off[k] + 3 ELSE off[k + 1] = off[k] + 1
  BY OffLaysOut, VarsOrdered DEF LaidOut
<1>. HIDE DEF n, off
<1>2. n \in S
  <2>1. n # 0
    BY <1>1
  <2>. QED  BY <1>1, <2>1
<1>3. PICK k \in S : \A m \in S : k <= m
  <2>1. S \subseteq Nat /\ S # {}
    BY <1>2
  <2>. HIDE DEF S
  <2>. QED  BY <2>1, Least
<1>4. off[k] < p
  <2>1. CASE k = 1
    BY <1>1, <2>1
  <2>2. CASE k # 1
    <3>0. k \in 1..n /\ k \in Nat
      BY <1>3
    <3>1. k - 1 \in 1..n /\ k - 1 \notin S
      <4>1. k - 1 \in 1..n /\ ~(k <= k - 1)
        BY <1>1, <3>0, <2>2
      <4>. HIDE DEF S
      <4>. QED  BY <1>3, <4>1
    <3>2. ~(p <= off[(k - 1) + 1]) /\ (k - 1) + 1 = k
      BY <3>1
    <3>3. off[k] \in Nat
      BY <1>1
    <3>. QED  BY <3>2, <3>3
  <2>. QED  BY <2>1, <2>2
<1>5. p <= off[k + 1] /\ k \in 1..n /\ off[k] \in Nat /\ off[k + 1] \in Nat
  BY <1>1, <1>3
<1>6. CASE Ends(t, k)
  BY <1>1, <1>4, <1>5, <1>6 DEF n, off
<1>7. CASE ~Ends(t, k)
  BY <1>1, <1>4, <1>5, <1>7 DEF n, off
<1>. QED  BY <1>6, <1>7

\* An atom is a literal, a * or a **.
LEMMA AtomKinds ==
  ASSUME NEW t \in Templates, NEW k \in 1..Len(t.atoms)
  PROVE  t.atoms[k].kind \in {"lit", "star", "deep"} /\ t.atoms[k].text \in Comp
<1>1. t.atoms[k] \in Atom
  BY TemplatesAssumption DEF WellFormed
<1>. QED  BY <1>1 DEF Atom

\* The compiler emits no OpNop, so no op is dropped and positions are kept.
LEMMA NoNops ==
  ASSUME NEW t \in Templates, NEW p \in 1..Len(Compiled[t])
  PROVE  Compiled[t][p].code # "OpNop"
<1>1. PICK k \in 1..Len(t.atoms) :
        \/ p = Off(t)[k] + 1
        \/ Ends(t, k) /\ p \in {Off(t)[k] + 2, Off(t)[k] + 3}
  BY OpsCovered
<1>2. LaidOut(t, Compiled[t], Off(t))
  BY OffLaysOut
<1>3. t.atoms[k].kind \in {"lit", "star", "deep"}
  BY AtomKinds
<1>. QED  BY <1>1, <1>2, <1>3 DEF LaidOut, PushOf

-----------------------------------------------------------------------------
\* Nothing is kept yet of the definition.
LEMMA InitKept == Init => Kept
BY DEF Init, Kept

\* Keeping op i extends the program by it.
LEMMA KeepKept ==
  ASSUME IInv, Kept, phase = "compile", i <= Len(ops), NEW op,
         NEW d, NEW u, NEW b, NEW vs, Keep(op, d, u, b, vs),
         op.code = ops[i].code, ops[i].code # "OpCapture" => op.operand = ops[i].operand
  PROVE  Kept'
<1>1. /\ prog' = Append(prog, op) /\ i' = i + 1 /\ ops' = ops /\ phase' = phase /\ verb' = verb
      /\ Len(prog) \in Nat /\ prog \in Seq(Op) /\ i \in Nat
  BY DEF Keep, IInv, TypeOK
<1>2. /\ Len(prog') = Len(prog) + 1 /\ prog'[Len(prog) + 1] = op
      /\ \A p \in 1..Len(prog) : prog'[p] = prog[p]
  BY <1>1
<1>3. Sources' = Sources
  BY <1>1 DEF Sources
<1>4. ASSUME Sources # {}
      PROVE  /\ Len(prog') = i' - 1
             /\ \A p \in 1..Len(prog') :
                  /\ prog'[p].code = ops[p].code
                  /\ ops[p].code # "OpCapture" => prog'[p].operand = ops[p].operand
  <2>1. /\ Len(prog) = i - 1
        /\ \A p \in 1..Len(prog) :
             /\ prog[p].code = ops[p].code
             /\ ops[p].code # "OpCapture" => prog[p].operand = ops[p].operand
    BY <1>4 DEF Kept
  <2>2. \A p \in 1..Len(prog') : p \in 1..Len(prog) \/ p = i
    BY <1>1, <1>2, <2>1
  <2>3. prog'[i] = op /\ i' - 1 = i /\ Len(prog') = i
    BY <1>1, <1>2, <2>1
  <2>. QED  BY <1>2, <2>1, <2>2, <2>3
<1>. QED  BY <1>1, <1>3, <1>4 DEF Kept

\* NewPattern keeps the ops of a compiled template as they are.
LEMMA CompileKept == IInv /\ Kept /\ Compile => Kept'
<1> SUFFICES ASSUME IInv, Kept, Compile PROVE Kept'
  OBVIOUS
<1>1. CASE CompileNop
  <2>1. /\ phase = "compile" /\ i <= Len(ops) /\ ops[i].code = "OpNop"
        /\ phase' = phase /\ ops' = ops /\ verb' = verb
    BY <1>1 DEF CompileNop, Compiling
  <2>2. Sources = {}
    <3> SUFFICES ASSUME NEW t \in Templates, Compiled[t] = ops PROVE FALSE
      BY DEF Sources
    <3>1. i \in 1..Len(ops)
      BY <2>1 DEF IInv, TypeOK
    <3>. QED  BY <2>1, <3>1, NoNops
  <2>3. Sources' = Sources
    BY <2>1 DEF Sources
  <2>. QED  BY <2>1, <2>2, <2>3 DEF Kept
<1>2. CASE CompilePush \/ CompilePushM \/ CompileLitPush \/ CompileConcatN
  <2>1. /\ phase = "compile" /\ i <= Len(ops)
        /\ \E d, u, b, vs : Keep(ops[i], d, u, b, vs)
    BY <1>2 DEF CompilePush, CompilePushM, CompileLitPush, CompileConcatN, Compiling
  <2>. QED  BY <2>1, KeepKept
<1>3. CASE CompileCapture
  <2> DEFINE op == [code |-> "OpCapture", operand |-> Len(vars)]
  <2>1. /\ phase = "compile" /\ i <= Len(ops) /\ ops[i].code = "OpCapture" /\ op.code = "OpCapture"
        /\ \E d, u, b, vs : Keep(op, d, u, b, vs)
    BY <1>3 DEF CompileCapture, Compiling
  <2>. HIDE DEF op
  <2>. QED  BY <2>1, KeepKept
<1>4. CASE CompileReject \/ CompileDone
  <2>1. /\ UNCHANGED compileVars
        /\ \/ phase' = "rejected"
           \/ i > Len(ops)
    BY <1>4 DEF CompileReject, CompileDone
  <2>2. i > Len(ops) => i = Len(ops) + 1
    <3>1. i \in 1..(Len(ops) + 1) /\ Len(ops) \in Nat
      BY DEF IInv, TypeOK
    <3>. QED  BY <3>1
  <2>3. Sources' = Sources
    BY <2>1 DEF Sources, compileVars
  <2>. QED  BY <2>1, <2>2, <2>3 DEF Kept, compileVars
<1>. QED  BY <1>1, <1>2, <1>3, <1>4 DEF Compile

\* Once NewPattern has accepted the definition, nothing of it changes.
LEMMA StableKept ==
  ASSUME Kept, phase \notin {"compile", "rejected"}, UNCHANGED compileVars
  PROVE  Kept' /\ Sources' = Sources
BY DEF Kept, Sources, compileVars

-----------------------------------------------------------------------------
\* An accepted pattern.
Accepted == IInv /\ Kept /\ phase \notin {"compile", "rejected"}

\* The program at the op of a template's compiled form.
LEMMA ProgAt ==
  ASSUME Accepted, NEW t \in Sources
  PROVE  /\ t \in Templates /\ Compiled[t] = ops /\ LaidOut(t, ops, Off(t))
         /\ Len(prog) = Len(ops) /\ Len(note) = Len(prog) + 1
         /\ \A p \in 1..Len(ops) :
              /\ prog[p].code = ops[p].code
              /\ ops[p].code # "OpCapture" => prog[p].operand = ops[p].operand
              /\ Verified(prog[p], note[p], note[p + 1])
              /\ note[p] \in Note /\ note[p + 1] \in Note
<1>1. t \in Templates /\ Compiled[t] = ops
  BY DEF Sources
<1>2. LaidOut(t, ops, Off(t))
  BY <1>1, OffLaysOut
<1>3. Len(ops) \in Nat /\ note \in Seq(Note) /\ Len(note) = Len(prog) + 1 /\ Len(prog) \in Nat
  BY DEF Accepted, IInv, TypeOK, VerifierInv
<1>4. /\ i = Len(ops) + 1 /\ Len(prog) = i - 1
      /\ \A p \in 1..Len(prog) :
           /\ prog[p].code = ops[p].code
           /\ ops[p].code # "OpCapture" => prog[p].operand = ops[p].operand
  BY DEF Accepted, Kept
<1>5. Len(prog) = Len(ops)
  BY <1>3, <1>4
<1>6. \A p \in 1..Len(ops) : /\ Verified(prog[p], note[p], note[p + 1])
                             /\ p \in 1..Len(note) /\ p + 1 \in 1..Len(note)
  BY <1>3, <1>5 DEF Accepted, IInv, VerifierInv
<1>7. \A p \in 1..Len(ops) : note[p] \in Note /\ note[p + 1] \in Note
  BY <1>3, <1>6
<1>. QED  BY <1>1, <1>2, <1>3, <1>4, <1>5, <1>6, <1>7

\* What a verified op does to the notes.
LEMMA VerifiedPush ==
  ASSUME NEW o, NEW a, NEW b, Verified(o, a, b), o.code = "OpPush" \/ o.code = "OpLitPush"
  PROVE  b.deep = a.deep /\ b.caps = a.caps /\ b.tail = IF a.deep THEN a.tail + 1 ELSE a.tail
BY DEF Verified

\* What a verified join does to the notes.
LEMMA VerifiedConcatN ==
  ASSUME NEW o, NEW a, NEW b, Verified(o, a, b), o.code = "OpConcatN"
  PROVE  b.deep = a.deep /\ b.caps = a.caps /\ b.tail = a.tail
BY DEF Verified

\* What a verified capture does to the notes.
LEMMA VerifiedCapture ==
  ASSUME NEW o, NEW a, NEW b, Verified(o, a, b), o.code = "OpCapture"
  PROVE  b.deep = a.deep /\ b.caps = a.caps + 1 /\ b.tail = a.tail /\ o.operand = a.caps
BY DEF Verified

\* DeepAt is the position of the ** of a template, 0 when it has none.
LEMMA DeepFacts ==
  ASSUME NEW t \in Templates
  PROVE  /\ T!DeepAt(t) \in 0..Len(t.atoms) /\ T!DeepAt(t) \in Nat
         /\ \A k \in 1..Len(t.atoms) : t.atoms[k].kind = "deep" <=> k = T!DeepAt(t)
         /\ \A k \in 1..Len(t.atoms) : t.atoms[k].kind \in {"lit", "star", "deep"}
<1>0. /\ Len(t.atoms) \in Nat
      /\ \A k, m \in 1..Len(t.atoms) :
           t.atoms[k].kind = "deep" /\ t.atoms[m].kind = "deep" => k = m
      /\ \A k \in 1..Len(t.atoms) : t.atoms[k].kind \in {"lit", "star", "deep"}
  BY TemplatesAssumption, VarsOrdered, AtomKinds DEF WellFormed
<1> DEFINE I == { k \in 1..Len(t.atoms) : t.atoms[k].kind = "deep" }
<1>1. T!DeepAt(t) = IF I # {} THEN T!Min(I) ELSE 0
  BY DEF T!DeepAt, T!IsDeep, T!SelectInSeq
<1>2. \A k, m \in I : k = m
  BY <1>0
<1>3. CASE I = {}
  BY <1>0, <1>1, <1>3
<1>4. CASE I # {}
  <2>1. PICK d \in I : TRUE
    BY <1>4
  <2>2. I = {d} /\ d \in Nat /\ d \in 1..Len(t.atoms)
    BY <1>0, <1>2, <2>1
  <2>3. T!Min({d}) = d
    BY <2>2 DEF T!Min
  <2>4. T!DeepAt(t) = d
    BY <1>1, <2>2, <2>3
  <2>5. \A k \in 1..Len(t.atoms) : t.atoms[k].kind = "deep" <=> k = d
    BY <2>2
  <2>. QED  BY <1>0, <2>2, <2>4, <2>5
<1>. QED  BY <1>3, <1>4

\* What the verifier knows in front of atom k: whether the ** is behind, how many
\* atoms follow it so far, and how many variables have ended.
NoteAt(t, k, a) ==
  /\ a.deep <=> T!DeepAt(t) \in 1..(k - 1)
  /\ a.tail = IF T!DeepAt(t) \in 1..(k - 1) THEN k - 1 - T!DeepAt(t) ELSE 0
  /\ a.caps \in 0..Len(t.vars)
  /\ \A m \in 1..Len(t.vars) : m <= a.caps <=> t.vars[m].to < k

\* The push of an atom moves the notes by one atom, the variables aside.
LEMMA NotePush ==
  ASSUME Accepted, NEW t \in Sources, NEW k \in 1..Len(t.atoms), NEW a, NoteAt(t, k, a),
         a = note[Off(t)[k] + 1]
  PROVE  LET b == note[Off(t)[k] + 2]
         IN  /\ b.deep <=> T!DeepAt(t) \in 1..k
             /\ b.tail = IF T!DeepAt(t) \in 1..k THEN k - T!DeepAt(t) ELSE 0
             /\ b.caps = a.caps
<1> DEFINE off == Off(t)[k]
           b == note[off + 2]
           D == T!DeepAt(t)
<1>1. t \in Templates
  BY ProgAt
<1>2. off + 1 \in 1..Len(ops) /\ PushOf(t, k, ops[off + 1]) /\ off \in Nat
  <2>1. /\ LaidOut(t, ops, Off(t)) /\ Len(t.atoms) \in Nat /\ k \in 1..(Len(t.atoms) + 1)
    BY <1>1, ProgAt, VarsOrdered
  <2>. QED  BY <2>1 DEF LaidOut
<1>3. /\ prog[off + 1].code = ops[off + 1].code
      /\ Verified(prog[off + 1], note[off + 1], note[(off + 1) + 1])
      /\ note[off + 1] \in Note
  BY <1>2, ProgAt
<1>4. (off + 1) + 1 = off + 2 /\ a = note[off + 1]
  BY <1>2
<1>5. k \in Nat /\ D \in Nat /\ (t.atoms[k].kind = "deep" <=> k = D)
      /\ t.atoms[k].kind \in {"lit", "star", "deep"}
  BY <1>1, DeepFacts, VarsOrdered
<1>. HIDE DEF off, b, D
<1>6. Verified(prog[off + 1], a, b)
  BY <1>3, <1>4 DEF b
<1>7. a.deep \in BOOLEAN /\ a.tail \in Nat
  BY <1>3, <1>4 DEF Note
<1>8. CASE k = D
  <2>1. prog[off + 1].code = "OpPushM"
    BY <1>2, <1>3, <1>5, <1>8 DEF PushOf
  <2>2. b.deep = TRUE /\ ~a.deep /\ b.caps = a.caps /\ b.tail = a.tail
    BY <1>6, <2>1 DEF Verified
  <2>3. a.tail = 0
    BY <1>5, <1>8 DEF NoteAt, D
  <2>. QED  BY <1>5, <1>8, <2>2, <2>3 DEF off, b, D
<1>9. CASE k # D
  <2>1. prog[off + 1].code = "OpPush" \/ prog[off + 1].code = "OpLitPush"
    BY <1>2, <1>3, <1>5, <1>9 DEF PushOf
  <2>2. b.deep = a.deep /\ b.caps = a.caps /\ b.tail = IF a.deep THEN a.tail + 1 ELSE a.tail
    BY <1>6, <2>1, VerifiedPush
  <2>3. D \in 1..(k - 1) <=> D \in 1..k
    BY <1>5, <1>9
  <2>4. a.deep <=> D \in 1..(k - 1)
    BY DEF NoteAt, D
  <2>5. a.tail = IF D \in 1..(k - 1) THEN k - 1 - D ELSE 0
    BY DEF NoteAt, D
  <2>6. CASE D \in 1..k
    BY <1>5, <2>2, <2>3, <2>4, <2>5, <2>6 DEF off, b, D
  <2>7. CASE D \notin 1..k
    BY <1>5, <2>2, <2>3, <2>4, <2>5, <2>7 DEF off, b, D
  <2>. QED  BY <2>6, <2>7
<1>. QED  BY <1>8, <1>9

\* Where a variable ends, the next slot to capture into is its own.
LEMMA NextVariable ==
  ASSUME NEW t \in Templates, NEW k \in 1..Len(t.atoms), NEW v \in 1..Len(t.vars),
         t.vars[v].to = k, NEW a, NoteAt(t, k, a)
  PROVE  v = a.caps + 1 /\ \A m \in 1..Len(t.vars) : m <= a.caps + 1 <=> t.vars[m].to < k + 1
<1>1. /\ \A n \in 1..Len(t.vars) : t.vars[n].to \in Nat
      /\ \A n, m \in 1..Len(t.vars) : n < m => t.vars[n].to < t.vars[m].to
      /\ Len(t.vars) \in Nat /\ k \in Nat
  BY VarsOrdered
<1>2. /\ a.caps \in 0..Len(t.vars)
      /\ \A m \in 1..Len(t.vars) : m <= a.caps <=> t.vars[m].to < k
  BY DEF NoteAt
<1>3. ~(v <= a.caps)
  BY <1>1, <1>2
<1>4. v = a.caps + 1
  <2> SUFFICES ASSUME v # a.caps + 1 PROVE FALSE
    OBVIOUS
  <2>1. v - 1 \in 1..Len(t.vars) /\ v - 1 < v /\ ~(v - 1 <= a.caps)
    BY <1>1, <1>2, <1>3
  <2>. QED  BY <1>1, <1>2, <2>1
<1>5. ASSUME NEW m \in 1..Len(t.vars) PROVE m <= a.caps + 1 <=> t.vars[m].to < k + 1
  <2>1. CASE m <= a.caps
    BY <1>1, <1>2, <2>1
  <2>2. CASE m = v
    BY <1>1, <1>4, <2>2
  <2>3. CASE m > v
    <3>1. t.vars[v].to < t.vars[m].to
      BY <1>1, <2>3
    <3>. QED  BY <1>1, <1>2, <1>4, <2>3, <3>1
  <2>. QED  BY <1>1, <1>2, <1>4, <2>1, <2>2, <2>3
<1>. QED  BY <1>4, <1>5

\* What the verifier knows in front of every atom, by induction on the atoms.
LEMMA NotesAtAtoms ==
  ASSUME Accepted, NEW t \in Sources
  PROVE  \A k \in 1..(Len(t.atoms) + 1) : NoteAt(t, k, note[Off(t)[k] + 1])
<1> DEFINE n == Len(t.atoms)
           off == Off(t)
           S == { k \in 1..(n + 1) : NoteAt(t, k, note[off[k] + 1]) }
<1>1. /\ t \in Templates /\ n \in Nat /\ n + 1 \in Nat /\ LaidOut(t, ops, off)
      /\ off \in [1..(n + 1) -> Nat] /\ off[1] = 0 /\ Len(t.vars) \in Nat
  BY ProgAt, VarsOrdered DEF LaidOut
<1>2. 1 \in S
  <2>1. note[1] = [depth |-> 0, tail |-> 0, deep |-> FALSE, caps |-> 0]
    BY DEF Accepted, IInv, VerifierInv
  <2>2. NoteAt(t, 1, note[1])
    <3>1. \A m \in 1..Len(t.vars) : t.vars[m].to \in Nat /\ t.vars[m].to >= 1 /\ m >= 1
      BY <1>1, VarsOrdered
    <3>2. 1..(1 - 1) = {}
      OBVIOUS
    <3>. QED  BY <1>1, <2>1, <3>1, <3>2 DEF NoteAt
  <2>3. 1 \in 1..(n + 1) /\ off[1] + 1 = 1
    BY <1>1
  <2>. QED  BY <2>2, <2>3
<1>3. ASSUME NEW k \in 1..((n + 1) - 1), k \in S PROVE k + 1 \in S
  <2> DEFINE a == note[off[k] + 1]
             b == note[off[k] + 2]
  <2>1. k \in 1..n /\ k \in Nat /\ k + 1 \in 1..(n + 1) /\ off[k] \in Nat /\ (k + 1) - 1 = k
    BY <1>1
  <2>2. NoteAt(t, k, a)
    BY <1>3
  <2>3. /\ b.deep <=> T!DeepAt(t) \in 1..k
        /\ b.tail = IF T!DeepAt(t) \in 1..k THEN k - T!DeepAt(t) ELSE 0
        /\ b.caps = a.caps
    BY <2>1, <2>2, NotePush
  <2>4. CASE ~Ends(t, k)
    <3>1. off[k + 1] + 1 = off[k] + 2
      BY <1>1, <2>1, <2>4 DEF LaidOut
    <3>2. a.caps \in 0..Len(t.vars) /\ \A m \in 1..Len(t.vars) : m <= a.caps <=> t.vars[m].to < k
      BY <2>2 DEF NoteAt
    <3>3. \A m \in 1..Len(t.vars) : t.vars[m].to < k <=> t.vars[m].to < k + 1
      BY <1>1, <2>1, <2>4, VarsOrdered DEF Ends
    <3>4. NoteAt(t, k + 1, b)
      <4>. HIDE DEF a, b
      <4>. QED  BY <2>1, <2>3, <3>2, <3>3 DEF NoteAt
    <3>. QED  BY <2>1, <3>1, <3>4
  <2>5. CASE Ends(t, k)
    <3>1. PICK v \in 1..Len(t.vars) : t.vars[v].to = k
      BY <2>5 DEF Ends
    <3>2. v = a.caps + 1 /\ \A m \in 1..Len(t.vars) : m <= a.caps + 1 <=> t.vars[m].to < k + 1
      BY <1>1, <2>1, <2>2, <3>1, NextVariable
    <3> DEFINE c == note[off[k] + 3]
               d == note[off[k] + 4]
    <3>3. /\ off[k + 1] = off[k] + 3
          /\ off[k] + 2 \in 1..Len(ops) /\ ops[off[k] + 2].code = "OpConcatN"
          /\ off[k] + 3 \in 1..Len(ops) /\ ops[off[k] + 3].code = "OpCapture"
      BY <1>1, <2>1, <2>5 DEF LaidOut
    <3>4. Verified(prog[off[k] + 2], b, c) /\ prog[off[k] + 2].code = "OpConcatN"
      <4>1. (off[k] + 2) + 1 = off[k] + 3
        BY <2>1
      <4>. QED  BY <3>3, <4>1, ProgAt
    <3>5. Verified(prog[off[k] + 3], c, d) /\ prog[off[k] + 3].code = "OpCapture"
      <4>1. (off[k] + 3) + 1 = off[k] + 4
        BY <2>1
      <4>. QED  BY <3>3, <4>1, ProgAt
    <3>. HIDE DEF a, b, c, d
    <3>6. c.deep = b.deep /\ c.caps = b.caps /\ c.tail = b.tail
      BY <3>4, VerifiedConcatN
    <3>7. d.deep = c.deep /\ d.caps = c.caps + 1 /\ d.tail = c.tail
      BY <3>5, VerifiedCapture
    <3>8. NoteAt(t, k + 1, d)
      BY <2>1, <2>3, <3>1, <3>2, <3>6, <3>7 DEF NoteAt
    <3>9. off[k + 1] + 1 = off[k] + 4
      BY <2>1, <3>3
    <3>. QED  BY <2>1, <3>8, <3>9 DEF d
  <2>. QED  BY <2>4, <2>5
<1>4. \A k \in 1..(n + 1) : k \in S
  <2>. HIDE DEF S
  <2>. QED  BY <1>1, <1>2, <1>3, Climb
<1>. QED  BY <1>4

\* What NewPattern returns with a template's op codes: as many variables as the
\* template has, and the number of atoms behind its **.
LEMMA PatternFacts ==
  ASSUME Accepted, NEW t \in Sources
  PROVE  /\ Len(vars) = Len(t.vars)
         /\ tailLen = IF T!DeepAt(t) # 0 THEN Len(t.atoms) - T!DeepAt(t) ELSE 0
         /\ Len(prog) = Off(t)[Len(t.atoms) + 1]
<1> DEFINE n == Len(t.atoms)
           a == note[Off(t)[n + 1] + 1]
<1>1. /\ t \in Templates /\ n \in Nat /\ LaidOut(t, ops, Off(t))
      /\ Len(prog) = Len(ops) /\ Len(note) = Len(prog) + 1 /\ Len(vars) \in Nat
  BY ProgAt, VarsOrdered DEF Accepted, IInv, TypeOK
<1>2. Len(prog) = Off(t)[n + 1]
  BY <1>1 DEF LaidOut
<1>3. a = NoteNow
  BY <1>1, <1>2 DEF Accepted, IInv, VerifierInv
<1>4. a.caps = Len(vars) /\ a.tail = tailLen
  BY <1>3 DEF NoteNow
<1>5. NoteAt(t, n + 1, a)
  BY <1>1, NotesAtAtoms
<1>. HIDE DEF n, a
<1>6. a.caps \in 0..Len(t.vars) /\ \A m \in 1..Len(t.vars) : m <= a.caps <=> t.vars[m].to < n + 1
  BY <1>5 DEF NoteAt
<1>7. \A m \in 1..Len(t.vars) : t.vars[m].to < n + 1
  BY <1>1, VarsOrdered DEF n
<1>8. a.caps = Len(t.vars)
  <2>1. Len(t.vars) \in Nat
    BY <1>1, VarsOrdered
  <2>. QED  BY <1>6, <1>7, <2>1
<1>9. a.tail = IF T!DeepAt(t) # 0 THEN n - T!DeepAt(t) ELSE 0
  <2>1. T!DeepAt(t) \in 0..n /\ (n + 1) - 1 = n
    BY <1>1, DeepFacts DEF n
  <2>2. T!DeepAt(t) \in 1..((n + 1) - 1) <=> T!DeepAt(t) # 0
    BY <1>1, <2>1
  <2>. QED  BY <1>5, <2>1, <2>2 DEF NoteAt
<1>. QED  BY <1>2, <1>4, <1>8, <1>9 DEF n

-----------------------------------------------------------------------------
(* Where the machine is in a template. *)

Matched(t, path, k) == T!AtomResult(t, path, k, BadOne, BadMulti) = "matched"

\* The atoms in front of k have matched, and have consumed q components.
Reached(t, path, k, q) ==
  /\ q = T!First(t, path, k) - 1
  /\ \A m \in 1..(k - 1) : Matched(t, path, m)

\* The variables that end in front of atom k are captured.
Holding(t, path, k, cap) ==
  \A n \in 1..Len(t.vars) : t.vars[n].to < k => Text(cap[n]) = BoundTo(t, path, t.vars[n])

\* The top of the stack holds, one cell each, the atoms in front of k since the
\* last variable that ended in front of atom e.
Cells(t, path, k, e, st) ==
  \A m \in 1..(k - 1) :
    (\A n \in 1..Len(t.vars) : ~(m <= t.vars[n].to /\ t.vars[n].to < e)) =>
      /\ Len(st) > k - 1 - m
      /\ Text(st[Len(st) - (k - 1 - m)]) = AtomPieces(t, path, m)

InFront(t, path, k, q, st, cap) ==
  Reached(t, path, k, q) /\ Holding(t, path, k, cap) /\ Cells(t, path, k, k, st)

Behind(t, path, k, q, st, cap) ==
  /\ Ends(t, k)
  /\ Reached(t, path, k + 1, q) /\ Holding(t, path, k, cap) /\ Cells(t, path, k + 1, k, st)

Joined(t, path, k, q, st, cap) ==
  /\ Ends(t, k)
  /\ Reached(t, path, k + 1, q) /\ Holding(t, path, k, cap)
  /\ Len(st) > 0
  /\ \A n \in 1..Len(t.vars) : t.vars[n].to = k => Text(st[Len(st)]) = BoundTo(t, path, t.vars[n])

\* Where the machine is in template t when op x is next.
Staged(t, path, x, q, st, cap) ==
  \/ \E k \in 1..(Len(t.atoms) + 1) : x = Off(t)[k] + 1 /\ InFront(t, path, k, q, st, cap)
  \/ \E k \in 1..Len(t.atoms) : x = Off(t)[k] + 2 /\ Behind(t, path, k, q, st, cap)
  \/ \E k \in 1..Len(t.atoms) : x = Off(t)[k] + 3 /\ Joined(t, path, k, q, st, cap)

\* Where the ops of atom k are.
LEMMA Places ==
  ASSUME NEW t \in Templates, NEW k \in 1..Len(t.atoms)
  PROVE  /\ Off(t)[k] \in Nat /\ k \in Nat /\ k + 1 \in 1..(Len(t.atoms) + 1)
         /\ Off(t)[k + 1] \in Nat
         /\ Off(t)[k + 1] = IF Ends(t, k) THEN Off(t)[k] + 3 ELSE Off(t)[k] + 1
<1>1. LaidOut(t, Compiled[t], Off(t)) /\ Len(t.atoms) \in Nat
  BY OffLaysOut, VarsOrdered
<1>2. k \in 1..(Len(t.atoms) + 1) /\ k + 1 \in 1..(Len(t.atoms) + 1) /\ k \in Nat
  BY <1>1
<1>3. /\ Off(t) \in [1..(Len(t.atoms) + 1) -> Nat]
      /\ Ends(t, k) => Off(t)[k + 1] = Off(t)[k] + 3
      /\ ~Ends(t, k) => Off(t)[k + 1] = Off(t)[k] + 1
  BY <1>1 DEF LaidOut
<1>. QED  BY <1>2, <1>3

\* The push of an atom that matches takes the machine behind the atom.
LEMMA PushStage ==
  ASSUME NEW t \in Templates, NEW k \in 1..Len(t.atoms), NEW path, NEW q, NEW cap,
         NEW st \in Seq(SUBSET Piece), NEW cell \in SUBSET Piece, NEW q2,
         InFront(t, path, k, q, st, cap),
         Matched(t, path, k), Text(cell) = AtomPieces(t, path, k),
         q2 = T!First(t, path, k + 1) - 1
  PROVE  Staged(t, path, Off(t)[k] + 2, q2, Append(st, cell), cap)
<1> DEFINE new == Append(st, cell)
<1>0. /\ k \in Nat /\ Off(t)[k] \in Nat /\ k + 1 \in 1..(Len(t.atoms) + 1) /\ (k + 1) - 1 = k
      /\ ~Ends(t, k) => Off(t)[k + 1] = Off(t)[k] + 1
      /\ Len(t.vars) \in Nat /\ \A n \in 1..Len(t.vars) : t.vars[n].to \in Nat
  BY Places, VarsOrdered
<1>1. /\ Len(st) \in Nat /\ Len(new) = Len(st) + 1 /\ new[Len(st) + 1] = cell
      /\ \A p \in 1..Len(st) : new[p] = st[p]
  OBVIOUS
<1>. HIDE DEF new
<1>2. Reached(t, path, k + 1, q2)
  BY <1>0 DEF InFront, Reached
<1>3. Cells(t, path, k + 1, k, new)
  <2> SUFFICES ASSUME NEW m \in 1..k,
                      \A n \in 1..Len(t.vars) : ~(m <= t.vars[n].to /\ t.vars[n].to < k)
               PROVE  Len(new) > k - m /\ Text(new[Len(new) - (k - m)]) = AtomPieces(t, path, m)
    BY <1>0 DEF Cells
  <2>1. CASE m = k
    BY <1>0, <1>1, <2>1
  <2>2. CASE m # k
    <3>1. m \in 1..(k - 1)
      BY <1>0, <2>2
    <3>2. Len(st) > k - 1 - m /\ Text(st[Len(st) - (k - 1 - m)]) = AtomPieces(t, path, m)
      BY <3>1 DEF InFront, Cells
    <3>3. Len(new) - (k - m) = Len(st) - (k - 1 - m) /\ Len(st) - (k - 1 - m) \in 1..Len(st)
      BY <1>0, <1>1, <3>1, <3>2
    <3>. QED  BY <1>0, <1>1, <3>1, <3>2, <3>3
  <2>. QED  BY <2>1, <2>2
<1>4. Holding(t, path, k, cap)
  BY DEF InFront
<1>5. CASE Ends(t, k)
  <2>1. Behind(t, path, k, q2, new, cap)
    BY <1>2, <1>3, <1>4, <1>5 DEF Behind
  <2>. QED  BY <2>1 DEF Staged, new
<1>6. CASE ~Ends(t, k)
  <2>1. \A n \in 1..Len(t.vars) : t.vars[n].to < k + 1 <=> t.vars[n].to < k
    BY <1>0, <1>6 DEF Ends
  <2>2. Holding(t, path, k + 1, cap)
    BY <1>4, <2>1 DEF Holding
  <2>3. Cells(t, path, k + 1, k + 1, new)
    BY <1>3, <2>1 DEF Cells
  <2>4. InFront(t, path, k + 1, q2, new, cap)
    BY <1>2, <2>2, <2>3 DEF InFront
  <2>5. Off(t)[k] + 2 = Off(t)[k + 1] + 1
    BY <1>0, <1>6
  <2>. QED  BY <1>0, <2>4, <2>5 DEF Staged, new
<1>. QED  BY <1>5, <1>6

\* Joining strings joins their texts.
LEMMA TextUnion ==
  ASSUME NEW lo, NEW hi, NEW st
  PROVE  Text(UNION { st[p] : p \in lo..hi }) = UNION { Text(st[p]) : p \in lo..hi }
BY DEF Text

\* The join behind a variable's last atom leaves what the variable is bound to.
LEMMA JoinStage ==
  ASSUME NEW t \in Templates, NEW k \in 1..Len(t.atoms), NEW path, NEW q, NEW cap,
         NEW st \in Seq(SUBSET Piece), NEW n \in Nat,
         Behind(t, path, k, q, st, cap),
         \A v \in 1..Len(t.vars) : t.vars[v].to = k => n = k - t.vars[v].from + 1,
         n \in 1..Len(st)
  PROVE  Staged(t, path, Off(t)[k] + 3, q,
                Append(SubSeq(st, 1, Len(st) - n), UNION { st[p] : p \in (Len(st) - n + 1)..Len(st) }),
                cap)
<1> DEFINE l == Len(st) - n
           x == UNION { st[p] : p \in (l + 1)..Len(st) }
           new == Append(SubSeq(st, 1, l), x)
<1>1. Len(st) \in Nat /\ l \in 0..(Len(st) - 1) /\ l \in Nat
  OBVIOUS
<1>2. Len(new) = l + 1 /\ new[l + 1] = x
  <2>1. Len(SubSeq(st, 1, l)) = l /\ SubSeq(st, 1, l) \in Seq(SUBSET Piece)
    BY <1>1
  <2>2. x \in SUBSET Piece
    BY <1>1
  <2>. HIDE DEF l, x
  <2>. QED  BY <1>1, <2>1, <2>2
<1>3. ASSUME NEW v \in 1..Len(t.vars), t.vars[v].to = k
      PROVE  Text(x) = BoundTo(t, path, t.vars[v])
  <2> DEFINE from == t.vars[v].from
  <2>1. n = k - from + 1 /\ from \in 1..k /\ k \in Nat /\ from \in Nat /\ (k + 1) - 1 = k
    BY <1>3, VarsOrdered, Places
  <2>2. \A m \in from..k : \A w \in 1..Len(t.vars) : ~(m <= t.vars[w].to /\ t.vars[w].to < k)
    <3> SUFFICES ASSUME NEW m \in from..k, NEW w \in 1..Len(t.vars),
                        m <= t.vars[w].to, t.vars[w].to < k
                 PROVE  FALSE
      OBVIOUS
    <3>1. t.vars[w].to \in Nat /\ Len(t.vars) \in Nat
      BY VarsOrdered
    <3>2. CASE w < v
      <4>1. t.vars[w].to < from
        BY <3>2, VarsOrdered
      <4>. QED  BY <2>1, <3>1, <4>1
    <3>3. CASE v < w
      <4>1. k < t.vars[w].to
        BY <1>3, <3>3, VarsOrdered
      <4>. QED  BY <2>1, <3>1, <4>1
    <3>4. CASE v = w
      BY <1>3, <2>1, <3>4
    <3>. QED  BY <3>1, <3>2, <3>3, <3>4
  <2>3. \A m \in from..k : /\ Len(st) > k - m
                           /\ Text(st[Len(st) - (k - m)]) = AtomPieces(t, path, m)
    BY <2>1, <2>2 DEF Behind, Cells
  <2>4. Text(x) = UNION { Text(st[p]) : p \in (l + 1)..Len(st) }
    BY TextUnion
  <2> DEFINE h == Len(st)
  <2>5. \A p \in (l + 1)..h : \E m \in from..k : p = h - (k - m)
    <3> SUFFICES ASSUME NEW p \in (l + 1)..h PROVE \E m \in from..k : p = h - (k - m)
      OBVIOUS
    <3>1. h \in Nat /\ l = h - n /\ n \in Nat
      BY <1>1
    <3>. HIDE DEF h, l, from
    <3>2. k - (h - p) \in from..k /\ p = h - (k - (k - (h - p)))
      BY <2>1, <3>1
    <3>. QED  BY <3>2
  <2>6. \A m \in from..k : h - (k - m) \in (l + 1)..h
    <3>1. h \in Nat /\ l = h - n /\ n \in Nat
      BY <1>1
    <3>. HIDE DEF h, l, from
    <3>. QED  BY <2>1, <3>1
  <2>. HIDE DEF l, x, from
  <2>7. UNION { Text(st[p]) : p \in (l + 1)..Len(st) } = UNION { AtomPieces(t, path, m) : m \in from..k }
    <3>1. \A p \in (l + 1)..Len(st) : \E m \in from..k : Text(st[p]) = AtomPieces(t, path, m)
      BY <2>3, <2>5
    <3>2. \A m \in from..k : \E p \in (l + 1)..Len(st) : Text(st[p]) = AtomPieces(t, path, m)
      BY <2>3, <2>6
    <3>. QED  BY <3>1, <3>2
  <2>. QED  BY <1>3, <2>4, <2>7 DEF BoundTo, from
<1>. HIDE DEF x, l, new
<1>4. Joined(t, path, k, q, new, cap)
  BY <1>1, <1>2, <1>3 DEF Behind, Joined
<1>. QED  BY <1>4 DEF Staged, new, x, l

\* The capture binds the variable and takes the machine in front of the next atom.
LEMMA CaptureStage ==
  ASSUME NEW t \in Templates, NEW k \in 1..Len(t.atoms), NEW path, NEW q, NEW cap, NEW st, NEW new,
         Joined(t, path, k, q, st, cap), NEW v \in 1..Len(t.vars), t.vars[v].to = k,
         v \in DOMAIN cap
  PROVE  Staged(t, path, Off(t)[k] + 4, q, new, [cap EXCEPT ![v] = st[Len(st)]])
<1> DEFINE c == [cap EXCEPT ![v] = st[Len(st)]]
<1>0. /\ k \in Nat /\ Off(t)[k] \in Nat /\ k + 1 \in 1..(Len(t.atoms) + 1) /\ Ends(t, k)
      /\ Off(t)[k + 1] = Off(t)[k] + 3
  BY Places DEF Joined
<1>1. Holding(t, path, k + 1, c)
  <2> SUFFICES ASSUME NEW n \in 1..Len(t.vars), t.vars[n].to < k + 1
               PROVE  Text(c[n]) = BoundTo(t, path, t.vars[n])
    BY DEF Holding
  <2>1. CASE n = v
    BY <2>1 DEF Joined
  <2>2. CASE n # v
    <3>1. t.vars[n].to < k
      BY <1>0, <2>2, VarsOrdered
    <3>2. Text(cap[n]) = BoundTo(t, path, t.vars[n])
      BY <3>1 DEF Joined, Holding
    <3>3. c[n] = cap[n] 
      BY <2>2
    <3>. QED  BY <3>2, <3>3
  <2>. QED  BY <2>1, <2>2
<1>2. Cells(t, path, k + 1, k + 1, new)
  <2>1. \A m \in 1..((k + 1) - 1) : m <= t.vars[v].to /\ t.vars[v].to < k + 1
    BY <1>0
  <2>. QED  BY <2>1 DEF Cells
<1>3. InFront(t, path, k + 1, q, new, c)
  BY <1>1, <1>2 DEF InFront, Joined
<1>4. Off(t)[k] + 4 = Off(t)[k + 1] + 1
  BY <1>0
<1>. QED  BY <1>0, <1>3, <1>4 DEF Staged

\* The first atom to object decides.
LEMMA ResultAt ==
  ASSUME NEW t \in Templates, NEW path, NEW k \in 1..Len(t.atoms),
         \A m \in 1..(k - 1) : Matched(t, path, m), ~Matched(t, path, k)
  PROVE  T!Result(t, path, BadOne, BadMulti) = T!AtomResult(t, path, k, BadOne, BadMulti)
<1> DEFINE S == { m \in 1..Len(t.atoms) : T!AtomResult(t, path, m, BadOne, BadMulti) # "matched" }
<1>1. Len(t.atoms) \in Nat
  BY VarsOrdered
<1>2. k \in S /\ \A m \in S : k <= m
  BY <1>1 DEF Matched
<1>3. T!Min(S) = k
  <2>1. S \subseteq Nat
    BY <1>1
  <2>. HIDE DEF S
  <2>2. \A x \in S : (\A y \in S : x <= y) => x = k
    BY <1>2, <2>1
  <2>. QED  BY <1>2, <2>2 DEF T!Min
<1>. QED  BY <1>2, <1>3 DEF T!Result

\* No atom objects: what is left over decides.
LEMMA ResultEnd ==
  ASSUME NEW t \in Templates, NEW path, \A m \in 1..Len(t.atoms) : Matched(t, path, m)
  PROVE  T!Result(t, path, BadOne, BadMulti)
           = IF T!DeepAt(t) = 0 /\ T!Slack(t, path) > 0 THEN "nomatch" ELSE "matched"
BY DEF T!Result, Matched

\* How the components are shared out: one to each atom, the slack to the **.
LEMMA Shares ==
  ASSUME NEW t \in Templates, NEW path \in Seq(Comp), NEW k \in 1..Len(t.atoms)
  PROVE  /\ T!Slack(t, path) \in Int /\ T!First(t, path, k) \in Int
         /\ t.atoms[k].kind # "deep" =>
              T!First(t, path, k + 1) = T!First(t, path, k) + 1
         /\ t.atoms[k].kind = "deep" =>
              /\ T!First(t, path, k) = k /\ T!DeepAt(t) = k
              /\ T!Final(t, path, k) = k + T!Slack(t, path)
              /\ T!First(t, path, k + 1) = T!Final(t, path, k) + 1
<1>1. /\ Len(t.atoms) \in Nat /\ Len(path) \in Nat /\ k \in Nat
      /\ T!DeepAt(t) \in Nat /\ T!DeepAt(t) <= Len(t.atoms)
      /\ t.atoms[k].kind = "deep" <=> k = T!DeepAt(t)
  BY VarsOrdered, DeepFacts
<1> DEFINE D == T!DeepAt(t)
           s == T!Slack(t, path)
<1>2. s = Len(path) - Len(t.atoms) /\ s \in Int
  BY <1>1 DEF T!Slack
<1>3. /\ \A m \in Nat : T!First(t, path, m) = IF D \in 1..(m - 1) THEN m + s ELSE m
      /\ \A m \in Nat : T!Final(t, path, m) = IF D \in 1..m THEN m + s ELSE m
  BY DEF T!First, T!Final
<1> DEFINE f == T!First(t, path, k)
           g == T!First(t, path, k + 1)
           h == T!Final(t, path, k)
           n == Len(t.atoms)
           z == Len(path)
<1>5. /\ f = IF D \in 1..(k - 1) THEN k + s ELSE k
      /\ g = IF D \in 1..k THEN k + 1 + s ELSE k + 1
      /\ h = IF D \in 1..k THEN k + s ELSE k
  <2>1. k + 1 \in Nat /\ (k + 1) - 1 = k
    BY <1>1
  <2>2. T!First(t, path, k + 1) = IF D \in 1..((k + 1) - 1) THEN (k + 1) + s ELSE k + 1
    BY ONLY <2>1, <1>3
  <2>. QED  BY <1>1, <1>3, <2>1, <2>2
<1>. HIDE DEF D, s, f, g, h, n, z
<1>8. /\ k \in Nat /\ s \in Int /\ n \in Nat /\ z \in Nat /\ s = z - n /\ D \in Nat
      /\ t.atoms[k].kind = "deep" <=> k = D
  BY <1>1, <1>2 DEF D, s, n, z
<1>9. k # D => g = f + 1
  <2> SUFFICES ASSUME k # D PROVE g = f + 1
    OBVIOUS
  <2>1. D \in 1..(k - 1) <=> D \in 1..k
    BY ONLY <1>8, k # D
  <2>. QED  BY ONLY <1>5, <1>8, <2>1
<1>10. k = D => f = k /\ h = k + s /\ g = h + 1
  <2> SUFFICES ASSUME k = D PROVE f = k /\ h = k + s /\ g = h + 1
    OBVIOUS
  <2>1. D \notin 1..(k - 1) /\ D \in 1..k
    <3>1. k # 0
      OBVIOUS
    <3>. QED  BY ONLY <1>8, k = D, <3>1
  <2>. QED  BY ONLY <1>5, <1>8, <2>1
<1>11. f \in Int
  BY ONLY <1>5, <1>8
<1>. QED  BY <1>8, <1>9, <1>10, <1>11 DEF D, s, f, g, h, n, z

\* Behind the last atom, a template with a ** has consumed the whole path.
LEMMA EndShare ==
  ASSUME NEW t \in Templates, NEW path \in Seq(Comp)
  PROVE  T!First(t, path, Len(t.atoms) + 1)
           = IF T!DeepAt(t) = 0 THEN Len(t.atoms) + 1 ELSE Len(path) + 1
<1> DEFINE n == Len(t.atoms)
           D == T!DeepAt(t)
           s == T!Slack(t, path)
           z == Len(path)
<1>1. n \in Nat /\ D \in Nat /\ D <= n /\ z \in Nat /\ s = z - n
  BY VarsOrdered, DeepFacts DEF T!Slack
<1>2. T!First(t, path, n + 1) = IF D \in 1..((n + 1) - 1) THEN n + 1 + s ELSE n + 1
  BY DEF T!First
<1>. HIDE DEF n, D, s, z
<1>3. D \in 1..((n + 1) - 1) <=> D # 0
  BY <1>1
<1>4. n + 1 + s = z + 1
  BY <1>1
<1>. QED  BY <1>2, <1>3, <1>4 DEF n, D, z

\* Which atom the op about to run belongs to, and what has been done for it.
LEMMA AtOp ==
  ASSUME Accepted, NEW t \in Sources, ip \in 1..Len(prog),
         Staged(t, components, ip, pos, stack, captured)
  PROVE  \E k \in 1..Len(t.atoms) :
           \/ /\ ip = Off(t)[k] + 1 /\ InFront(t, components, k, pos, stack, captured)
              /\ PushOf(t, k, prog[ip])
           \/ /\ ip = Off(t)[k] + 2 /\ Behind(t, components, k, pos, stack, captured)
              /\ prog[ip].code = "OpConcatN"
              /\ \A v \in 1..Len(t.vars) : t.vars[v].to = k =>
                   prog[ip].operand = k - t.vars[v].from + 1
           \/ /\ ip = Off(t)[k] + 3 /\ Joined(t, components, k, pos, stack, captured)
              /\ prog[ip].code = "OpCapture"
              /\ \A v \in 1..Len(t.vars) : t.vars[v].to = k => prog[ip].operand + 1 = v
<1> DEFINE n == Len(t.atoms)
           off == Off(t)
<1>1. /\ t \in Templates /\ LaidOut(t, ops, off) /\ Len(prog) = Len(ops) /\ n \in Nat
      /\ \A p \in 1..Len(ops) :
           /\ prog[p].code = ops[p].code
           /\ ops[p].code # "OpCapture" => prog[p].operand = ops[p].operand
  BY ProgAt, VarsOrdered
<1>2. ip \in 1..Len(ops)
  BY <1>1
<1>3. ASSUME NEW k \in 1..(n + 1), ip = off[k] + 1, InFront(t, components, k, pos, stack, captured)
      PROVE  k \in 1..n /\ PushOf(t, k, prog[ip])
  <2>1. k \in 1..n
    <3>1. k # n + 1
      <4>1. Len(ops) = off[n + 1] /\ Len(ops) \in Nat
        BY <1>1, PatternFacts DEF LaidOut, Accepted, IInv, TypeOK
      <4>. QED  BY <1>2, <1>3, <4>1
    <3>. QED  BY <1>1, <3>1
  <2>2. PushOf(t, k, ops[ip])
    BY <1>1, <1>3, <2>1 DEF LaidOut
  <2>3. t.atoms[k].kind = "lit" => ops[ip].code = "OpLitPush"
    BY <2>2 DEF PushOf
  <2>4. prog[ip].code = ops[ip].code /\ (ops[ip].code # "OpCapture" => prog[ip].operand = ops[ip].operand)
    BY <1>1, <1>2
  <2>. QED  BY <2>1, <2>2, <2>3, <2>4 DEF PushOf
<1>4. ASSUME NEW k \in 1..n, ip = off[k] + 2, Ends(t, k)
      PROVE  /\ prog[ip].code = "OpConcatN"
             /\ \A v \in 1..Len(t.vars) : t.vars[v].to = k =>
                  prog[ip].operand = k - t.vars[v].from + 1
  <2>1. /\ ops[ip].code = "OpConcatN"
        /\ \A v \in 1..Len(t.vars) : t.vars[v].to = k => ops[ip].operand = k - t.vars[v].from + 1
    BY <1>1, <1>4 DEF LaidOut
  <2>. QED  BY <1>1, <1>2, <2>1
<1>5. ASSUME NEW k \in 1..n, ip = off[k] + 3, Ends(t, k)
      PROVE  /\ prog[ip].code = "OpCapture"
             /\ \A v \in 1..Len(t.vars) : t.vars[v].to = k => prog[ip].operand + 1 = v
  <2>1. /\ ops[off[k] + 2].code = "OpConcatN" /\ ops[off[k] + 3].code = "OpCapture"
        /\ off[k] + 2 \in 1..Len(ops) /\ off[k] + 3 \in 1..Len(ops) /\ off[k] \in Nat
    BY <1>1, <1>5, Places DEF LaidOut
  <2> DEFINE a == note[off[k] + 1]
             b == note[off[k] + 2]
             c == note[off[k] + 3]
             d == note[off[k] + 4]
  <2>2. NoteAt(t, k, a)
    BY <1>1, NotesAtAtoms
  <2>3. b.caps = a.caps
    BY <2>2, NotePush
  <2>4. Verified(prog[off[k] + 2], b, c) /\ prog[off[k] + 2].code = "OpConcatN"
    <3>1. (off[k] + 2) + 1 = off[k] + 3
      BY <2>1
    <3>. QED  BY <2>1, <3>1, ProgAt
  <2>5. Verified(prog[off[k] + 3], c, d) /\ prog[off[k] + 3].code = "OpCapture"
    <3>1. (off[k] + 3) + 1 = off[k] + 4
      BY <2>1
    <3>. QED  BY <2>1, <3>1, ProgAt
  <2>. HIDE DEF a, b, c, d
  <2>6. c.caps = b.caps
    BY <2>4, VerifiedConcatN
  <2>7. prog[off[k] + 3].operand = c.caps
    BY <2>5, VerifiedCapture
  <2>8. \A v \in 1..Len(t.vars) : t.vars[v].to = k => v = a.caps + 1
    BY <1>1, <2>2, NextVariable
  <2>. QED  BY <1>5, <2>3, <2>5, <2>6, <2>7, <2>8
<1>. HIDE DEF n, off
<1>6. CASE \E k \in 1..(n + 1) : ip = off[k] + 1 /\ InFront(t, components, k, pos, stack, captured)
  BY <1>3, <1>6 DEF n, off
<1>7. CASE \E k \in 1..n : ip = off[k] + 2 /\ Behind(t, components, k, pos, stack, captured)
  BY <1>4, <1>7 DEF n, off, Behind
<1>8. CASE \E k \in 1..n : ip = off[k] + 3 /\ Joined(t, components, k, pos, stack, captured)
  BY <1>5, <1>8 DEF n, off, Joined
<1>. QED  BY <1>6, <1>7, <1>8 DEF Staged, n, off

\* The program ends behind the last atom.
LEMMA AtEnd ==
  ASSUME Accepted, NEW t \in Sources, ip > Len(prog), ip \in Nat,
         Staged(t, components, ip, pos, stack, captured)
  PROVE  InFront(t, components, Len(t.atoms) + 1, pos, stack, captured)
<1> DEFINE n == Len(t.atoms)
           off == Off(t)
<1>1. /\ t \in Templates /\ LaidOut(t, ops, off) /\ Len(prog) = Len(ops) /\ n \in Nat /\ Len(ops) \in Nat
  BY ProgAt, VarsOrdered DEF Accepted, IInv, TypeOK
<1>2. \A k \in 1..n : /\ off[k] + 1 \in 1..Len(ops)
                      /\ Ends(t, k) => off[k] + 2 \in 1..Len(ops) /\ off[k] + 3 \in 1..Len(ops)
  BY <1>1 DEF LaidOut
<1>3. ip \notin 1..Len(ops)
  BY <1>1
<1>4. \A k \in 1..(n + 1) : k \in 1..n \/ k = n + 1
  BY <1>1
<1>. HIDE DEF n, off
<1>. QED  BY <1>2, <1>3, <1>4 DEF Staged, Behind, Joined, n, off

-----------------------------------------------------------------------------
TemplateInv ==
  /\ Kept
  /\ phase = "run" => \A t \in Sources : Staged(t, components, ip, pos, stack, captured)
  /\ ResultMatchesTemplate
  /\ BindingsMatchTemplate

\* One completed op.
LEMMA ProceedTemplates ==
  ASSUME IInv, TemplateInv, phase = "run", NEW st, NEW q, NEW cap, Proceed(st, q, cap),
         \A t \in Sources : Staged(t, components, ip + 1, q, st, cap)
  PROVE  TemplateInv'
<1>1. /\ stack' = st /\ pos' = q /\ captured' = cap /\ ip' = ip + 1 /\ components' = components
      /\ phase' = "run" /\ UNCHANGED compileVars
  BY DEF Proceed
<1>2. Kept' /\ Sources' = Sources
  BY <1>1, StableKept DEF TemplateInv
<1>3. \A t \in Sources : Staged(t, components', ip', pos', stack', captured')
  BY <1>1
<1>. QED  BY <1>1, <1>2, <1>3 DEF TemplateInv, ResultMatchesTemplate, BindingsMatchTemplate

\* A call that returns.
LEMMA ReturnTemplates ==
  ASSUME IInv, TemplateInv, phase = "run", NEW r \in {"matched", "nomatch", "malformed"}, Return(r),
         \A t \in Sources : r = T!Result(t, components, BadOne, BadMulti),
         r = "matched" => \A t \in Sources : InFront(t, components, Len(t.atoms) + 1, pos, stack, captured)
  PROVE  TemplateInv'
<1>1. phase' = r /\ UNCHANGED <<compileVars, runVars>>
  BY DEF Return
<1>2. Kept' /\ Sources' = Sources
  BY <1>1, StableKept DEF TemplateInv
<1>3. components' = components /\ captured' = captured
  BY <1>1 DEF runVars
<1>4. ResultMatchesTemplate'
  BY <1>1, <1>2, <1>3 DEF ResultMatchesTemplate
<1>5. ASSUME r = "matched", NEW t \in Sources
      PROVE  /\ Len(captured) = Len(t.vars)
             /\ \A n \in 1..Len(t.vars) : Text(captured[n]) = BoundTo(t, components, t.vars[n])
  <2>1. Accepted
    BY DEF Accepted, TemplateInv
  <2>2. t \in Templates /\ Len(vars) = Len(t.vars)
    BY <2>1, ProgAt, PatternFacts
  <2>3. \A n \in 1..Len(t.vars) : t.vars[n].to < Len(t.atoms) + 1
    BY <2>2, VarsOrdered
  <2>4. Len(captured) = Len(vars)
    BY DEF IInv, RunInv
  <2>. QED  BY <1>5, <2>2, <2>3, <2>4 DEF InFront, Holding
<1>6. BindingsMatchTemplate'
  BY <1>1, <1>2, <1>3, <1>5 DEF BindingsMatchTemplate
<1>. QED  BY <1>1, <1>2, <1>4, <1>6 DEF TemplateInv

-----------------------------------------------------------------------------
(* The ops, one template at a time. *)

\* The facts every op starts from.
Going == IInv /\ TemplateInv /\ phase = "run"

\* The types of what the matcher reads.
LEMMA GoingTypes ==
  ASSUME Going
  PROVE  /\ Accepted /\ ip \in Nat /\ pos \in Nat /\ components \in Seq(Comp) /\ Len(components) \in Nat
         /\ stack \in Seq(SUBSET Piece) /\ Len(stack) \in Nat
         /\ \A t \in Sources : t \in Templates /\ Staged(t, components, ip, pos, stack, captured)
BY ProgAt DEF Going, Accepted, TemplateInv, IInv, TypeOK

\* An op that pushes belongs to an atom whose predecessors have matched.
LEMMA AtPush ==
  ASSUME Going, NEW t \in Sources, ip <= Len(prog),
         prog[ip].code \in {"OpPush", "OpLitPush", "OpPushM"}
  PROVE  \E k \in 1..Len(t.atoms) :
           /\ ip = Off(t)[k] + 1 /\ InFront(t, components, k, pos, stack, captured)
           /\ PushOf(t, k, prog[ip])
           /\ T!First(t, components, k) = pos + 1
           /\ \A m \in 1..(k - 1) : Matched(t, components, m)
           /\ k \in Nat
<1>1. /\ Accepted /\ t \in Templates /\ Staged(t, components, ip, pos, stack, captured)
      /\ pos \in Nat /\ components \in Seq(Comp)
  BY GoingTypes
<1>2. ip \in 1..Len(prog)
  BY OpFacts DEF Going
<1>3. PICK k \in 1..Len(t.atoms) :
        /\ ip = Off(t)[k] + 1 /\ InFront(t, components, k, pos, stack, captured)
        /\ PushOf(t, k, prog[ip])
  BY <1>1, <1>2, AtOp
<1>4. pos = T!First(t, components, k) - 1 /\ T!First(t, components, k) \in Int /\ k \in Nat
  BY <1>1, <1>3, Shares, Places DEF InFront, Reached
<1>5. T!First(t, components, k) = pos + 1
  BY <1>4
<1>. QED  BY <1>3, <1>4, <1>5 DEF InFront, Reached

\* The machine proceeds past the push of an atom.
LEMMA PushProceeds ==
  ASSUME Going, NEW t \in Sources, NEW k \in 1..Len(t.atoms),
         ip = Off(t)[k] + 1, InFront(t, components, k, pos, stack, captured),
         NEW cell \in SUBSET Piece, NEW q,
         Matched(t, components, k), Text(cell) = AtomPieces(t, components, k),
         q = T!First(t, components, k + 1) - 1
  PROVE  Staged(t, components, ip + 1, q, Append(stack, cell), captured)
<1>1. t \in Templates /\ stack \in Seq(SUBSET Piece)
  BY GoingTypes
<1>2. ip + 1 = Off(t)[k] + 2
  BY <1>1, Places
<1>. QED  BY <1>1, <1>2, PushStage

\* OpPush and OpLitPush with no component left: the template has no match either.
LEMMA RunOutTemplates == Going /\ RunOut => TemplateInv'
<1> SUFFICES ASSUME Going, RunOut PROVE TemplateInv'
  OBVIOUS
<1>1. /\ ip <= Len(prog) /\ prog[ip].code \in {"OpPush", "OpLitPush"}
      /\ pos >= Len(components) /\ Return("nomatch")
  BY DEF RunOut, Running
<1>2. ASSUME NEW t \in Sources
      PROVE  "nomatch" = T!Result(t, components, BadOne, BadMulti)
  <2>1. PICK k \in 1..Len(t.atoms) :
          /\ PushOf(t, k, prog[ip]) /\ T!First(t, components, k) = pos + 1
          /\ \A m \in 1..(k - 1) : Matched(t, components, m)
    BY <1>1, AtPush
  <2>2. t \in Templates /\ pos \in Nat /\ components \in Seq(Comp)
    BY GoingTypes
  <2>3. t.atoms[k].kind # "deep"
    BY <1>1, <2>1 DEF PushOf
  <2>4. T!First(t, components, k) \notin DOMAIN components
    BY <1>1, <2>1, <2>2
  <2>5. T!AtomResult(t, components, k, BadOne, BadMulti) = "nomatch"
    BY <2>3, <2>4 DEF T!AtomResult
  <2>6. ~Matched(t, components, k)
    BY <2>5 DEF Matched
  <2>. QED  BY <2>1, <2>2, <2>5, <2>6, ResultAt
<1>. QED  BY <1>1, <1>2, ReturnTemplates DEF Going

\* OpPush: a * takes one component, or finds it malformed.
LEMMA RunPushTemplates == Going /\ RunPush => TemplateInv'
<1> SUFFICES ASSUME Going, RunPush PROVE TemplateInv'
  OBVIOUS
<1> DEFINE c == components[pos + 1]
           cell == { PieceOf(pos, Unescape(c, UnescapeOne)) }
<1>1. ip <= Len(prog) /\ prog[ip].code = "OpPush" /\ pos < Len(components)
  BY DEF RunPush, Running
<1>2. /\ pos \in Nat /\ components \in Seq(Comp) /\ ip \in Nat /\ pos + 1 \in DOMAIN components
      /\ c \in Comp
  BY <1>1, GoingTypes
<1>3. ASSUME NEW t \in Sources
      PROVE  \E k \in 1..Len(t.atoms) :
               /\ ip = Off(t)[k] + 1 /\ InFront(t, components, k, pos, stack, captured)
               /\ T!First(t, components, k) = pos + 1 /\ t.atoms[k].kind = "star" /\ t \in Templates
               /\ \A m \in 1..(k - 1) : Matched(t, components, m)
  <2>1. PICK k \in 1..Len(t.atoms) :
          /\ ip = Off(t)[k] + 1 /\ InFront(t, components, k, pos, stack, captured)
          /\ PushOf(t, k, prog[ip]) /\ T!First(t, components, k) = pos + 1
          /\ \A m \in 1..(k - 1) : Matched(t, components, m)
    BY <1>1, AtPush
  <2>2. t \in Templates
    BY GoingTypes
  <2>3. t.atoms[k].kind = "star"
    BY <1>1, <2>1, <2>2, AtomKinds DEF PushOf
  <2>. QED  BY <2>1, <2>2, <2>3
<1>4. CASE WellEscaped(c, UnescapeOne) /\ Proceed(Append(stack, cell), pos + 1, captured)
  <2>1. cell \in SUBSET Piece
    <3>1. Unescape(c, UnescapeOne) \in Comp
      BY <1>2, <1>4, UnescapeType, UnescapeAssumption
    <3>. QED  BY <1>2, <3>1 DEF PieceOf, Piece
  <2>2. Text(cell) = { [at |-> pos, text |-> Unescape(c, UnescapeOne)] }
    BY DEF Text, PieceOf
  <2>. HIDE DEF cell
  <2>3. ASSUME NEW t \in Sources
        PROVE  Staged(t, components, ip + 1, pos + 1, Append(stack, cell), captured)
    <3>1. PICK k \in 1..Len(t.atoms) :
            /\ ip = Off(t)[k] + 1 /\ InFront(t, components, k, pos, stack, captured)
            /\ T!First(t, components, k) = pos + 1 /\ t.atoms[k].kind = "star" /\ t \in Templates
      BY <1>3
    <3>2. Matched(t, components, k)
      BY <1>2, <1>4, <3>1 DEF Matched, T!AtomResult, BadOne
    <3>3. AtomPieces(t, components, k) = { [at |-> pos, text |-> Unescape(c, UnescapeOne)] }
      <4>1. AtomPieces(t, components, k)
              = { [at |-> (pos + 1) - 1, text |-> Unescape(c, UnescapeOne)] }
        BY <3>1 DEF AtomPieces
      <4>2. (pos + 1) - 1 = pos
        BY <1>2
      <4>. QED  BY <4>1, <4>2
    <3>4. pos + 1 = T!First(t, components, k + 1) - 1
      <4>1. T!First(t, components, k + 1) = (pos + 1) + 1
        BY <1>2, <3>1, Shares
      <4>. QED  BY <1>2, <4>1
    <3>. QED  BY <2>1, <2>2, <3>1, <3>2, <3>3, <3>4, PushProceeds
  <2>. QED  BY <1>4, <2>3, ProceedTemplates DEF Going
<1>5. CASE ~WellEscaped(c, UnescapeOne) /\ Return("malformed")
  <2>1. ASSUME NEW t \in Sources
        PROVE  "malformed" = T!Result(t, components, BadOne, BadMulti)
    <3>1. PICK k \in 1..Len(t.atoms) :
            /\ T!First(t, components, k) = pos + 1 /\ t.atoms[k].kind = "star" /\ t \in Templates
            /\ \A m \in 1..(k - 1) : Matched(t, components, m)
      BY <1>3
    <3>2. T!AtomResult(t, components, k, BadOne, BadMulti) = "malformed"
      BY <1>2, <1>5, <3>1 DEF T!AtomResult, BadOne
    <3>3. ~Matched(t, components, k)
      BY <3>2 DEF Matched
    <3>. QED  BY <3>1, <3>2, <3>3, ResultAt
  <2>. QED  BY <1>5, <2>1, ReturnTemplates DEF Going
<1>. QED  BY <1>4, <1>5 DEF RunPush

\* OpLitPush: a literal compares one component with its text.
LEMMA RunLitPushTemplates == Going /\ RunLitPush => TemplateInv'
<1> SUFFICES ASSUME Going, RunLitPush PROVE TemplateInv'
  OBVIOUS
<1> DEFINE c == components[pos + 1]
           cell == { PieceOf(pos, c) }
<1>1. ip <= Len(prog) /\ prog[ip].code = "OpLitPush" /\ pos < Len(components)
  BY DEF RunLitPush, Running
<1>2. /\ pos \in Nat /\ components \in Seq(Comp) /\ ip \in Nat /\ pos + 1 \in DOMAIN components
      /\ c \in Comp
  BY <1>1, GoingTypes
<1>3. ASSUME NEW t \in Sources
      PROVE  \E k \in 1..Len(t.atoms) :
               /\ ip = Off(t)[k] + 1 /\ InFront(t, components, k, pos, stack, captured)
               /\ T!First(t, components, k) = pos + 1 /\ t.atoms[k].kind = "lit" /\ t \in Templates
               /\ Pool[prog[ip].operand + 1] = t.atoms[k].text
               /\ \A m \in 1..(k - 1) : Matched(t, components, m)
  <2>1. PICK k \in 1..Len(t.atoms) :
          /\ ip = Off(t)[k] + 1 /\ InFront(t, components, k, pos, stack, captured)
          /\ PushOf(t, k, prog[ip]) /\ T!First(t, components, k) = pos + 1
          /\ \A m \in 1..(k - 1) : Matched(t, components, m)
    BY <1>1, AtPush
  <2>2. t \in Templates
    BY GoingTypes
  <2>3. t.atoms[k].kind = "lit"
    BY <1>1, <2>1, <2>2, AtomKinds DEF PushOf
  <2>4. Pool[prog[ip].operand + 1] = t.atoms[k].text
    BY <2>1, <2>3 DEF PushOf
  <2>. QED  BY <2>1, <2>2, <2>3, <2>4
<1>4. CASE c = Pool[prog[ip].operand + 1] /\ Proceed(Append(stack, cell), pos + 1, captured)
  <2>1. cell \in SUBSET Piece
    BY <1>2 DEF PieceOf, Piece
  <2>2. Text(cell) = { [at |-> pos, text |-> c] }
    BY DEF Text, PieceOf
  <2>. HIDE DEF cell
  <2>3. ASSUME NEW t \in Sources
        PROVE  Staged(t, components, ip + 1, pos + 1, Append(stack, cell), captured)
    <3>1. PICK k \in 1..Len(t.atoms) :
            /\ ip = Off(t)[k] + 1 /\ InFront(t, components, k, pos, stack, captured)
            /\ T!First(t, components, k) = pos + 1 /\ t.atoms[k].kind = "lit" /\ t \in Templates
            /\ Pool[prog[ip].operand + 1] = t.atoms[k].text
      BY <1>3
    <3>2. Matched(t, components, k)
      BY <1>2, <1>4, <3>1 DEF Matched, T!AtomResult
    <3>3. AtomPieces(t, components, k) = { [at |-> pos, text |-> c] }
      <4>1. AtomPieces(t, components, k) = { [at |-> (pos + 1) - 1, text |-> c] }
        BY <3>1 DEF AtomPieces
      <4>2. (pos + 1) - 1 = pos
        BY <1>2
      <4>. QED  BY <4>1, <4>2
    <3>4. pos + 1 = T!First(t, components, k + 1) - 1
      <4>1. T!First(t, components, k + 1) = (pos + 1) + 1
        BY <1>2, <3>1, Shares
      <4>. QED  BY <1>2, <4>1
    <3>. QED  BY <2>1, <2>2, <3>1, <3>2, <3>3, <3>4, PushProceeds
  <2>. QED  BY <1>4, <2>3, ProceedTemplates DEF Going
<1>5. CASE c # Pool[prog[ip].operand + 1] /\ Return("nomatch")
  <2>1. ASSUME NEW t \in Sources
        PROVE  "nomatch" = T!Result(t, components, BadOne, BadMulti)
    <3>1. PICK k \in 1..Len(t.atoms) :
            /\ T!First(t, components, k) = pos + 1 /\ t.atoms[k].kind = "lit" /\ t \in Templates
            /\ Pool[prog[ip].operand + 1] = t.atoms[k].text
            /\ \A m \in 1..(k - 1) : Matched(t, components, m)
      BY <1>3
    <3>2. T!AtomResult(t, components, k, BadOne, BadMulti) = "nomatch"
      BY <1>2, <1>5, <3>1 DEF T!AtomResult
    <3>3. ~Matched(t, components, k)
      BY <3>2 DEF Matched
    <3>. QED  BY <3>1, <3>2, <3>3, ResultAt
  <2>. QED  BY <1>5, <2>1, ReturnTemplates DEF Going
<1>. QED  BY <1>4, <1>5 DEF RunLitPush

\* OpPushM: a ** takes all but the components of the atoms behind it.
LEMMA RunPushMTemplates == Going /\ RunPushM => TemplateInv'
<1> SUFFICES ASSUME Going, RunPushM PROVE TemplateInv'
  OBVIOUS
<1> DEFINE end == Len(components) - tailLen
           bad == \E n \in (pos + 1)..end : BadMulti(components[n])
<1>1. ip <= Len(prog) /\ prog[ip].code = "OpPushM"
  BY DEF RunPushM, Running
<1>2. /\ pos \in Nat /\ components \in Seq(Comp) /\ Len(components) \in Nat /\ ip \in Nat /\ Accepted
      /\ stack \in Seq(SUBSET Piece) /\ tailLen \in Nat /\ end \in Int /\ end <= Len(components)
  BY GoingTypes DEF Going, IInv, TypeOK
<1>3. ASSUME NEW t \in Sources
      PROVE  \E k \in 1..Len(t.atoms) :
               /\ ip = Off(t)[k] + 1 /\ InFront(t, components, k, pos, stack, captured)
               /\ t.atoms[k].kind = "deep" /\ t \in Templates
               /\ T!First(t, components, k) = pos + 1 /\ T!Final(t, components, k) = end
               /\ T!First(t, components, k + 1) = end + 1
               /\ T!Slack(t, components) < -1 <=> end < pos
               /\ \A m \in 1..(k - 1) : Matched(t, components, m)
  <2>1. PICK k \in 1..Len(t.atoms) :
          /\ ip = Off(t)[k] + 1 /\ InFront(t, components, k, pos, stack, captured)
          /\ PushOf(t, k, prog[ip]) /\ T!First(t, components, k) = pos + 1
          /\ \A m \in 1..(k - 1) : Matched(t, components, m) /\ k \in Nat
    BY <1>1, AtPush
  <2>2. t \in Templates
    BY GoingTypes
  <2>3. t.atoms[k].kind = "deep"
    BY <1>1, <2>1, <2>2, AtomKinds DEF PushOf
  <2>4. /\ T!First(t, components, k) = k /\ T!DeepAt(t) = k
        /\ T!Final(t, components, k) = k + T!Slack(t, components)
        /\ T!First(t, components, k + 1) = T!Final(t, components, k) + 1
    BY <1>2, <2>2, <2>3, Shares
  <2>5. tailLen = Len(t.atoms) - k /\ Len(t.atoms) \in Nat /\ k # 0 /\ k \in Nat
    <3>1. tailLen = IF T!DeepAt(t) # 0 THEN Len(t.atoms) - T!DeepAt(t) ELSE 0
      BY <1>2, PatternFacts
    <3>2. k # 0 /\ k \in Nat /\ Len(t.atoms) \in Nat
      BY <2>2, VarsOrdered
    <3>. QED  BY <2>4, <3>1, <3>2
  <2>6. T!Slack(t, components) = Len(components) - Len(t.atoms)
    BY DEF T!Slack
  <2>7. end = k + T!Slack(t, components) /\ k = pos + 1
    BY <1>2, <2>1, <2>4, <2>5, <2>6
  <2>8. T!Slack(t, components) < -1 <=> end < pos
    <3> DEFINE s == T!Slack(t, components)
               e == end
    <3>1. s \in Int /\ k \in Nat /\ e = k + s /\ k = pos + 1 /\ pos \in Nat
      BY <1>2, <2>5, <2>6, <2>7
    <3>. HIDE DEF s, e
    <3>2. s < -1 <=> e < pos
      BY ONLY <3>1
    <3>. QED  BY <3>2 DEF s, e
  <2>. QED  BY <2>1, <2>2, <2>3, <2>4, <2>7, <2>8
<1>4. bad <=> ~(\A k \in pos..(end - 1) : WellEscaped(components[k + 1], UnescapeMulti))
  <2>1. ASSUME bad PROVE \E k \in pos..(end - 1) : ~WellEscaped(components[k + 1], UnescapeMulti)
    <3>1. PICK n \in (pos + 1)..end : ~WellEscaped(components[n], UnescapeMulti)
      BY <2>1 DEF BadMulti
    <3>2. n - 1 \in pos..(end - 1) /\ (n - 1) + 1 = n
      BY <1>2
    <3>. QED  BY <3>1, <3>2
  <2>2. ASSUME NEW k \in pos..(end - 1), ~WellEscaped(components[k + 1], UnescapeMulti) PROVE bad
    <3>1. k + 1 \in (pos + 1)..end
      BY <1>2
    <3>. QED  BY <2>2, <3>1 DEF BadMulti
  <2>. QED  BY <2>1, <2>2
<1>5. CASE end < pos /\ Return("nomatch")
  <2>1. ASSUME NEW t \in Sources
        PROVE  "nomatch" = T!Result(t, components, BadOne, BadMulti)
    <3>1. PICK k \in 1..Len(t.atoms) :
            /\ t.atoms[k].kind = "deep" /\ t \in Templates /\ T!Slack(t, components) < -1
            /\ \A m \in 1..(k - 1) : Matched(t, components, m)
      BY <1>3, <1>5
    <3>2. T!AtomResult(t, components, k, BadOne, BadMulti) = "nomatch"
      BY <3>1 DEF T!AtomResult
    <3>3. ~Matched(t, components, k)
      BY <3>2 DEF Matched
    <3>. QED  BY <3>1, <3>2, <3>3, ResultAt
  <2>. QED  BY <1>5, <2>1, ReturnTemplates DEF Going
<1>6. CASE end >= pos /\ bad /\ Return("malformed")
  <2>1. ASSUME NEW t \in Sources
        PROVE  "malformed" = T!Result(t, components, BadOne, BadMulti)
    <3>1. PICK k \in 1..Len(t.atoms) :
            /\ t.atoms[k].kind = "deep" /\ t \in Templates /\ ~(T!Slack(t, components) < -1)
            /\ T!First(t, components, k) = pos + 1 /\ T!Final(t, components, k) = end
            /\ \A m \in 1..(k - 1) : Matched(t, components, m)
      BY <1>2, <1>3, <1>6
    <3>2. T!AtomResult(t, components, k, BadOne, BadMulti) = "malformed"
      BY <1>6, <3>1 DEF T!AtomResult
    <3>3. ~Matched(t, components, k)
      BY <3>2 DEF Matched
    <3>. QED  BY <3>1, <3>2, <3>3, ResultAt
  <2>. QED  BY <1>6, <2>1, ReturnTemplates DEF Going
<1>7. CASE end >= pos /\ ~bad /\ Proceed(Append(stack, DeepPieces(end)), end, captured)
  <2> DEFINE cell == DeepPieces(end)
  <2>1. cell \in SUBSET Piece
    <3>1. ASSUME NEW n \in pos..(end - 1)
          PROVE  PieceOf(n, Unescape(components[n + 1], UnescapeMulti)) \in Piece
      <4>1. n \in Nat /\ components[n + 1] \in Comp /\ WellEscaped(components[n + 1], UnescapeMulti)
        BY <1>2, <1>4, <1>7
      <4>2. Unescape(components[n + 1], UnescapeMulti) \in Comp
        BY <4>1, UnescapeType, UnescapeAssumption
      <4>. QED  BY <1>2, <4>1, <4>2 DEF PieceOf, Piece
    <3>2. PieceOf(pos, EmptyComp) \in Piece
      BY <1>2, TokAssumption DEF PieceOf, Piece, EmptyComp, Comp
    <3>. QED  BY <3>1, <3>2 DEF DeepPieces
  <2>2. Text(cell) = IF end < pos + 1 THEN { [at |-> pos, text |-> EmptyComp] }
                     ELSE { [at |-> n - 1, text |-> Unescape(components[n], UnescapeMulti)] :
                              n \in (pos + 1)..end }
    <3>1. CASE end = pos
      <4>1. Text(cell) = { [at |-> pos, text |-> EmptyComp] }
        BY <3>1 DEF Text, DeepPieces, PieceOf
      <4>2. end < pos + 1
        BY <1>2, <3>1
      <4>. QED  BY ONLY <4>1, <4>2
    <3>2. CASE end # pos
      <4>1. cell = { PieceOf(n, Unescape(components[n + 1], UnescapeMulti)) : n \in pos..(end - 1) }
        BY <3>2 DEF DeepPieces
      <4>2. Text(cell) = { [at |-> n, text |-> Unescape(components[n + 1], UnescapeMulti)] : n \in pos..(end - 1) }
        <5> DEFINE P(n) == PieceOf(n, Unescape(components[n + 1], UnescapeMulti))
                   Q(n) == [at |-> n, text |-> Unescape(components[n + 1], UnescapeMulti)]
        <5>1. \A n : [at |-> P(n).at, text |-> P(n).text] = Q(n)
          BY DEF PieceOf
        <5>2. Text(cell) = { [at |-> p.at, text |-> p.text] : p \in { P(n) : n \in pos..(end - 1) } }
          BY <4>1 DEF Text
        <5>. HIDE DEF P, Q
        <5>3. { [at |-> p.at, text |-> p.text] : p \in { P(n) : n \in pos..(end - 1) } }
                = { [at |-> P(n).at, text |-> P(n).text] : n \in pos..(end - 1) }
          OBVIOUS
        <5>4. Text(cell) = { Q(n) : n \in pos..(end - 1) }
          BY <5>1, <5>2, <5>3
        <5>. QED  BY <5>4 DEF Q
      <4> DEFINE A == { [at |-> n, text |-> Unescape(components[n + 1], UnescapeMulti)] : n \in pos..(end - 1) }
                 B == { [at |-> n - 1, text |-> Unescape(components[n], UnescapeMulti)] : n \in (pos + 1)..end }
      <4>3. A \subseteq B
        <5> SUFFICES ASSUME NEW n \in pos..(end - 1)
                     PROVE  \E m \in (pos + 1)..end :
                              m - 1 = n /\ m = n + 1
          OBVIOUS
        <5>1. n + 1 \in (pos + 1)..end /\ (n + 1) - 1 = n
          BY <1>2
        <5>. QED  BY <5>1
      <4>4. B \subseteq A
        <5> SUFFICES ASSUME NEW m \in (pos + 1)..end
                     PROVE  \E n \in pos..(end - 1) : n = m - 1 /\ n + 1 = m
          OBVIOUS
        <5>1. m - 1 \in pos..(end - 1) /\ (m - 1) + 1 = m
          BY <1>2
        <5>. QED  BY <5>1
      <4>5. ~(end < pos + 1)
        BY <1>2, <1>7, <3>2
      <4>6. A = B /\ Text(cell) = A
        <5>. HIDE DEF cell
        <5>1. A = B
          <6>. HIDE DEF A, B
          <6>. QED  BY <4>3, <4>4
        <5>. QED  BY <4>2, <5>1
      <4>. QED  BY ONLY <4>5, <4>6
    <3>. QED  BY ONLY <3>1, <3>2
  <2>. HIDE DEF cell
  <2>3. ASSUME NEW t \in Sources
        PROVE  Staged(t, components, ip + 1, end, Append(stack, cell), captured)
    <3>1. PICK k \in 1..Len(t.atoms) :
            /\ ip = Off(t)[k] + 1 /\ InFront(t, components, k, pos, stack, captured)
            /\ t.atoms[k].kind = "deep" /\ t \in Templates
            /\ T!First(t, components, k) = pos + 1 /\ T!Final(t, components, k) = end
            /\ T!First(t, components, k + 1) = end + 1
            /\ ~(T!Slack(t, components) < -1)
      BY <1>2, <1>3, <1>7
    <3>2. Matched(t, components, k)
      BY <1>7, <3>1 DEF Matched, T!AtomResult
    <3>3. Text(cell) = AtomPieces(t, components, k)
      <4>1. (pos + 1) - 1 = pos
        BY <1>2
      <4>. QED  BY <2>2, <3>1, <4>1 DEF AtomPieces
    <3>4. end = T!First(t, components, k + 1) - 1
      BY <1>2, <3>1
    <3>. HIDE DEF end
    <3>. QED  BY <2>1, <3>1, <3>2, <3>3, <3>4, PushProceeds
  <2>. QED  BY <1>7, <2>3, ProceedTemplates DEF Going, cell
<1>. QED  BY <1>4, <1>5, <1>6, <1>7 DEF RunPushM

\* OpConcatN joins exactly the atoms of the variable that ends.
LEMMA RunConcatNTemplates == Going /\ RunConcatN => TemplateInv'
<1> SUFFICES ASSUME Going, RunConcatN PROVE TemplateInv'
  OBVIOUS
<1> DEFINE n == prog[ip].operand
           new == Append(SubSeq(stack, 1, Len(stack) - n),
                         UNION { stack[p] : p \in (Len(stack) - n + 1)..Len(stack) })
<1>1. ip <= Len(prog) /\ prog[ip].code = "OpConcatN" /\ Proceed(new, pos, captured)
  BY DEF RunConcatN, Running
<1>2. ip \in 1..Len(prog) /\ n \in 1..Len(stack) /\ n \in Nat
  <2>1. n \in 1..Len(stack)
    BY <1>1, IInvStackSafe DEF Going, StackSafe
  <2>2. ip \in 1..Len(prog)
    BY <1>1, OpFacts DEF Going
  <2>. QED  BY <2>1, <2>2
<1>3. ASSUME NEW t \in Sources
      PROVE  Staged(t, components, ip + 1, pos, new, captured)
  <2>1. t \in Templates /\ Accepted /\ stack \in Seq(SUBSET Piece) /\ ip \in Nat
        /\ Staged(t, components, ip, pos, stack, captured)
    BY GoingTypes
  <2>2. PICK k \in 1..Len(t.atoms) :
          /\ ip = Off(t)[k] + 2 /\ Behind(t, components, k, pos, stack, captured)
          /\ \A v \in 1..Len(t.vars) : t.vars[v].to = k => n = k - t.vars[v].from + 1
    <3>1. PICK k \in 1..Len(t.atoms) :
           \/ /\ ip = Off(t)[k] + 1 /\ InFront(t, components, k, pos, stack, captured)
              /\ PushOf(t, k, prog[ip])
           \/ /\ ip = Off(t)[k] + 2 /\ Behind(t, components, k, pos, stack, captured)
              /\ prog[ip].code = "OpConcatN"
              /\ \A v \in 1..Len(t.vars) : t.vars[v].to = k =>
                   prog[ip].operand = k - t.vars[v].from + 1
           \/ /\ ip = Off(t)[k] + 3 /\ Joined(t, components, k, pos, stack, captured)
              /\ prog[ip].code = "OpCapture"
              /\ \A v \in 1..Len(t.vars) : t.vars[v].to = k => prog[ip].operand + 1 = v
      BY <1>2, <2>1, AtOp
    <3>2. ~PushOf(t, k, prog[ip])
      BY <1>1, <2>1, AtomKinds DEF PushOf
    <3>. QED  BY <1>1, <3>1, <3>2
  <2>3. ip + 1 = Off(t)[k] + 3
    BY <2>1, <2>2, Places
  <2>. HIDE DEF n
  <2>. QED  BY <1>2, <2>1, <2>2, <2>3, JoinStage
<1>. HIDE DEF new
<1>. QED  BY <1>1, <1>3, ProceedTemplates DEF Going

\* OpCapture binds the joined string to that variable and to no other.
LEMMA RunCaptureTemplates == Going /\ RunCapture => TemplateInv'
<1> SUFFICES ASSUME Going, RunCapture PROVE TemplateInv'
  OBVIOUS
<1> DEFINE v == prog[ip].operand + 1
           new == SubSeq(stack, 1, Len(stack) - 1)
           cap == [captured EXCEPT ![v] = stack[Len(stack)]]
<1>1. ip <= Len(prog) /\ prog[ip].code = "OpCapture" /\ Proceed(new, pos, cap)
  BY DEF RunCapture, Running
<1>2. ip \in 1..Len(prog) /\ v \in DOMAIN captured
  <2>1. v \in DOMAIN captured
    BY <1>1, IInvStackSafe DEF Going, StackSafe
  <2>2. ip \in 1..Len(prog)
    BY <1>1, OpFacts DEF Going
  <2>. QED  BY <2>1, <2>2
<1>3. ASSUME NEW t \in Sources
      PROVE  Staged(t, components, ip + 1, pos, new, cap)
  <2>1. t \in Templates /\ Accepted /\ ip \in Nat
        /\ Staged(t, components, ip, pos, stack, captured)
    BY GoingTypes
  <2>2. PICK k \in 1..Len(t.atoms) :
          /\ ip = Off(t)[k] + 3 /\ Joined(t, components, k, pos, stack, captured)
          /\ \A w \in 1..Len(t.vars) : t.vars[w].to = k => v = w
    <3>1. PICK k \in 1..Len(t.atoms) :
           \/ /\ ip = Off(t)[k] + 1 /\ InFront(t, components, k, pos, stack, captured)
              /\ PushOf(t, k, prog[ip])
           \/ /\ ip = Off(t)[k] + 2 /\ Behind(t, components, k, pos, stack, captured)
              /\ prog[ip].code = "OpConcatN"
              /\ \A w \in 1..Len(t.vars) : t.vars[w].to = k =>
                   prog[ip].operand = k - t.vars[w].from + 1
           \/ /\ ip = Off(t)[k] + 3 /\ Joined(t, components, k, pos, stack, captured)
              /\ prog[ip].code = "OpCapture"
              /\ \A w \in 1..Len(t.vars) : t.vars[w].to = k => prog[ip].operand + 1 = w
      BY <1>2, <2>1, AtOp
    <3>2. ~PushOf(t, k, prog[ip])
      BY <1>1, <2>1, AtomKinds DEF PushOf
    <3>. QED  BY <1>1, <3>1, <3>2
  <2>3. v \in 1..Len(t.vars) /\ t.vars[v].to = k
    BY <2>2 DEF Joined, Ends
  <2>4. ip + 1 = Off(t)[k] + 4
    BY <2>1, <2>2, Places
  <2>. HIDE DEF v, new
  <2>. QED  BY <1>2, <2>1, <2>2, <2>3, <2>4, CaptureStage
<1>. HIDE DEF new, cap
<1>. QED  BY <1>1, <1>3, ProceedTemplates DEF Going

\* The end of the program: every atom has matched.
LEMMA RunEndTemplates == Going /\ RunEnd => TemplateInv'
<1> SUFFICES ASSUME Going, RunEnd PROVE TemplateInv'
  OBVIOUS
<1> DEFINE r == IF pos < Len(components) THEN "nomatch" ELSE "matched"
<1>1. ip > Len(prog) /\ Return(r) /\ r \in {"matched", "nomatch", "malformed"}
  BY DEF RunEnd
<1>2. ASSUME NEW t \in Sources
      PROVE  /\ r = T!Result(t, components, BadOne, BadMulti)
             /\ InFront(t, components, Len(t.atoms) + 1, pos, stack, captured)
  <2>1. /\ t \in Templates /\ Accepted /\ ip \in Nat /\ pos \in Nat /\ components \in Seq(Comp)
        /\ Staged(t, components, ip, pos, stack, captured) /\ Len(components) \in Nat
        /\ Len(t.atoms) \in Nat
    BY GoingTypes, VarsOrdered
  <2>2. InFront(t, components, Len(t.atoms) + 1, pos, stack, captured)
    BY <1>1, <2>1, AtEnd
  <2>3. pos = T!First(t, components, Len(t.atoms) + 1) - 1
        /\ \A m \in 1..Len(t.atoms) : Matched(t, components, m)
    <3>1. (Len(t.atoms) + 1) - 1 = Len(t.atoms)
      BY <2>1
    <3>. QED  BY <2>2, <3>1 DEF InFront, Reached
  <2>4. T!Result(t, components, BadOne, BadMulti)
          = IF T!DeepAt(t) = 0 /\ T!Slack(t, components) > 0 THEN "nomatch" ELSE "matched"
    BY <2>1, <2>3, ResultEnd
  <2>5. pos = IF T!DeepAt(t) = 0 THEN Len(t.atoms) ELSE Len(components)
    <3>1. T!First(t, components, Len(t.atoms) + 1)
            = IF T!DeepAt(t) = 0 THEN Len(t.atoms) + 1 ELSE Len(components) + 1
      BY <2>1, EndShare
    <3>. QED  BY <2>1, <2>3, <3>1
  <2>6. T!Slack(t, components) = Len(components) - Len(t.atoms)
    BY DEF T!Slack
  <2>7. pos < Len(components) <=> T!DeepAt(t) = 0 /\ T!Slack(t, components) > 0
    BY <2>1, <2>5, <2>6
  <2>. QED  BY <2>2, <2>4, <2>7
<1>. HIDE DEF r
<1>. QED  BY <1>1, <1>2, ReturnTemplates DEF Going

-----------------------------------------------------------------------------
\* A call starts in front of the first atom.
LEMMA CallTemplates ==
  ASSUME IInv, TemplateInv, NEW path \in Paths, NEW v \in RequestVerbs, Call(path, v)
  PROVE  TemplateInv'
<1>1. /\ phase = "ready" /\ UNCHANGED compileVars
      /\ ip' = 1 /\ pos' = 0 /\ stack' = << >>
      /\ phase' = "run" \/ (phase' = "nomatch" /\ verb # << >>)
  BY DEF Call
<1>2. Kept' /\ Sources' = Sources
  BY <1>1, StableKept DEF TemplateInv
<1>3. ASSUME NEW t \in Sources
      PROVE  Staged(t, components', ip', pos', stack', captured')
  <2>1. t \in Templates /\ Len(t.atoms) \in Nat
    BY VarsOrdered DEF Sources
  <2>2. 1 = Off(t)[1] + 1
    BY <2>1, OffLaysOut DEF LaidOut
  <2>3. T!First(t, components', 1) = 1
    BY DEF T!First
  <2>4. \A n \in 1..Len(t.vars) : ~(t.vars[n].to < 1)
    BY <2>1, VarsOrdered
  <2>5. InFront(t, components', 1, 0, << >>, captured')
    BY <2>3, <2>4 DEF InFront, Reached, Holding, Cells
  <2>. QED  BY <1>1, <2>1, <2>2, <2>5 DEF Staged
<1>4. verb' = verb
  BY <1>1 DEF compileVars
<1>. QED  BY <1>1, <1>2, <1>3, <1>4 DEF TemplateInv, ResultMatchesTemplate, BindingsMatchTemplate

\* The machine keeps step with every template its op codes come from.
THEOREM TemplateInvariance == Spec => []TemplateInv
<1>1. Init => TemplateInv
  BY InitKept DEF Init, TemplateInv, ResultMatchesTemplate, BindingsMatchTemplate
<1>2. IInv /\ TemplateInv /\ [Next]_allVars => TemplateInv'
  <2> SUFFICES ASSUME IInv, TemplateInv, [Next]_allVars PROVE TemplateInv'
    OBVIOUS
  <2>1. CASE UNCHANGED allVars
    <3>1. /\ phase' = phase /\ components' = components /\ captured' = captured /\ ip' = ip
          /\ pos' = pos /\ stack' = stack /\ verb' = verb /\ ops' = ops
      BY <2>1 DEF allVars, compileVars, runVars
    <3>2. Kept' /\ Sources' = Sources
      BY <2>1 DEF TemplateInv, Kept, Sources, allVars, compileVars
    <3>3. phase = "run" => \A t \in Sources : Staged(t, components', ip', pos', stack', captured')
      BY <3>1 DEF TemplateInv
    <3>. QED  BY <3>1, <3>2, <3>3 DEF TemplateInv, ResultMatchesTemplate, BindingsMatchTemplate
  <2>2. CASE Compile
    <3>1. phase' \in {"compile", "rejected", "ready"}
      BY <2>2 DEF Compile, CompileNop, CompilePush, CompilePushM, CompileLitPush, CompileConcatN,
                  CompileCapture, CompileReject, CompileDone, Compiling, Keep
    <3>2. Kept'
      BY <2>2, CompileKept DEF TemplateInv
    <3>. QED  BY <3>1, <3>2 DEF TemplateInv, ResultMatchesTemplate, BindingsMatchTemplate
  <2>3. CASE \E path \in Paths, v \in RequestVerbs : Call(path, v)
    BY <2>3, CallTemplates
  <2>4. CASE Run
    <3>1. Going
      BY <2>4 DEF Going, Run, RunOut, RunPush, RunLitPush, RunPushM, RunConcatN, RunCapture, RunEnd, Running
    <3>. QED  BY <2>4, <3>1, RunOutTemplates, RunPushTemplates, RunLitPushTemplates,
                 RunPushMTemplates, RunConcatNTemplates, RunCaptureTemplates, RunEndTemplates DEF Run
  <2>. QED  BY <2>1, <2>2, <2>3, <2>4 DEF Next
<1>. QED  BY <1>1, <1>2, Invariance, PTL DEF Spec

\* Running the op list a template compiles to decides what the template says of
\* the path, for every well-formed template, pool, path and verb.
THEOREM DecidesAsTemplate == Spec => []ResultMatchesTemplate
BY TemplateInvariance, PTL DEF TemplateInv

\* ... and binds every variable of the template to the components it stands for.
THEOREM BindsAsTemplate == Spec => []BindingsMatchTemplate
BY TemplateInvariance, PTL DEF TemplateInv
=============================================================================
