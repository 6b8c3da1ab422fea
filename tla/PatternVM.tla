------------------------------ MODULE PatternVM ------------------------------
(***************************************************************************)
(* The path-pattern machine of gateway/runtime/pattern.go: NewPattern      *)
(* verifies a list of op codes once, and MatchAndEscape later runs the     *)
(* verified list over the components of a request path, trusting the       *)
(* verifier: it slices its stack and indexes its arrays without a test.    *)
(*                                                                         *)
(* A component is the list of its ':'-separated tokens, so that            *)
(* "x:watch" is <<"x", "watch">>.  A string on the machine's stack is the  *)
(* set of its '/'-separated pieces, each labelled with the op and the path *)
(* position it comes from; read in the order of the labels they spell the  *)
(* string.  Ops run in order and cells stay in order, so joining strings   *)
(* with "/" is the union of their pieces.                                  *)
(***************************************************************************)
EXTENDS Integers, Sequences

CONSTANTS
  Tok,            \* the tokens of path components and of verbs
  EmptyTok,       \* the empty token, e.g. what precedes the ':' of ":watch"
  Malformed,      \* what unescape returns for an escape it rejects
  UnescapeOne,    \* token -> token or Malformed, for a single component
  UnescapeMulti,  \* the same for the components under a ** wildcard
  Pool,           \* the constant pool: literals and variable names
  Programs,       \* the op lists NewPattern may be given
  PatternVerbs,   \* the verbs a pattern may carry; <<>> is "no verb"
  Paths,          \* the component lists MatchAndEscape may be given
  RequestVerbs    \* the verbs it may be given

Comp == Seq(Tok)
EmptyComp == <<EmptyTok>>
Piece == [op : Nat, at : Nat, text : Comp]
Note == [depth : Nat, tail : Nat, deep : BOOLEAN, caps : Nat]

OpCodes == {"OpNop", "OpPush", "OpLitPush", "OpPushM", "OpConcatN", "OpCapture", "OpEnd"}
Op == [code : OpCodes, operand : Int]

ASSUME TokAssumption == EmptyTok \in Tok /\ Malformed \notin Tok
ASSUME UnescapeAssumption ==
  /\ UnescapeOne \in [Tok -> Tok \cup {Malformed}]
  /\ UnescapeMulti \in [Tok -> Tok \cup {Malformed}]
ASSUME PoolAssumption == Pool \in Seq(Comp)
ASSUME ProgramsAssumption == \A p \in Programs : p \in Seq(Op)
ASSUME InputAssumption ==
  /\ \A v \in PatternVerbs \cup RequestVerbs : v \in Comp
  /\ \A p \in Paths : p \in Seq(Comp)

VARIABLES
  phase,      \* compile -> ready | rejected; ready -> run -> matched | nomatch | malformed
  wellFormed, \* version = 1 and an even number of ints in the definition
  ops, verb,  \* the definition given to NewPattern
  i,          \* the next op of the definition
  prog,       \* typedOps
  depth, maxstack, tailLen, pushMSeen, vars,
  note,       \* history: the verifier's state before each op of prog, and after the last
  components, \* the path MatchAndEscape examines
  ip, pos, stack, captured

compileVars == <<wellFormed, ops, verb, i, prog, depth, maxstack, tailLen, pushMSeen, vars, note>>
runVars == <<components, ip, pos, stack, captured>>
allVars == <<phase, compileVars, runVars>>

Phases == {"compile", "rejected", "ready", "run", "matched", "nomatch", "malformed"}

Init ==
  /\ phase = "compile"
  /\ wellFormed \in BOOLEAN
  /\ ops \in Programs
  /\ verb \in PatternVerbs
  /\ i = 1
  /\ prog = << >> /\ vars = << >>
  /\ depth = 0 /\ maxstack = 0 /\ tailLen = 0 /\ pushMSeen = FALSE
  /\ note = << [depth |-> 0, tail |-> 0, deep |-> FALSE, caps |-> 0] >>
  /\ components = << >> /\ ip = 1 /\ pos = 0 /\ stack = << >> /\ captured = << >>

-----------------------------------------------------------------------------
(* NewPattern: one action per case of the switch. *)

Compiling(code) ==
  /\ phase = "compile" /\ wellFormed
  /\ i <= Len(ops)
  /\ ops[i].code = code

\* The tail of the loop body: maxstack is raised and the op is kept.
Keep(op, newDepth, newTail, newDeep, newVars) ==
  /\ depth' = newDepth /\ tailLen' = newTail
  /\ pushMSeen' = newDeep /\ vars' = newVars
  /\ maxstack' = IF maxstack < newDepth THEN newDepth ELSE maxstack
  /\ prog' = Append(prog, op)
  /\ note' = Append(note, [depth |-> newDepth, tail |-> newTail, deep |-> newDeep,
                           caps |-> Len(newVars)])
  /\ i' = i + 1
  /\ UNCHANGED <<phase, wellFormed, ops, verb, runVars>>

\* Mutant: the segments before the deep wildcard are counted as well.
TailAfterAnyPush == tailLen + 1

TailAfterPush == IF pushMSeen THEN tailLen + 1 ELSE tailLen

InPool(n) == 0 <= n /\ n < Len(Pool)

CompileNop ==
  /\ Compiling("OpNop")
  /\ i' = i + 1
  /\ UNCHANGED <<phase, wellFormed, ops, verb, prog, depth, maxstack, tailLen, pushMSeen, vars, note, runVars>>

CompilePush ==
  /\ Compiling("OpPush")
  /\ Keep(ops[i], depth + 1, TailAfterPush, pushMSeen, vars)

CompilePushM ==
  /\ Compiling("OpPushM")
  /\ ~pushMSeen
  /\ Keep(ops[i], depth + 1, tailLen, TRUE, vars)

CompileLitPush ==
  /\ Compiling("OpLitPush")
  /\ InPool(ops[i].operand)
  /\ Keep(ops[i], depth + 1, TailAfterPush, pushMSeen, vars)

\* Mutant: the underflow test looks at the depth after the push-back.
CompileConcatNLoose ==
  /\ Compiling("OpConcatN")
  /\ ops[i].operand > 0
  /\ depth - ops[i].operand + 1 >= 0
  /\ Keep(ops[i], depth - ops[i].operand + 1, tailLen, pushMSeen, vars)

CompileConcatN ==
  /\ Compiling("OpConcatN")
  /\ ops[i].operand > 0
  /\ depth - ops[i].operand >= 0
  /\ Keep(ops[i], depth - ops[i].operand + 1, tailLen, pushMSeen, vars)

\* The operand of a kept capture is rewritten to the index of its variable.
CompileCapture ==
  /\ Compiling("OpCapture")
  /\ InPool(ops[i].operand)
  /\ depth - 1 >= 0
  /\ Keep([code |-> "OpCapture", operand |-> Len(vars)],
          depth - 1, tailLen, pushMSeen, Append(vars, Pool[ops[i].operand + 1]))

\* Every early return of ErrInvalidPattern, the default case (OpEnd) included.
CompileReject ==
  /\ \/ phase = "compile" /\ ~wellFormed
     \/ Compiling("OpPushM") /\ pushMSeen
     \/ Compiling("OpLitPush") /\ ~InPool(ops[i].operand)
     \/ Compiling("OpConcatN") /\ (ops[i].operand <= 0 \/ depth - ops[i].operand < 0)
     \/ Compiling("OpCapture") /\ (~InPool(ops[i].operand) \/ depth - 1 < 0)
     \/ Compiling("OpEnd")
  /\ phase' = "rejected"
  /\ UNCHANGED <<compileVars, runVars>>

CompileDone ==
  /\ phase = "compile" /\ wellFormed
  /\ i > Len(ops)
  /\ phase' = "ready"
  /\ UNCHANGED <<compileVars, runVars>>

-----------------------------------------------------------------------------
(* MatchAndEscape. *)

\* A request verb the pattern does not carry is put back on the last component.
WithVerb(path, v) ==
  IF path = << >> THEN << EmptyComp \o v >>
  ELSE [path EXCEPT ![Len(path)] = @ \o v]

Call(path, reqVerb) ==
  /\ phase = "ready"
  /\ ip' = 1 /\ pos' = 0 /\ stack' = << >>
  /\ captured' = [k \in 1..Len(vars) |-> {}]
  /\ \/ /\ verb = reqVerb
        /\ phase' = "run" /\ components' = path
     \/ /\ verb # reqVerb /\ verb = << >>
        /\ phase' = "run" /\ components' = WithVerb(path, reqVerb)
     \/ /\ verb # reqVerb /\ verb # << >>
        /\ phase' = "nomatch" /\ components' = path
  /\ UNCHANGED compileVars

Running(code) ==
  /\ phase = "run"
  /\ ip <= Len(prog)
  /\ prog[ip].code = code

Return(result) ==
  /\ phase' = result
  /\ UNCHANGED <<compileVars, runVars>>

\* The unescaped form of a component; an escape the mode rejects makes the
\* whole call fail.
Unescape(c, table) == [t \in 1..Len(c) |-> table[c[t]]]
WellEscaped(c, table) == \A t \in 1..Len(c) : table[c[t]] # Malformed

PieceOf(k, text) == [op |-> ip, at |-> k, text |-> text]

Proceed(newStack, newPos, newCaptured) ==
  /\ stack' = newStack /\ pos' = newPos /\ captured' = newCaptured
  /\ ip' = ip + 1
  /\ UNCHANGED <<phase, components, compileVars>>

\* The common head of OpPush and OpLitPush: no component is left.
RunOut ==
  /\ Running("OpPush") \/ Running("OpLitPush")
  /\ pos >= Len(components)
  /\ Return("nomatch")

RunPush ==
  /\ Running("OpPush")
  /\ pos < Len(components)
  /\ LET c == components[pos + 1]
     IN  \/ /\ WellEscaped(c, UnescapeOne)
            /\ Proceed(Append(stack, { PieceOf(pos, Unescape(c, UnescapeOne)) }), pos + 1, captured)
         \/ ~WellEscaped(c, UnescapeOne) /\ Return("malformed")

RunLitPush ==
  /\ Running("OpLitPush")
  /\ pos < Len(components)
  /\ LET c == components[pos + 1]
     IN  \/ /\ c = Pool[prog[ip].operand + 1]
            /\ Proceed(Append(stack, { PieceOf(pos, c) }), pos + 1, captured)
         \/ c # Pool[prog[ip].operand + 1] /\ Return("nomatch")

\* components[pos:end] joined and unescaped; joining nothing gives "".
DeepPieces(end) ==
  IF end = pos THEN { PieceOf(pos, EmptyComp) }
  ELSE { PieceOf(k, Unescape(components[k + 1], UnescapeMulti)) : k \in pos..(end - 1) }

RunPushM ==
  /\ Running("OpPushM")
  /\ LET end == Len(components) - tailLen
         escaped == \A k \in pos..(end - 1) : WellEscaped(components[k + 1], UnescapeMulti)
     IN  \/ end < pos /\ Return("nomatch")
         \/ end >= pos /\ ~escaped /\ Return("malformed")
         \/ end >= pos /\ escaped /\ Proceed(Append(stack, DeepPieces(end)), end, captured)

\* Mutant: the first of the joined cells is dropped.
RunConcatNShort ==
  /\ Running("OpConcatN")
  /\ LET l == Len(stack) - prog[ip].operand
     IN  Proceed(Append(SubSeq(stack, 1, l), UNION { stack[k] : k \in (l + 2)..Len(stack) }),
                 pos, captured)

RunConcatN ==
  /\ Running("OpConcatN")
  /\ LET l == Len(stack) - prog[ip].operand
     IN  Proceed(Append(SubSeq(stack, 1, l), UNION { stack[k] : k \in (l + 1)..Len(stack) }),
                 pos, captured)

RunCapture ==
  /\ Running("OpCapture")
  /\ LET n == Len(stack)
     IN  Proceed(SubSeq(stack, 1, n - 1), pos,
                 [captured EXCEPT ![prog[ip].operand + 1] = stack[n]])

\* Mutant: the components left over are not looked at.
RunEndEarly ==
  /\ phase = "run"
  /\ ip > Len(prog)
  /\ Return("matched")

RunEnd ==
  /\ phase = "run"
  /\ ip > Len(prog)
  /\ Return(IF pos < Len(components) THEN "nomatch" ELSE "matched")

-----------------------------------------------------------------------------
Compile ==
  \/ CompileNop \/ CompilePush \/ CompilePushM \/ CompileLitPush
  \/ CompileConcatN \/ CompileCapture \/ CompileReject \/ CompileDone

Run ==
  \/ RunOut \/ RunPush \/ RunLitPush \/ RunPushM
  \/ RunConcatN \/ RunCapture \/ RunEnd

Next ==
  \/ Compile
  \/ \E path \in Paths, v \in RequestVerbs : Call(path, v)
  \/ Run

Spec == Init /\ [][Next]_allVars

-----------------------------------------------------------------------------
(* Properties. *)

\* The types of the verifier's and the matcher's variables.
TypeOK ==
  /\ phase \in Phases
  /\ wellFormed \in BOOLEAN
  /\ ops \in Seq(Op) /\ verb \in Comp
  /\ i \in 1..(Len(ops) + 1)
  /\ prog \in Seq(Op)
  /\ depth \in Nat /\ maxstack \in Nat /\ tailLen \in Nat
  /\ pushMSeen \in BOOLEAN
  /\ vars \in Seq(Comp)
  /\ note \in Seq(Note)
  /\ components \in Seq(Comp)
  /\ ip \in Nat \ {0} /\ pos \in Nat
  /\ stack \in Seq(SUBSET Piece)
  /\ captured \in Seq(SUBSET Piece)

\* Verifier soundness: whatever list NewPattern accepted, the op MatchAndEscape
\* is about to run finds on the stack every cell it slices off, a literal or a
\* variable slot at every index it uses.  In the code each of these accesses is
\* unchecked and would panic in the middle of a request.
StackSafe ==
  phase = "run" /\ ip <= Len(prog) =>
    /\ prog[ip].code = "OpConcatN" => prog[ip].operand \in 1..Len(stack)
    /\ prog[ip].code = "OpCapture" => Len(stack) >= 1 /\ prog[ip].operand + 1 \in DOMAIN captured
    /\ prog[ip].code = "OpLitPush" => prog[ip].operand + 1 \in DOMAIN Pool

\* stacksize, measured while verifying, bounds the stack of every later run
\* (MatchAndEscape allocates exactly that capacity).
StackBounded == Len(stack) <= maxstack

\* tailLen is exact: once the deep wildcard has run, no later segment finds the
\* path exhausted and nothing is left over at the end.
TailExact ==
  phase = "run" /\ (\E k \in 1..(ip - 1) : prog[k].code = "OpPushM") =>
    IF ip <= Len(prog)
    THEN prog[ip].code \in {"OpPush", "OpLitPush"} => pos < Len(components)
    ELSE pos = Len(components)

\* A successful match binds every variable of the pattern, each from a capture
\* of its own: no binding is the zero value captured was allocated with.
AllVarsBound ==
  phase = "matched" => \A k \in 1..Len(vars) : captured[k] # {}
=============================================================================
