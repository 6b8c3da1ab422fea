------------------------------- MODULE Routing -------------------------------
(***************************************************************************)
(* ServeMux.ServeHTTP: one request on its way to a handler.  The handlers  *)
(* of the request's method are tried in order, then those of the other     *)
(* methods.  One list of components and one verb serve the whole search:   *)
(* a handler whose verb ends the path splits it off for itself and for     *)
(* every handler after it.                                                 *)
(*                                                                         *)
(* A component is the list of its ':'-separated tokens and a handler is    *)
(* the template of its pattern (PathTemplate; PatternVM shows that the     *)
(* compiled pattern decides as the template does).                         *)
(***************************************************************************)
EXTENDS PathTemplate, FiniteSets

CONSTANTS
  Methods,    \* the HTTP methods some handler is registered for
  Tables,     \* the tables Handle may have left: method -> list of templates
  Requests,   \* the requests that may arrive
  BadTokens,  \* the tokens unescape rejects in the mux's mode
  DisablePathLengthFallback

ASSUME FallbackAssumption == DisablePathLengthFallback \in BOOLEAN
ASSUME TableAssumption == Tables \subseteq [Methods -> Seq([atoms : Seq([kind : {"lit", "star", "deep"}, text : Seq(STRING)]),
                                                            vars : {<< >>}, verb : Seq(STRING)])]

\* form: the body is an url-encoded form, and whether it or the query is broken.
\* hook: RequestReceived returned no error.  override: << >> or the method named.
Forms == {"none", "good", "bad query", "bad body"}
Request == [method : STRING, override : STRING, form : Forms, hook : BOOLEAN,
            rooted : BOOLEAN, path : Seq(Seq(STRING))]
ASSUME RequestAssumption == \A r \in Requests : r \in Request /\ r.path # << >>

VARIABLES
  table, req,
  phase,            \* enter -> match -> fallback -> done
  method,           \* r.Method, which the override header replaces
  components, verb, \* shared by every handler tried
  next,             \* the index in table[method], or in table[other], tried next
  other, left,      \* the method the fallback is at, the methods not yet visited
  answers           \* what was written to the ResponseWriter, in order

fixed == <<table, req>>
vars == <<table, req, phase, method, components, verb, next, other, left, answers>>

NoMethod == "no method"
ASSUME MethodsAssumption == NoMethod \notin Methods

Init ==
  /\ table \in Tables /\ req \in Requests
  /\ phase = "enter" /\ method = req.method
  /\ components = req.path /\ verb = << >>
  /\ next = 1 /\ other = NoMethod /\ left = {}
  /\ answers = << >>

BadToken(c) == \E k \in 1..Len(c) : c[k] \in BadTokens
MatchAndEscape(t, path, v) == Matches(t, path, v, BadToken, BadToken)

\* isPathLengthFallback, of the request as it now stands.
IsPathLengthFallback ==
  ~DisablePathLengthFallback /\ method = "POST" /\ req.form # "none"

\* ParseForm reads the body only for the methods that carry one.
ParseFormFails(m) ==
  \/ req.form = "bad query"
  \/ req.form = "bad body" /\ m \in {"POST", "PUT", "PATCH"}

Dispatch(m, k) == [to |-> "handler", method |-> m, index |-> k]
Error(what) == [to |-> what, method |-> NoMethod, index |-> 0]
\* The answer 400 of a handler that met a malformed escape.
Report(m, k) == [to |-> "malformed", method |-> m, index |-> k]

Finish(answer) ==
  /\ phase' = "done"
  /\ answers' = Append(answers, answer)
  /\ UNCHANGED <<table, req, next, other, left>>

-----------------------------------------------------------------------------
(* Before the search. *)

Refuse ==
  /\ phase = "enter"
  /\ \/ ~req.hook /\ Finish(Error("hook error"))
     \/ req.hook /\ ~req.rooted /\ Finish(Error("bad request"))
  /\ UNCHANGED <<method, components, verb>>

Overrides == req.override # "" /\ IsPathLengthFallback

\* X-HTTP-Method-Override; the form is parsed under the new method.
Override ==
  /\ phase = "enter" /\ req.hook /\ req.rooted /\ Overrides
  /\ method' = req.override
  /\ \/ ParseFormFails(req.override) /\ Finish(Error("invalid argument"))
     \/ /\ ~ParseFormFails(req.override)
        /\ phase' = "match"
        /\ UNCHANGED <<table, req, next, other, left, answers>>
  /\ UNCHANGED <<components, verb>>

Enter ==
  /\ phase = "enter" /\ req.hook /\ req.rooted /\ ~Overrides
  /\ phase' = "match"
  /\ UNCHANGED <<table, req, method, components, verb, next, other, left, answers>>

-----------------------------------------------------------------------------
(* The loop over the handlers of r.Method. *)

HandlersOf(m) == IF m \in Methods THEN table[m] ELSE << >>

\* strings.HasSuffix(c, ":" + v), and what precedes the ':'.
EndsWith(c, v) == v # << >> /\ Len(c) > Len(v) /\ IsSuffix(v, c)
Stem(c, v) == SubSeq(c, 1, Len(c) - Len(v))

\* The path consists of the verb alone behind its last '/'.
VerbOnly(path, v) == EndsWith(Last(path), v) /\ Stem(Last(path), v) = << "" >>

\* Mutant: the verb that was split off is not handed on.
SplitPathOnly(path, v, old) ==
  IF EndsWith(Last(path), v)
  THEN [path |-> [path EXCEPT ![Len(path)] = Stem(@, v)], verb |-> old]
  ELSE [path |-> path, verb |-> old]

Split(path, v, old) ==
  IF EndsWith(Last(path), v)
  THEN [path |-> [path EXCEPT ![Len(path)] = Stem(@, v)], verb |-> v]
  ELSE [path |-> path, verb |-> old]

\* Mutant: a match does not end the loop.
TryFallsThrough ==
  /\ phase = "match" /\ next <= Len(HandlersOf(method))
  /\ LET h == table[method][next]
         split == Split(components, h.verb, verb)
         result == MatchAndEscape(h, split.path, split.verb)
     IN  /\ ~VerbOnly(components, h.verb)
         /\ components' = split.path /\ verb' = split.verb
         /\ answers' = CASE result = "matched" -> Append(answers, Dispatch(method, next))
                         [] result = "malformed" -> Append(answers, Report(method, next))
                         [] OTHER -> answers
         /\ next' = next + 1
         /\ UNCHANGED <<table, req, phase, other, left>>
  /\ UNCHANGED method

\* One iteration.  A malformed escape is reported and the search goes on.
Try ==
  /\ phase = "match" /\ next <= Len(HandlersOf(method))
  /\ LET h == table[method][next]
         split == Split(components, h.verb, verb)
         result == MatchAndEscape(h, split.path, split.verb)
     IN  \/ /\ VerbOnly(components, h.verb)
            /\ Finish(Error("not found"))
            /\ UNCHANGED <<components, verb>>
         \/ /\ ~VerbOnly(components, h.verb)
            /\ components' = split.path /\ verb' = split.verb
            /\ \/ result = "matched" /\ Finish(Dispatch(method, next))
               \/ /\ result # "matched"
                  /\ answers' = IF result = "malformed" THEN Append(answers, Report(method, next))
                                ELSE answers
                  /\ next' = next + 1
                  /\ UNCHANGED <<table, req, phase, other, left>>
  /\ UNCHANGED method

NoneLeft ==
  /\ phase = "match" /\ next > Len(HandlersOf(method))
  /\ phase' = "fallback" /\ next' = 1
  /\ other' = NoMethod /\ left' = Methods \ {method}
  /\ UNCHANGED <<table, req, method, components, verb, answers>>

-----------------------------------------------------------------------------
(* The loop over the other methods, in the order of a map iteration. *)

AtEnd == next > Len(HandlersOf(other))

\* Mutant: the next method's handlers are entered where the last one's ended.
NextMethodContinues ==
  /\ phase = "fallback" /\ AtEnd
  /\ \E m \in left : other' = m /\ left' = left \ {m}
  /\ UNCHANGED <<table, req, phase, method, components, verb, next, answers>>

NextMethod ==
  /\ phase = "fallback" /\ AtEnd
  /\ \E m \in left : other' = m /\ left' = left \ {m} /\ next' = 1
  /\ UNCHANGED <<table, req, phase, method, components, verb, answers>>

\* Mutant: a match that may not be served is dropped without an answer.
FallbackSilent ==
  /\ phase = "fallback" /\ ~AtEnd
  /\ LET result == MatchAndEscape(table[other][next], components, verb)
     IN  \/ /\ result = "matched" /\ IsPathLengthFallback
            /\ Finish(IF ParseFormFails(method) THEN Error("invalid argument")
                      ELSE Dispatch(other, next))
         \/ /\ result # "matched"
            /\ answers' = IF result = "malformed" THEN Append(answers, Report(other, next))
                          ELSE answers
            /\ next' = next + 1
            /\ UNCHANGED <<table, req, phase, other, left>>
  /\ UNCHANGED <<method, components, verb>>

Fallback ==
  /\ phase = "fallback" /\ ~AtEnd
  /\ LET result == MatchAndEscape(table[other][next], components, verb)
     IN  \/ /\ result = "matched"
            /\ Finish(IF ~IsPathLengthFallback THEN Error("method not allowed")
                      ELSE IF ParseFormFails(method) THEN Error("invalid argument")
                      ELSE Dispatch(other, next))
         \/ /\ result # "matched"
            /\ answers' = IF result = "malformed" THEN Append(answers, Report(other, next))
                          ELSE answers
            /\ next' = next + 1
            /\ UNCHANGED <<table, req, phase, other, left>>
  /\ UNCHANGED <<method, components, verb>>

NotFound ==
  /\ phase = "fallback" /\ AtEnd /\ left = {}
  /\ Finish(Error("not found"))
  /\ UNCHANGED <<method, components, verb>>

-----------------------------------------------------------------------------
Next ==
  \/ Refuse \/ Override \/ Enter
  \/ Try \/ NoneLeft
  \/ NextMethod \/ Fallback \/ NotFound

Spec == Init /\ [][Next]_vars
FairSpec == Spec /\ WF_vars(Next)

-----------------------------------------------------------------------------
(* Properties. *)

\* What a handler says of the path of the request, whatever was tried before it.
Alone(h) ==
  IF EndsWith(Last(req.path), h.verb)
  THEN MatchAndEscape(h, [req.path EXCEPT ![Len(req.path)] = Stem(@, h.verb)], h.verb)
  ELSE MatchAndEscape(h, req.path, << >>)

Searched == phase = "done" /\ req.hook /\ req.rooted
Outcome == answers[Len(answers)]
ByHandler == Searched /\ Outcome.to = "handler"

\* A path that is nothing but a handler's verb behind its last '/' ends the
\* search at that handler, by design of the loop.
VerbAlone == \E k \in 1..Len(HandlersOf(method)) : VerbOnly(req.path, table[method][k].verb)

\* No request's path is split twice, or in two ways, by the verbs of one method.
\* Without this a handler can be handed a path that is not the request's.
SplitsOnce ==
  \A r \in Requests, t \in Tables, m \in Methods : \A j, k \in 1..Len(t[m]) :
    EndsWith(Last(r.path), t[m][j].verb) =>
      /\ ~EndsWith(Stem(Last(r.path), t[m][j].verb), t[m][k].verb)
      /\ EndsWith(Last(r.path), t[m][k].verb) => t[m][k].verb = t[m][j].verb

\* The comment above ServeHTTP: the request goes to the first handler whose
\* pattern matches its method and its path.  The search must not depend on the
\* handlers it passed over, though they rewrite the path and the verb it uses;
\* and a request of one method is never answered by another method's handler
\* while its own would match.
DispatchesFirstMatch ==
  /\ ByHandler /\ Outcome.method = method =>
       /\ Alone(table[method][Outcome.index]) = "matched"
       /\ \A k \in 1..(Outcome.index - 1) : Alone(table[method][k]) # "matched"
  /\ Searched /\ ~VerbAlone /\ Outcome.method # method /\ Outcome.to # "invalid argument" =>
       \A k \in 1..Len(HandlersOf(method)) : Alone(table[method][k]) # "matched"

\* A path that only another method's handlers match is answered 405 (or served,
\* for a form), not 404, whichever handlers of the request's method were tried.
\* For handlers without a verb, which see the path put together again.
OtherMethodsNoticed ==
  Searched /\ ~VerbAlone /\ Outcome.to = "not found" =>
    \A m \in Methods \ {method} : \A k \in 1..Len(table[m]) :
      table[m][k].verb = << >> => Alone(table[m][k]) # "matched"

\* The places in answers of what was written before the outcome of the search.
Early == 1..(IF phase = "done" THEN Len(answers) - 1 ELSE Len(answers))

\* The search has one outcome, a handler or an error of its own, and writes
\* nothing behind it.  Before it come nothing but reports of malformed escapes
\* (mux.go:382): each of another handler, and none unless an escape in the path
\* that came is malformed, whatever the handlers did to the path since.
OneOutcome ==
  /\ phase = "done" => answers # << >> /\ Outcome.to # "malformed"
  /\ \A k \in Early : answers[k].to = "malformed" /\ \A j \in 1..(k - 1) : answers[j] # answers[k]
  /\ Early # {} => \E k \in 1..Len(req.path) : BadToken(req.path[k])

\* Every request is answered: the search ends, whatever it comes across.
EventuallyAnswered == <>(phase = "done")
=============================================================================
