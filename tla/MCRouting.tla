------------------------------ MODULE MCRouting ------------------------------
(***************************************************************************)
(* Two methods, with tables of up to MaxHandlers handlers and of at most   *)
(* one, and the requests of three methods for a few paths.                 *)
(***************************************************************************)
EXTENDS Routing

CONSTANTS MaxHandlers, Verbs, Paths

MCMethods == {"GET", "POST"}

Atoms == { << Star >>, << Lit(<<"a">>), Star >>, << Deep >> }
Handlers == { Template(atoms, << >>, v) : atoms \in Atoms, v \in Verbs }

\* One handler of the second method is enough to be noticed.
MCTables ==
  { ("GET" :> get) @@ ("POST" :> post) :
      get \in BoundedSeq(Handlers, MaxHandlers), post \in BoundedSeq(Handlers, 1) }

\* A plain request of each method, forms with and without an override, and the
\* requests refused at the door.
Plain(m, path) == [method |-> m, override |-> "", form |-> "none", hook |-> TRUE,
                   rooted |-> TRUE, path |-> path]
Form(path, f, o) == [Plain("POST", path) EXCEPT !.form = f, !.override = o]
MCRequests ==
  UNION { { Plain("GET", path), Plain("POST", path), Plain("PUT", path),
            Form(path, "good", ""), Form(path, "bad body", ""),
            Form(path, "bad body", "GET"), Form(path, "bad query", "GET") } : path \in Paths }
  \cup { [Plain("GET", << <<"a">> >>) EXCEPT !.hook = FALSE],
         [Plain("GET", << <<"a">> >>) EXCEPT !.rooted = FALSE] }

\* Paths whose last component has at most one ':'.
OneColon == { << <<"a">> >>, << <<"b", "v">> >>, << <<"%">> >>, << <<"a">>, <<"a", "v">> >>,
              << <<"a">>, <<"%", "v">> >>, << <<"b">>, <<"a">> >>, << <<"", "v">> >> }
TwoColons == { << <<"a", "v", "w">> >>, << <<"b">> >> }
NoVerbOrV == { << >>, <<"v">> }
VAndW == { <<"v">>, <<"w">> }

\* What the theorems about the search suppose is so of the run that checks it.
ASSUME OneColonAssumption == Paths = OneColon => SplitsOnce
=============================================================================
