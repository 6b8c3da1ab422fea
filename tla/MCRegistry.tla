----------------------------- MODULE MCRegistry -----------------------------
(***************************************************************************)
(* Registry for TLC: three services in two groups.  The one tried hardest  *)
(* declares every list of up to three bindings, so that the filter meets   *)
(* removals at the head, in the middle, at the end and next to each other. *)
(***************************************************************************)
EXTENDS Registry

CONSTANTS echo, admin, user, g1, g2

MCGroupOf == [s \in {echo, admin, user} |-> IF s = user THEN g2 ELSE g1]

Api1(name, verb, mine) == [name |-> name, verb |-> verb, mine |-> mine]

Lists ==
  { l \in SeqOf([name : {"Get", "Put"}, verb : {"GET", "POST"}, mine : BOOLEAN], 3) : Len(l) > 0 }

Other == << Api1("Get", "GET", TRUE), Api1("Put", "POST", FALSE) >>

MCPrograms ==
  { [s \in {echo, admin, user} |-> IF s = echo THEN l ELSE Other] : l \in Lists }
=============================================================================
