------------------------------ MODULE MCCatalog ------------------------------
(***************************************************************************)
(* Instances of Catalog for TLC: what callers may publish and register in  *)
(* each run.                                                               *)
(***************************************************************************)
EXTENDS Catalog

CONSTANTS c1, c2   \* two distinct contents

Two == {c1, c2}
ByteCounts == [c \in Two |-> IF c = c1 THEN 2 ELSE 1]

Request(id, content, deps, generation, size) ==
  [id |-> id, content |-> content, deps |-> deps, generation |-> generation, size |-> size,
   validation |-> "UNVALIDATED"]

Good == [state |-> "VALID", passed |-> TRUE]
Bad == [state |-> "INVALID", passed |-> TRUE]
Doubtful == [state |-> "VALID", passed |-> FALSE]

NoReports == {}
GoodReports == {Good}
MixedReports == {Good, Doubtful}
AllReports == {Good, Bad, Doubtful}

(* A chain 3 -> 2 -> 1, sizes as the clients fill them in; 1 and 3 share   *)
(* their content.                                                          *)
Chain ==
  {Request(1, c1, << >>, 1, 2), Request(2, c2, <<1>>, 1, 1), Request(3, c1, <<2>>, 1, 2)}

(* Publications that are refused half way: 1 and 2 depend on each other,   *)
(* 2 also twice on 3, 3 on 2 and 1, or on 1, on 4, which is never          *)
(* published, and on itself; sizes are declared too small, too large or    *)
(* left out, generations are unset or given.                               *)
Awkward ==
  {Request(1, c1, <<2>>, 0, 1), Request(1, c1, << >>, 2, 0),
   Request(2, c1, <<1>>, 0, 3), Request(2, c2, <<3, 3>>, 1, 1),
   Request(3, c2, <<1, 4, 3>>, 0, 1), Request(3, c2, <<2, 1>>, 0, 1),
   Request(3, c2, << >>, 0, 1)}

(* Two artifacts, the second younger than some envelopes; a first one of   *)
(* the last generation that understates its size, and a second one that    *)
(* depends on itself and claims to be valid.                               *)
Pair ==
  {Request(1, c1, << >>, 1, 2), Request(2, c1, <<1>>, 2, 2),
   Request(1, c1, << >>, MaxGeneration, 1), [Request(2, c1, <<2>>, 1, 2) EXCEPT !.validation = "VALID"]}

(* Registering declares an artifact before there is content for it. *)
Registrations == {Request(1, NoContent, << >>, 1, 2)}
NoRegistrations == {}

(* No operation reads the indexes, so a run whose properties do not either *)
(* may identify states that differ in nothing else.                        *)
IgnoringIndexes ==
  <<artifacts, graph, store, accounts, nextGeneration, authority, history>>
=============================================================================
