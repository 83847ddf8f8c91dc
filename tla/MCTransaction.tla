---------------------------- MODULE MCTransaction ----------------------------
(***************************************************************************)
(* Instances of Transaction for TLC: 1 is published directly, 2 and 3 are  *)
(* staged.  2 shares the content of 1 and says so, depends on it and leaves *)
(* its size open.  There is room for two nodes.                            *)
(***************************************************************************)
EXTENDS MCCatalog, Transaction, TLC

Direct == {Request(1, c1, << >>, 1, 2)}

Plan(id, content, digest, deps, generation, size) ==
  [id |-> id, content |-> content, digest |-> digest, deps |-> deps, generation |-> generation,
   size |-> size, validation |-> "UNVALIDATED"]

Planned == {Plan(2, c1, c1, <<1>>, 0, 0), Plan(3, c2, NoContent, << >>, 1, 1)}

(* A producer may deliver the longer content for the shorter one. *)
LongerToo == [c \in Two |-> IF c = c2 THEN Two ELSE {c}]

(* Or it delivers what was planned. *)
AsPlanned == [c \in Two |-> {c}]

AnyClient == Permutations(Handles)

(* An artifact that is not claimed and has a record never is claimed again. *)
Staging == {a \in Artifacts : Registered(a) => Claimed(a)}

(* Left out: the accounts no guard reads, the supersessions, the keys of   *)
(* the quarantine records, the bytes an ended transaction had reserved, and *)
(* the index entries and causes of what cannot be staged any more.  No step *)
(* and no property here reads them.                                        *)
WhatStepsRead ==
  <<artifacts, graph, store, nextGeneration, authority, clients,
    reservations, tempBytes, [h \in OpenHandles |-> reservedBytes[h]],
    accounts.physicalBytes, accounts.logicalBytes, accounts.activeReferences,
    {entry \in index : entry[3] \in Staging}, [a \in Staging |-> cause[a]]>>
=============================================================================
