---------------------------- MODULE MCPersistence ----------------------------
(***************************************************************************)
(* Instances of Persistence for TLC.                                       *)
(***************************************************************************)
EXTENDS MCCatalog, Persistence

(* Operations read the records, the graph, the store, the counters and the *)
(* three accounts that are guarded against going below zero, and so do the *)
(* properties of this instance: states that differ in nothing else may be  *)
(* identified.                                                             *)
Guarded == <<accounts.physicalBytes, accounts.logicalBytes, accounts.activeReferences>>
WhatIsRead == <<artifacts, graph, store, Guarded, nextGeneration, authority, intact>>
=============================================================================
