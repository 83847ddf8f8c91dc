---------------------------- MODULE MCCoordinator ----------------------------
(***************************************************************************)
(* Coordinator for TLC: workers are alike, and so are connections.         *)
(***************************************************************************)
EXTENDS Coordinator, TLC

Alike == Permutations(Workers) \cup Permutations(Connections)

(* A restart loads an image that is in the file, that a handler has in its *)
(* hands or that is the coordinator's state when it is taken, and that     *)
(* state is in past; which other moments there were tells no states apart. *)
UpToOtherMoments ==
  <<up, mutable, drawn, held, resumed, published, handler, file, workers,
    past \cap ({file.image} \cup {handler[c].image : c \in Connections})>>
=============================================================================
