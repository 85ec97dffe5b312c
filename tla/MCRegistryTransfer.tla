--------------------------- MODULE MCRegistryTransfer ---------------------------
(***************************************************************************)
(* Instances of module RegistryTransfer for TLC.                           *)
(***************************************************************************)
EXTENDS RegistryTransfer, TLC

CONSTANTS p1, p2, small, large

MCImage == p1 :> {small, large} @@ p2 :> {small}
MCSize == small :> 1 @@ large :> 4
\* the second push is another machine's, with a fixed token
MCFaults == p1 :> PushFaults @@ p2 :> {}
\* a full part and a short one, or a part too few
MCServerParts == {[size |-> 3, count |-> 2], [size |-> 3, count |-> 1]}
=============================================================================
