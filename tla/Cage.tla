---------------------------------- MODULE Cage ----------------------------------
(***************************************************************************)
(* What one cage promises its user, whatever files, libvirt domains and    *)
(* helper processes it is made of: a cage is created stopped, its VM runs  *)
(* only while the cage exists, what the guest wrote survives every stop    *)
(* and start, and a cage that was told to go away never runs again.        *)
(***************************************************************************)

VARIABLES
    life,   \* "absent", "stopped", "running", or "doomed": removal was accepted
    data    \* the guest has run on the cage's disk and its writes are kept

vars == <<life, data>>

TypeOK ==
    /\ life \in {"absent", "stopped", "running", "doomed"}
    /\ data \in BOOLEAN

Init ==
    /\ life = "absent"
    /\ data = FALSE

Create ==
    /\ life = "absent"
    /\ life' = "stopped"
    /\ data' = FALSE

Boot ==
    /\ life = "stopped"
    /\ life' = "running"
    /\ data' = TRUE

Halt ==
    /\ life = "running"
    /\ life' = "stopped"
    /\ UNCHANGED data

Condemn ==
    /\ life \in {"stopped", "running"}
    /\ life' = "doomed"
    /\ data' = FALSE

Vanish ==
    /\ life = "doomed"
    /\ life' = "absent"
    /\ UNCHANGED data

Next == Create \/ Boot \/ Halt \/ Condemn \/ Vanish

Spec == Init /\ [][Next]_vars

=============================================================================
