------------------------------ MODULE BlockPool ------------------------------
(***************************************************************************)
(* What the kernel heap promises to its clients, with no table and no      *)
(* addresses: the blocks it hands out belong to one client at a time, from *)
(* the allocation to the release, and a release gives back exactly what    *)
(* was allocated.                                                          *)
(***************************************************************************)

VARIABLE held   \* the sets of blocks that clients hold

Init == held = {}

\* The blocks of the new allocation are nobody's.
Alloc ==
  \E blocks \in held' :
    /\ blocks # {}
    /\ blocks \cap UNION held = {}
    /\ held' = held \cup {blocks}

Release == \E blocks \in held : held' = held \ {blocks}

Next == Alloc \/ Release

Spec == Init /\ [][Next]_held

=============================================================================
